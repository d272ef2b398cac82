----------------------------- MODULE EventBroker -----------------------------
(***************************************************************************)
(* The dashboard's event feed: EventBroker (iot.py:299-373), the stream    *)
(* behind GET /api/events (app.py:1250-1300) and the page that reads it    *)
(* (static/app.js:2298-2363).                                              *)
(*                                                                         *)
(* publish() numbers an event, keeps it in a bounded history and snapshots *)
(* the listeners, all under a lock; the queues are filled after the lock   *)
(* and the hooks.  The MQTT loop, the request handlers and the listener    *)
(* thread all publish.  A page whose connection breaks opens a new stream  *)
(* with since=<largest id it saw>.                                         *)
(*                                                                         *)
(* Hard here: two publishers may fill a queue in the other order than they *)
(* were numbered; a full queue loses its oldest event in three steps that  *)
(* others interleave with; ids start again at 1 when the server restarts   *)
(* and the page does not know.                                             *)
(*                                                                         *)
(* Abstractions.  An event is its number and the device it is about.  The  *)
(* hooks run between Publish and the first Put and change nothing here.  A *)
(* page owns one stream at a time: puts to the queue of a stream that has  *)
(* been given up reach nobody.  A page may see the device it selects.      *)
(***************************************************************************)
EXTENDS Integers, Sequences

CONSTANTS
    Publishers,     \* server threads that publish
    Viewers,        \* dashboard pages
    Devices,        \* wireless_device_ids events are about
    NoDevice,       \* an event that names no device
    Backlog,        \* EVENT_BACKLOG_SIZE, the history's maxlen
    QueueSize,      \* maxsize of a listener's queue
    MaxEvents,      \* bound: events published in a behaviour
    MaxRestarts,    \* bound: restarts of the server
    MaxCuts         \* bound: broken connections

ASSUME ParametersOK ==
    /\ NoDevice \notin Devices
    /\ Backlog \in Nat /\ QueueSize \in Nat \ {0}
    /\ MaxEvents \in Nat /\ MaxRestarts \in Nat /\ MaxCuts \in Nat

VARIABLES
    epoch,          \* which server process this is
    log,            \* every event of this process: log[id] is its device
    pub,            \* publish() calls under way
    stream,         \* per page: "closed" or "open"
    replay,         \* the part of `history` stream() has not yielded yet
    queue,          \* the listener's queue
    wire,           \* yielded, not yet received
    cursor,         \* eventLastId
    selected,       \* the device the page shows
    shown,          \* what the page rendered, in order
    total,          \* history: events published so far, by any process
    cuts,           \* history: broken connections so far
    lapsed,         \* history: events older than the backlog when a stream opened
    dropped,        \* history: events a full queue lost, by page
    passed          \* history: events a later one overtook on the way to a page

server == <<epoch, log, pub>>
streams == <<stream, replay, queue, wire>>
page == <<cursor, selected, shown>>
history == <<total, cuts, lapsed, dropped, passed>>
vars == <<server, streams, page, history>>

Ids == 1..MaxEvents
Events == [epoch : 0..MaxRestarts, id : Ids]
Published == 1..Len(log)
Done == [id |-> 0, to |-> {}, full |-> {}, again |-> {}]

\* A publish() call under way: the listeners still to be served, the one
\* whose queue was full, the one that gets a second put_nowait.
Calls == [id : 0..MaxEvents, to : SUBSET Viewers,
          full : SUBSET Viewers, again : SUBSET Viewers]

TypeOK ==
    /\ epoch \in 0..MaxRestarts
    /\ log \in Seq(Devices \cup {NoDevice}) /\ Len(log) <= MaxEvents
    /\ pub \in [Publishers -> Calls]
    /\ stream \in [Viewers -> {"closed", "open"}]
    /\ {replay, queue, wire} \subseteq [Viewers -> Seq(Published)]
    /\ \A v \in Viewers : Len(replay[v]) <= Backlog /\ Len(queue[v]) <= QueueSize
    /\ shown \in [Viewers -> Seq(Events)]
    /\ cursor \in [Viewers -> 0..MaxEvents]
    /\ selected \in [Viewers -> Devices]
    /\ total \in 0..MaxEvents
    /\ cuts \in 0..MaxCuts
    /\ lapsed \in [Viewers -> SUBSET Ids]
    /\ dropped \in [Viewers -> SUBSET Ids]
    /\ passed \in [Viewers -> SUBSET Ids]

Init ==
    /\ epoch = 0
    /\ log = <<>>
    /\ pub = [p \in Publishers |-> Done]
    /\ stream = [v \in Viewers |-> "closed"]
    /\ replay = [v \in Viewers |-> <<>>]
    /\ queue = [v \in Viewers |-> <<>>]
    /\ wire = [v \in Viewers |-> <<>>]
    /\ cursor = [v \in Viewers |-> 0]
    /\ selected \in [Viewers -> Devices]
    /\ shown = [v \in Viewers |-> <<>>]
    /\ total = 0
    /\ cuts = 0
    /\ lapsed = [v \in Viewers |-> {}]
    /\ dropped = [v \in Viewers |-> {}]
    /\ passed = [v \in Viewers |-> {}]

\* _event_visible: the selected device's events, and those of no device.
Visible(v, i) == log[i] \in {selected[v], NoDevice}
Listening == {v \in Viewers : stream[v] = "open"}
Waiting(c) == c.to \cup c.full \cup c.again
Trim(c) == IF Waiting(c) = {} THEN Done ELSE c

-----------------------------------------------------------------------------
\* publish(), the part under the lock.
Publish(p, d) ==
    /\ pub[p] = Done
    /\ total < MaxEvents
    /\ total' = total + 1
    /\ log' = Append(log, d)
    /\ pub' = [pub EXCEPT ![p] = Trim([Done EXCEPT !.id = Len(log) + 1, !.to = Listening])]
    /\ UNCHANGED <<epoch, streams, page, cuts, lapsed, dropped, passed>>

\* The event reaches the queue; lower ids still on their way to v have been
\* overtaken.
Reaches(p, v) ==
    /\ queue' = [queue EXCEPT ![v] = Append(@, pub[p].id)]
    /\ passed' = [passed EXCEPT ![v] = @ \cup
          {i \in Ids : \E q \in Publishers :
                          /\ v \in Waiting(pub[q])
                          /\ pub[q].id = i /\ i < pub[p].id}]

\* The loop over the snapshot, after the lock and the hooks: put_nowait.
Put(p, v) ==
    /\ v \in pub[p].to
    /\ pub[p].full = {} /\ pub[p].again = {}
    /\ Len(queue[v]) < QueueSize
    /\ Reaches(p, v)
    /\ pub' = [pub EXCEPT ![p] = Trim([pub[p] EXCEPT !.to = @ \ {v}])]
    /\ UNCHANGED <<epoch, log, stream, replay, wire, page, total, cuts, lapsed, dropped>>

\* queue.Full ...
PutFull(p, v) ==
    /\ v \in pub[p].to
    /\ pub[p].full = {} /\ pub[p].again = {}
    /\ Len(queue[v]) >= QueueSize
    /\ pub' = [pub EXCEPT ![p].to = @ \ {v}, ![p].full = {v}]
    /\ UNCHANGED <<epoch, log, streams, page, history>>

\* ... so the oldest event makes room, if the stream has not taken it ...
Evict(p, v) ==
    /\ v \in pub[p].full
    /\ IF queue[v] = <<>>
       THEN UNCHANGED <<queue, dropped>>
       ELSE /\ queue' = [queue EXCEPT ![v] = Tail(@)]
            /\ dropped' = [dropped EXCEPT ![v] = @ \cup {Head(queue[v])}]
    /\ pub' = [pub EXCEPT ![p].full = {}, ![p].again = {v}]
    /\ UNCHANGED <<epoch, log, stream, replay, wire, page, total, cuts, lapsed, passed>>

\* Mutant: the second put does not look at the queue again.
PutAgain_Unchecked(p, v) ==
    /\ v \in pub[p].again
    /\ Reaches(p, v)
    /\ pub' = [pub EXCEPT ![p] = Trim([@ EXCEPT !.again = {}])]
    /\ UNCHANGED <<epoch, log, stream, replay, wire, page, total, cuts, lapsed, dropped>>

\* ... and the event is put again, or lost when another publisher was faster.
PutAgain(p, v) ==
    /\ v \in pub[p].again
    /\ IF Len(queue[v]) < QueueSize
       THEN Reaches(p, v) /\ UNCHANGED dropped
       ELSE /\ dropped' = [dropped EXCEPT ![v] = @ \cup {pub[p].id}]
            /\ UNCHANGED <<queue, passed>>
    /\ pub' = [pub EXCEPT ![p] = Trim([@ EXCEPT !.again = {}])]
    /\ UNCHANGED <<epoch, log, stream, replay, wire, page, total, cuts, lapsed>>

-----------------------------------------------------------------------------
\* What the history holds: the newest Backlog events.
InHistory == {i \in 1..Len(log) : i > Len(log) - Backlog}

\* open_stream's history: newer than the cursor, all of it when the cursor is
\* ahead of the server.
After(c) ==
    LET since == IF c > Len(log) THEN 0 ELSE c
        from  == IF Len(log) - since > Backlog THEN Len(log) - Backlog ELSE since
    IN  [k \in 1..Len(log) - from |-> from + k]

\* Mutant: the listener is registered after the lock on the history is gone,
\* so an event published in between is in neither.
Open_Unlocked(v) ==
    /\ stream[v] = "closed"
    /\ stream' = [stream EXCEPT ![v] = "open"]
    /\ \E missed \in 0..Len(After(cursor[v])) :
          replay' = [replay EXCEPT ![v] = SubSeq(After(cursor[v]), 1, missed)]
    /\ lapsed' = [lapsed EXCEPT ![v] = @ \cup (1..Len(log) \ InHistory)]
    /\ UNCHANGED <<server, queue, wire, page, total, cuts, dropped, passed>>

\* connectEventStream and open_stream: the listener is added and the history
\* read under one lock.
Open(v) ==
    /\ stream[v] = "closed"
    /\ stream' = [stream EXCEPT ![v] = "open"]
    /\ replay' = [replay EXCEPT ![v] = After(cursor[v])]
    /\ lapsed' = [lapsed EXCEPT ![v] = @ \cup (1..Len(log) \ InHistory)]
    /\ UNCHANGED <<server, queue, wire, page, total, cuts, dropped, passed>>

\* stream(): first the history, then the queue; an event of another device
\* is passed over.
Yields(v, i) ==
    wire' = IF Visible(v, i) THEN [wire EXCEPT ![v] = Append(@, i)] ELSE wire

\* Mutant: the loop over the history ends at the first event it may not show.
YieldHistory_StopsAtHidden(v) ==
    /\ replay[v] # <<>>
    /\ wire' = IF Visible(v, Head(replay[v]))
               THEN [wire EXCEPT ![v] = Append(@, Head(replay[v]))] ELSE wire
    /\ replay' = [replay EXCEPT ![v] = IF Visible(v, Head(@)) THEN Tail(@) ELSE <<>>]
    /\ UNCHANGED <<server, stream, queue, page, history>>

YieldHistory(v) ==
    /\ replay[v] # <<>>
    /\ Yields(v, Head(replay[v]))
    /\ replay' = [replay EXCEPT ![v] = Tail(@)]
    /\ UNCHANGED <<server, stream, queue, page, history>>

\* Mutant: the generator serves whichever has an event.
YieldLive_AnyTime(v) ==
    /\ queue[v] # <<>>
    /\ Yields(v, Head(queue[v]))
    /\ queue' = [queue EXCEPT ![v] = Tail(@)]
    /\ UNCHANGED <<server, stream, replay, page, history>>

YieldLive(v) ==
    /\ replay[v] = <<>>
    /\ queue[v] # <<>>
    /\ Yields(v, Head(queue[v]))
    /\ queue' = [queue EXCEPT ![v] = Tail(@)]
    /\ UNCHANGED <<server, stream, replay, page, history>>

-----------------------------------------------------------------------------
\* Mutant: the cursor is the last id received, not the largest.
Receive_LastId(v) ==
    /\ wire[v] # <<>>
    /\ LET i == Head(wire[v]) IN
        /\ cursor' = [cursor EXCEPT ![v] = i]
        /\ shown' = [shown EXCEPT ![v] = Append(@, [epoch |-> epoch, id |-> i])]
    /\ wire' = [wire EXCEPT ![v] = Tail(@)]
    /\ UNCHANGED <<server, stream, replay, queue, selected, history>>

\* source.onmessage.
Receive(v) ==
    /\ wire[v] # <<>>
    /\ LET i == Head(wire[v]) IN
        /\ cursor' = [cursor EXCEPT ![v] = IF i > @ THEN i ELSE @]
        /\ shown' = [shown EXCEPT ![v] = Append(@, [epoch |-> epoch, id |-> i])]
    /\ wire' = [wire EXCEPT ![v] = Tail(@)]
    /\ UNCHANGED <<server, stream, replay, queue, selected, history>>

\* The stream of v is over: what was on its way is gone.
Close(vs) ==
    LET Emptied(f) == [v \in Viewers |-> IF v \in vs THEN <<>> ELSE f[v]]
    IN  /\ stream' = [v \in Viewers |-> IF v \in vs THEN "closed" ELSE stream[v]]
        /\ replay' = Emptied(replay)
        /\ queue' = Emptied(queue)
        /\ wire' = Emptied(wire)

Forget(v) ==
    pub' = [p \in Publishers |->
              Trim([pub[p] EXCEPT !.to = @ \ {v}, !.full = @ \ {v}, !.again = @ \ {v}])]

\* source.onerror: the connection broke; the timer opens another one.
Cut(v) ==
    /\ stream[v] = "open"
    /\ cuts < MaxCuts
    /\ cuts' = cuts + 1
    /\ Close({v})
    /\ Forget(v)
    /\ UNCHANGED <<epoch, log, page, total, lapsed, dropped, passed>>

\* Another device is chosen: connectEventStream({resetCursor: true}).
Choose(v, d) ==
    /\ selected[v] # d
    /\ selected' = [selected EXCEPT ![v] = d]
    /\ cursor' = [cursor EXCEPT ![v] = 0]
    /\ shown' = [shown EXCEPT ![v] = <<>>]
    /\ lapsed' = [lapsed EXCEPT ![v] = {}]
    /\ dropped' = [dropped EXCEPT ![v] = {}]
    /\ passed' = [passed EXCEPT ![v] = {}]
    /\ Close({v})
    /\ Forget(v)
    /\ UNCHANGED <<epoch, log, total, cuts>>

\* The server process starts again: no history, no listeners, ids from 1.
\* The pages keep their cursors.
Restart ==
    /\ epoch < MaxRestarts
    /\ epoch' = epoch + 1
    /\ log' = <<>>
    /\ pub' = [p \in Publishers |-> Done]
    /\ Close(Viewers)
    /\ lapsed' = [v \in Viewers |-> {}]
    /\ dropped' = [v \in Viewers |-> {}]
    /\ passed' = [v \in Viewers |-> {}]
    /\ UNCHANGED <<page, total, cuts>>

-----------------------------------------------------------------------------
PublisherStep(p) ==
    \E v \in Viewers : Put(p, v) \/ PutFull(p, v) \/ Evict(p, v) \/ PutAgain(p, v)

StreamStep(v) == YieldHistory(v) \/ YieldLive(v)

Next ==
    \/ \E p \in Publishers, d \in Devices \cup {NoDevice} : Publish(p, d)
    \/ \E p \in Publishers : PublisherStep(p)
    \/ \E v \in Viewers : Open(v) \/ StreamStep(v) \/ Receive(v) \/ Cut(v)
    \/ \E v \in Viewers, d \in Devices : Choose(v, d)
    \/ Restart

(***************************************************************************)
(* publish() and stream() run on, what is sent arrives unless the          *)
(* connection breaks, and a page without a stream opens one (the timer of  *)
(* onerror, or at once after a choice).                                    *)
(***************************************************************************)
Spec ==
    /\ Init /\ [][Next]_vars
    /\ \A p \in Publishers : WF_vars(PublisherStep(p))
    /\ \A v \in Viewers :
          WF_vars(Open(v)) /\ WF_vars(StreamStep(v)) /\ WF_vars(Receive(v))

-----------------------------------------------------------------------------
ShownIds(v) == {shown[v][n].id : n \in {n \in DOMAIN shown[v] : shown[v][n].epoch = epoch}}
Items(s) == {s[n] : n \in DOMAIN s}

\* The page saw an id this high from an earlier server process.
StaleCursor(v, i) ==
    \E n \in DOMAIN shown[v] : shown[v][n].epoch < epoch /\ shown[v][n].id >= i

\* Why an event a page should show may be missing from it for good.
Excused(v, i) ==
    \/ i \in lapsed[v]            \* older than the backlog when it connected
    \/ i \in dropped[v]           \* the queue was full
    \/ i \in passed[v]            \* a later event was queued before it
    \/ StaleCursor(v, i)

\* iot.py:346-368: an event the selected device published is on the page, on
\* its way there, or missing for one of four known reasons; no interleaving
\* of publishing, reconnecting and choosing loses one otherwise.
NothingLostUnexcused ==
    \A v \in Viewers : stream[v] = "open" =>
        \A i \in 1..Len(log) : Visible(v, i) =>
            \/ i \in ShownIds(v) \cup Items(wire[v]) \cup Items(replay[v]) \cup Items(queue[v])
            \/ \E p \in Publishers : pub[p].id = i /\ v \in Waiting(pub[p])
            \/ Excused(v, i)

\* README.md:140-141: a page renders an event a second time only when its
\* cursor came from an earlier server process.
RepeatedOnlyAfterRestart ==
    \A v \in Viewers : \A m, n \in DOMAIN shown[v] :
        m < n /\ shown[v][m] = shown[v][n] =>
            \E k \in 1..m : /\ shown[v][k].epoch < shown[v][m].epoch
                            /\ shown[v][k].id > shown[v][m].id

\* A page renders events in the order they were numbered, except one that a
\* later event overtook, or a repetition.
InOrderUnlessPassed ==
    \A v \in Viewers : \A m, n \in DOMAIN shown[v] :
        /\ m < n
        /\ shown[v][m].epoch = epoch /\ shown[v][n].epoch = epoch
        /\ shown[v][m].id > shown[v][n].id
        => shown[v][n].id \in passed[v] \/ StaleCursor(v, shown[v][n].id)

\* An event of the selected device that the page has yet to show.
Owed(v, i) ==
    /\ i \in 1..Len(log)
    /\ Visible(v, i)
    /\ i \notin ShownIds(v)
    /\ ~Excused(v, i)

\* Whatever breaks, a page comes to show every event of the device it has
\* selected, unless the event is excused, the server restarts or the page
\* turns to another device: nothing is owed for ever to a page that stays.
EventsSurface ==
    \A v \in Viewers, i \in Ids, d \in Devices : []<>(~Owed(v, i) \/ selected[v] # d)

\* README.md:140-141: "reconnects resume from the last event cursor instead
\* of replaying the whole backlog": no event is rendered twice.
ReconnectResumes ==
    \A v \in Viewers : \A m, n \in DOMAIN shown[v] :
        shown[v][m] = shown[v][n] => m = n
=============================================================================
