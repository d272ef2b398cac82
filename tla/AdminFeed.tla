----------------------------- MODULE AdminFeed ------------------------------
(***************************************************************************)
(* The administrator's message feed: the messages table (storage.py), the  *)
(* two brokers whose events GET /api/admin/stream merges, and the page     *)
(* (static/admin.js) that adds the stream to what /api/admin/messages      *)
(* answers.                                                                *)
(*                                                                         *)
(* The page backfills when its tab is activated, when the filters change   *)
(* and whenever its stream opens, from the newest id it has drawn, with    *)
(* one request at a time: a backfill that is asked for meanwhile is not    *)
(* made.  A Sidewalk event takes its listeners before its row is stored, a *)
(* line of a BLE shell after.                                              *)
(*                                                                         *)
(* Abstractions.  A row is its id and its source; the device filter is     *)
(* like the source filter.  A row that cannot be stored, a full queue and  *)
(* the cap of the table are left out.                                      *)
(***************************************************************************)
EXTENDS Integers, Sequences, SequencesExt, FiniteSets, Listing

CONSTANTS
    PageLimit,    \* PAGE_LIMIT, rows a backfill may bring
    MaxTable,     \* MAX_ROWS of the table
    IdMemory,     \* ID_MEMORY, ids remembered before the page forgets the trimmed ones
    MaxMessages,  \* bound: rows in a behaviour
    MaxActs,      \* bound: tabs, filters and refreshes
    MaxCutoffs    \* bound: streams that break and backfills that fail

ASSUME FeedParameters ==
    /\ {PageLimit, MaxTable, IdMemory} \subseteq Nat \ {0} /\ MaxTable <= IdMemory
    /\ {MaxMessages, MaxActs, MaxCutoffs} \subseteq Nat

VARIABLES
    rows,      \* the messages table: rows[id] is the source
    sending,   \* per source: the publish() under way, and whether the page's queue hears it
    feed,      \* the EventSource and the rows on their way through it
    fill,      \* the backfill under way
    newest,    \* newestId
    rendered,  \* renderedIds
    table,     \* the rows of the table, the topmost first
    filter,    \* what the filters let through
    acts,      \* bounds
    cutoffs,
    seen,      \* history: rows drawn since the last reset
    stale,     \* history: a reset for new filters was not made
    excused    \* history: rows the page missed for a named reason

feedVars == <<rows, sending, feed, fill, newest, rendered, table, filter, acts, cutoffs,
              seen, stale, excused>>
drawn == <<newest, rendered, table, seen>>

Sources == {"sidewalk", "ble"}
Passes(id, f) == f = "all" \/ rows[id] = f
NotSending == [at |-> "idle", id |-> 0, heard |-> FALSE]
NoFill == [on |-> FALSE, after |-> 0, filter |-> "all", upto |-> 0, got |-> <<>>, read |-> FALSE]
Hears(s) == feed.at \in {"registered", "open"} \/ (feed.at = "half" /\ s = "sidewalk")

FeedInit ==
    /\ rows = <<>> /\ sending = [s \in Sources |-> NotSending]
    /\ feed = [at |-> "closed", wire |-> <<>>] /\ fill = NoFill
    /\ newest = 0 /\ rendered = {} /\ table = <<>> /\ filter = "all"
    /\ acts = 0 /\ cutoffs = 0
    /\ seen = {} /\ stale = FALSE /\ excused = {}

(* ------------------------------ the server ----------------------------- *)

\* publish() takes the listeners: of a Sidewalk event before the hook stores its
\* row, of a shell line after.
TakeListeners(s) ==
    /\ sending[s].at = (IF s = "sidewalk" THEN "idle" ELSE "stored")
    /\ sending' = [sending EXCEPT ![s].heard = Hears(s),
                                  ![s].at = IF s = "sidewalk" THEN "taken" ELSE "putting"]
    /\ UNCHANGED <<rows, feed, fill, drawn, filter, acts, cutoffs, stale, excused>>

RecordMessage(s) ==
    /\ sending[s].at = (IF s = "sidewalk" THEN "taken" ELSE "idle")
    /\ Len(rows) < MaxMessages
    /\ rows' = Append(rows, s)
    /\ sending' = [sending EXCEPT ![s].id = Len(rows) + 1,
                                  ![s].at = IF s = "sidewalk" THEN "putting" ELSE "stored"]
    /\ UNCHANGED <<feed, fill, drawn, filter, acts, cutoffs, stale, excused>>

\* A row that misses the stream is excused if the page will not ask for it again:
\* it has drawn a newer one, or the stream opened between publish()'s two steps.
PutMessage(s) ==
    LET id == sending[s].id
    IN  /\ sending[s].at = "putting"
        /\ sending' = [sending EXCEPT ![s] = NotSending]
        /\ feed' = IF sending[s].heard THEN [feed EXCEPT !.wire = Append(@, id)] ELSE feed
        /\ excused' = IF ~sending[s].heard /\ (Hears(s) \/ id < newest)
                      THEN excused \cup {id} ELSE excused
        /\ UNCHANGED <<rows, fill, drawn, filter, acts, cutoffs, stale>>

\* admin_stream: the queue is registered with one broker, then with the other.
RegisterFeed ==
    /\ feed.at \in {"connecting", "half"}
    /\ feed' = [feed EXCEPT !.at = IF @ = "connecting" THEN "half" ELSE "registered"]
    /\ UNCHANGED <<rows, sending, fill, drawn, filter, acts, cutoffs, stale, excused>>

\* list_messages: the newest PageLimit rows after the cursor.
ListMessages ==
    LET found == InOrder({id \in fill.after + 1 .. Len(rows) : Passes(id, fill.filter)})
        cut == IF Len(found) > PageLimit THEN Len(found) - PageLimit ELSE 0
    IN  /\ fill.on /\ ~fill.read
        /\ fill' = [fill EXCEPT !.read = TRUE, !.upto = Len(rows),
                                !.got = SubSeq(found, cut + 1, Len(found))]
        /\ excused' = excused \cup Range(SubSeq(found, 1, cut))
        /\ UNCHANGED <<rows, sending, feed, drawn, filter, acts, cutoffs, stale>>

(* ------------------------------- the page ------------------------------ *)

\* backfill(): Wiped says whether it starts, and from an empty table.
Wiped(reset) ==
    /\ newest' = IF reset THEN 0 ELSE newest
    /\ rendered' = IF reset THEN {} ELSE rendered
    /\ table' = IF reset THEN <<>> ELSE table
    /\ seen' = IF reset THEN {} ELSE seen

Backfill(reset, f) ==
    IF fill.on THEN UNCHANGED <<fill, drawn>>
    ELSE /\ Wiped(reset)
         /\ fill' = [NoFill EXCEPT !.on = TRUE, !.after = newest', !.filter = f]

\* Tab "messages", also when it is the one shown already.
EnterMessages ==
    /\ acts < MaxActs /\ acts' = acts + 1
    /\ Backfill(newest = 0, filter)
    /\ feed' = IF feed.at = "closed" THEN [feed EXCEPT !.at = "connecting"] ELSE feed
    /\ UNCHANGED <<rows, sending, filter, cutoffs, stale, excused>>

\* The queue goes with the stream.
Gone(at) ==
    /\ feed' = [at |-> at, wire |-> <<>>]
    /\ sending' = [s \in Sources |-> [sending[s] EXCEPT !.heard = FALSE]]
    /\ excused' = excused \cup {id \in Range(feed.wire) : id < newest}

LeaveMessages ==
    /\ feed.at # "closed"
    /\ acts < MaxActs /\ acts' = acts + 1
    /\ Gone("closed")
    /\ UNCHANGED <<rows, fill, drawn, filter, cutoffs, stale>>

\* EventSource connects again by itself.
BreakFeed ==
    /\ feed.at \in {"half", "registered", "open"}
    /\ cutoffs < MaxCutoffs /\ cutoffs' = cutoffs + 1
    /\ Gone("connecting")
    /\ UNCHANGED <<rows, fill, drawn, filter, acts, stale>>

\* Mutant: onopen does not catch up.
OnOpen_Trusting == UNCHANGED <<fill, drawn, excused>>
\* onopen catches up, unless a backfill is under way: what was stored after that
\* one had read, and before the stream was registered, is then missed.
OnOpen ==
    /\ Backfill(FALSE, filter)
    /\ excused' = IF fill.on /\ fill.read
                  THEN excused \cup (fill.upto + 1 .. Len(rows)) ELSE excused

OpenFeed ==
    /\ feed.at = "registered"
    /\ feed' = [feed EXCEPT !.at = "open"]
    /\ OnOpen
    /\ UNCHANGED <<rows, sending, filter, acts, cutoffs, stale>>

\* A change of the filters, or the refresh button.
ChooseFilter(f) ==
    /\ acts < MaxActs /\ acts' = acts + 1
    /\ filter' = f
    /\ Backfill(TRUE, f)
    /\ stale' = IF fill.on THEN stale \/ f # filter ELSE FALSE
    /\ excused' = IF fill.on THEN excused ELSE {}
    /\ UNCHANGED <<rows, sending, feed, cutoffs>>

\* renderRow: the newest on top, the table trimmed, and the ids of trimmed rows
\* forgotten once there are too many.
Draw(view, id) ==
    IF id \in view.rendered THEN view
    ELSE LET longer == <<id>> \o view.table
             shown  == SubSeq(longer, 1, IF Len(longer) > MaxTable THEN MaxTable ELSE Len(longer))
             ids1   == view.rendered \cup {id}
         IN  [table |-> shown,
              rendered |-> IF Cardinality(ids1) > IdMemory THEN Range(shown) ELSE ids1,
              newest |-> IF id > view.newest THEN id ELSE view.newest]

Drawn(ids) ==
    LET after == FoldLeft(Draw, [table |-> table, rendered |-> rendered, newest |-> newest], ids)
    IN  /\ table' = after.table /\ rendered' = after.rendered /\ newest' = after.newest
        /\ seen' = seen \cup Range(ids)

ShowMessages ==
    /\ fill.on /\ fill.read
    /\ Drawn(fill.got)
    /\ fill' = NoFill
    /\ UNCHANGED <<rows, sending, feed, filter, acts, cutoffs, stale, excused>>

FailBackfill ==
    /\ fill.on /\ cutoffs < MaxCutoffs /\ cutoffs' = cutoffs + 1
    /\ fill' = NoFill
    /\ excused' = excused \cup (fill.after + 1 .. Len(rows))
    /\ UNCHANGED <<rows, sending, feed, drawn, filter, acts, stale>>

DeliverMessage ==
    /\ feed.at = "open" /\ feed.wire # <<>>
    /\ feed' = [feed EXCEPT !.wire = Tail(@)]
    /\ IF Passes(Head(feed.wire), filter) THEN Drawn(<<Head(feed.wire)>>) ELSE UNCHANGED drawn
    /\ UNCHANGED <<rows, sending, fill, filter, acts, cutoffs, stale, excused>>

FeedNext ==
    \/ \E s \in Sources : TakeListeners(s) \/ RecordMessage(s) \/ PutMessage(s)
    \/ RegisterFeed \/ ListMessages \/ EnterMessages \/ LeaveMessages \/ BreakFeed \/ OpenFeed
    \/ \E f \in Sources \cup {"all"} : ChooseFilter(f)
    \/ ShowMessages \/ FailBackfill \/ DeliverMessage

(* ------------------------------ properties ----------------------------- *)

FeedTypeOK ==
    /\ rows \in Seq(Sources) /\ filter \in Sources \cup {"all"}
    /\ feed.at \in {"closed", "connecting", "half", "registered", "open"}
    /\ rendered \cup seen \cup excused \cup Range(table) \cup Range(feed.wire) \subseteq DOMAIN rows
    /\ newest \in 0 .. Len(rows) /\ fill.upto \in 0 .. Len(rows)
    /\ Len(table) <= MaxTable /\ Cardinality(rendered) <= IdMemory
    /\ \A s \in Sources : sending[s].id \in 0 .. Len(rows)
    /\ Range(table) \subseteq rendered

FeedQuiet ==
    /\ feed.at = "open" /\ feed.wire = <<>> /\ ~fill.on
    /\ \A s \in Sources : sending[s].at = "idle"

\* When nothing is on its way the table shows what the filters let through, no row
\* twice, and every such row was drawn since the last reset, unless a reset for
\* new filters was not made.  The rows that are missed are named: cut by the limit
\* of a backfill, stored while a backfill kept the stream's opening from catching
\* up, overtaken by a newer row, caught between publish()'s steps, or lost with a
\* request that failed.
FeedIsTrue ==
    FeedQuiet /\ ~stale =>
        /\ IsInjective(table)
        /\ \A id \in Range(table) : Passes(id, filter)
        /\ \A id \in DOMAIN rows : Passes(id, filter) => id \in seen \cup excused
=============================================================================
