----------------------------- MODULE ChunkQueue -----------------------------
(***************************************************************************)
(* The Memfault chunk queue (memfault.py:200-346, storage.py:728-925).     *)
(*                                                                         *)
(* A chunk heard on the MQTT thread becomes a row of memfault_chunks,      *)
(* unless the same bytes came from the same device within the dedupe       *)
(* window.  One worker thread takes the oldest due row, POSTs it and       *)
(* records the outcome: sent, or pending again after a backoff, or failed  *)
(* for good after MaxAttempts.                                             *)
(*                                                                         *)
(* Hard here: a POST may be accepted although its answer never arrives,    *)
(* it may be accepted late, and the worker may be cut off (restart, or an  *)
(* exception that ends one iteration) between the POST and the record of   *)
(* its outcome.                                                            *)
(*                                                                         *)
(* Abstractions.  Time is relative, in ticks: the age of a row saturates   *)
(* past the window and its wait counts down to due.  The events dropped    *)
(* before they reach the table (forwarding off, bad hex, no serial, a      *)
(* failed insert) change nothing and are not steps.                        *)
(***************************************************************************)
EXTENDS Integers, Sequences, FiniteSets

CONSTANTS
    Devices,        \* WirelessDeviceIds heard from
    Data,           \* chunk bytes
    Framings,       \* values of the one-byte uplink framing sequence
    Window,         \* MEMFAULT_CHUNK_DEDUPE_WINDOW_SECS, in ticks
    MaxAttempts,    \* MEMFAULT_CHUNK_MAX_ATTEMPTS
    MaxBackoff,     \* MEMFAULT_CHUNK_MAX_BACKOFF_SECS, in ticks
    MaxRows,        \* bound: rows ever inserted
    MaxLate,        \* bound: given-up POSTs still on their way at a time
    MaxAborts       \* bound: iterations of the worker cut off

ASSUME ParametersOK ==
    /\ Window \in Nat /\ MaxRows \in Nat
    /\ MaxLate \in Nat /\ MaxAborts \in Nat
    /\ MaxAttempts \in Nat \ {0} /\ MaxBackoff \in Nat

Ids == 1..MaxRows       \* memfault_chunks.id: AUTOINCREMENT

VARIABLES
    count,          \* rows inserted so far
    chunk,          \* per row: device, bytes and framing sequence
    age,            \* per row: ticks since received_at, up to Window + 1
    status,         \* per row: "none" before it is inserted
    attempts,       \* per row: failed attempts recorded
    wait,           \* per row: ticks until next_attempt_at
    worker,         \* where the forwarder stands: at, row, ok
    health,         \* memfault_device_health.last_forward_ok, by device
    posts,          \* history: POSTs made for a row
    aborts,         \* history: iterations of the worker cut off
    wire,           \* POSTs that have not reached Memfault: <<row, n>>
    taken           \* what Memfault accepted, in order

queueVars == <<count, chunk, age, status, attempts, wait, health>>
vars == <<queueVars, worker, posts, aborts, wire, taken>>

NoChunk == [dev |-> "none", data |-> "none", seq |-> "none"]
Chunks == [dev : Devices, data : Data, seq : Framings]
Idle == [at |-> "idle", row |-> 0, ok |-> FALSE]

TypeOK ==
    /\ count \in 0..MaxRows
    /\ chunk \in [Ids -> Chunks \cup {NoChunk}]
    /\ age \in [Ids -> 0..(Window + 1)]
    /\ status \in [Ids -> {"none", "pending", "sent", "failed"}]
    /\ attempts \in [Ids -> 0..MaxAttempts]
    /\ wait \in [Ids -> Nat]
    /\ worker \in [at : {"idle", "posting", "marking", "health"},
                   row : 0..MaxRows, ok : BOOLEAN]
    /\ health \in [Devices -> {"unknown", "ok", "failed"}]
    /\ posts \in [Ids -> Nat]
    /\ aborts \in 0..MaxAborts
    /\ wire \subseteq Ids \X Nat
    /\ taken \in Seq(Ids \X Nat)

Init ==
    /\ count = 0
    /\ chunk = [i \in Ids |-> NoChunk]
    /\ age = [i \in Ids |-> 0]
    /\ status = [i \in Ids |-> "none"]
    /\ attempts = [i \in Ids |-> 0]
    /\ wait = [i \in Ids |-> 0]
    /\ worker = Idle
    /\ health = [d \in Devices |-> "unknown"]
    /\ posts = [i \in Ids |-> 0]
    /\ aborts = 0
    /\ wire = {}
    /\ taken = <<>>

-----------------------------------------------------------------------------
\* Mutant: the framing sequence is part of the key again.
RecentDuplicate_BySequence(c) ==
    \E i \in 1..count : chunk[i] = c /\ age[i] <= Window

\* storage.py:774-784: same device, same bytes, received_at >= cutoff; the
\* framing sequence and the status of the row do not matter.
RecentDuplicate(c) ==
    \E i \in 1..count :
        chunk[i].dev = c.dev /\ chunk[i].data = c.data /\ age[i] <= Window

\* enqueue_memfault_chunk: one transaction on the MQTT thread.
Enqueue(c) ==
    /\ count < MaxRows
    /\ ~RecentDuplicate(c)
    /\ LET i == count + 1 IN
        /\ count' = i
        /\ chunk' = [chunk EXCEPT ![i] = c]
        /\ status' = [status EXCEPT ![i] = "pending"]
    /\ UNCHANGED <<age, attempts, wait, health, worker, posts, aborts, wire, taken>>

Due(i) == status[i] = "pending" /\ wait[i] = 0

\* Mutant: rows are taken in any order.
TakeNext_AnyDue(i) ==
    /\ worker.at = "idle"
    /\ Due(i)
    /\ worker' = [at |-> "posting", row |-> i, ok |-> FALSE]
    /\ posts' = [posts EXCEPT ![i] = @ + 1]
    /\ wire' = wire \cup {<<i, posts[i] + 1>>}
    /\ UNCHANGED <<queueVars, aborts, taken>>

\* Mutant: the row is claimed in the table while its POST is under way.
TakeNext_Claims(i) ==
    /\ worker.at = "idle"
    /\ Due(i)
    /\ \A j \in Ids : Due(j) => i <= j
    /\ worker' = [at |-> "posting", row |-> i, ok |-> FALSE]
    /\ posts' = [posts EXCEPT ![i] = @ + 1]
    /\ wire' = wire \cup {<<i, posts[i] + 1>>}
    /\ status' = [status EXCEPT ![i] = "sending"]
    /\ UNCHANGED <<count, chunk, age, attempts, wait, health, aborts, taken>>

\* next_memfault_chunk_to_send: the oldest row that is due; its POST leaves.
TakeNext(i) ==
    /\ worker.at = "idle"
    /\ Due(i)
    /\ \A j \in Ids : Due(j) => i <= j
    /\ worker' = [at |-> "posting", row |-> i, ok |-> FALSE]
    /\ posts' = [posts EXCEPT ![i] = @ + 1]
    /\ wire' = wire \cup {<<i, posts[i] + 1>>}
    /\ UNCHANGED <<queueVars, aborts, taken>>

\* Memfault accepts a POST that reaches it, however late.
MemfaultAccepts(p) ==
    /\ p \in wire
    /\ wire' = wire \ {p}
    /\ taken' = Append(taken, p)
    /\ UNCHANGED <<queueVars, worker, posts, aborts>>

Accepted(p) == \E n \in DOMAIN taken : taken[n] = p

\* Mutant: any answer below 500 counts as success.
Answered202_AnyAnswer ==
    /\ worker.at = "posting"
    /\ worker' = [worker EXCEPT !.at = "marking", !.ok = TRUE]
    /\ UNCHANGED <<queueVars, posts, aborts, wire, taken>>

\* The 202 for the POST the worker waits for.
Answered202 ==
    /\ worker.at = "posting"
    /\ Accepted(<<worker.row, posts[worker.row]>>)
    /\ worker' = [worker EXCEPT !.at = "marking", !.ok = TRUE]
    /\ UNCHANGED <<queueVars, posts, aborts, wire, taken>>

\* The worker stops waiting for its POST: it is gone, or it is late.
GiveUpPost ==
    LET p == <<worker.row, posts[worker.row]>>
    IN  \/ wire' = wire \ {p}
        \/ Cardinality(wire) <= MaxLate /\ wire' = wire

\* Another status, a connection error, or the timeout: the POST itself may
\* have been accepted, may still be, or is gone.
PostFails ==
    /\ worker.at = "posting"
    /\ worker' = [worker EXCEPT !.at = "marking", !.ok = FALSE]
    /\ GiveUpPost
    /\ UNCHANGED <<queueVars, posts, aborts, taken>>

\* mark_memfault_chunk_sent.
MarkSent ==
    /\ worker.at = "marking"
    /\ worker.ok
    /\ status' = [status EXCEPT ![worker.row] = "sent"]
    /\ worker' = [worker EXCEPT !.at = "health"]
    /\ UNCHANGED <<count, chunk, age, attempts, wait, health,
                   posts, aborts, wire, taken>>

Backoff(a) == IF 2^a \in 0..MaxBackoff THEN 2^a ELSE MaxBackoff

\* Mutant: the cap on attempts is tested before the attempt is counted.
MarkFailed_CapOffByOne ==
    /\ worker.at = "marking"
    /\ ~worker.ok
    /\ LET i == worker.row
           n == attempts[i] + 1
       IN  /\ attempts' = [attempts EXCEPT ![i] = n]
           /\ status' = [status EXCEPT ![i] =
                            IF n > MaxAttempts THEN "failed" ELSE "pending"]
           /\ wait' = [wait EXCEPT ![i] = Backoff(n)]
    /\ worker' = [worker EXCEPT !.at = "health"]
    /\ UNCHANGED <<count, chunk, age, health, posts, aborts, wire, taken>>

\* mark_memfault_chunk_attempt_failed: terminal at the cap.
MarkFailed ==
    /\ worker.at = "marking"
    /\ ~worker.ok
    /\ LET i == worker.row
           n == attempts[i] + 1
       IN  /\ attempts' = [attempts EXCEPT ![i] = n]
           /\ status' = [status EXCEPT ![i] =
                            IF n >= MaxAttempts THEN "failed" ELSE "pending"]
           /\ wait' = [wait EXCEPT ![i] = Backoff(n)]
    /\ worker' = [worker EXCEPT !.at = "health"]
    /\ UNCHANGED <<count, chunk, age, health, posts, aborts, wire, taken>>

\* upsert_memfault_device_health, a transaction of its own.
UpdateHealth ==
    /\ worker.at = "health"
    /\ health' = [health EXCEPT ![chunk[worker.row].dev] =
                    IF worker.ok THEN "ok" ELSE "failed"]
    /\ worker' = Idle
    /\ UNCHANGED <<count, chunk, age, status, attempts, wait,
                   posts, aborts, wire, taken>>

\* The process dies and the worker starts again, or an exception ends the
\* iteration (memfault.py:268-278): the row is left as it was.
Abort ==
    /\ worker.at # "idle"
    /\ aborts < MaxAborts
    /\ aborts' = aborts + 1
    /\ worker' = Idle
    /\ GiveUpPost
    /\ UNCHANGED <<queueVars, posts, taken>>

Tick ==
    /\ \E i \in 1..count : age[i] <= Window \/ wait[i] > 0
    /\ age' = [i \in Ids |-> IF i <= count /\ age[i] <= Window THEN age[i] + 1 ELSE age[i]]
    /\ wait' = [i \in Ids |-> IF wait[i] > 0 THEN wait[i] - 1 ELSE 0]
    /\ UNCHANGED <<count, chunk, status, attempts, health,
                   worker, posts, aborts, wire, taken>>

WorkerStep ==
    \/ \E i \in Ids : TakeNext(i)
    \/ Answered202
    \/ PostFails
    \/ MarkSent
    \/ MarkFailed
    \/ UpdateHealth

Next ==
    \/ \E c \in Chunks : Enqueue(c)
    \/ WorkerStep
    \/ \E p \in wire : MemfaultAccepts(p)
    \/ Abort
    \/ Tick

\* The worker thread runs (a POST ends by its timeout) and time passes.
Spec == Init /\ [][Next]_vars /\ WF_vars(WorkerStep) /\ WF_vars(Tick)

-----------------------------------------------------------------------------
\* storage.py:735-752: of two rows with the same bytes from one device the
\* older was out of the window when the younger was inserted, whatever their
\* framing sequence and whatever became of the older one.
NoRepeatWithinWindow ==
    \A i, j \in 1..count :
        /\ i < j
        /\ chunk[i].dev = chunk[j].dev /\ chunk[i].data = chunk[j].data
        => age[i] > Window

\* What the recorded states are worth: "sent" was accepted by Memfault,
\* "failed" used up its attempts and nothing else did, and a device's health
\* was earned by a row of that device.
StatusIsEarned ==
    /\ \A i \in Ids : status[i] = "sent" => \E n \in 1..posts[i] : Accepted(<<i, n>>)
    /\ \A i \in Ids : status[i] = "failed" <=> attempts[i] = MaxAttempts
    /\ \A d \in Devices : health[d] # "unknown" =>
          \E i \in 1..count :
             /\ chunk[i].dev = d
             /\ IF health[d] = "ok" THEN status[i] = "sent" ELSE attempts[i] > 0

\* The POST of row i that succeeded, or has not been recorded as failed yet.
Current(i) == IF \/ status[i] = "sent"
                 \/ worker.row = i /\ worker.at \in {"posting", "marking"}
              THEN 1 ELSE 0

\* The places of row i among what Memfault accepted.
Copies(i) == {n \in DOMAIN taken : taken[n][1] = i}

\* README.md:174 "stop retrying after MEMFAULT_CHUNK_MAX_ATTEMPTS", storage.py:796
\* "the oldest chunk due": what Memfault holds is explained by the failures.  A
\* row is POSTed once per recorded failure, once more for the POST that is under
\* way or succeeded, and once more for every iteration that was cut off; there
\* are no more copies than that; and a younger row comes first only when a POST
\* of the older one failed or was cut off.
OnlyRetriesRepeat ==
    /\ \A i \in Ids :
        /\ posts[i] <= attempts[i] + aborts + Current(i)
        /\ Cardinality(Copies(i)) <= posts[i]
    /\ \A m, n \in DOMAIN taken :
        /\ m < n
        /\ taken[m][1] > taken[n][1]
        => attempts[taken[n][1]] + aborts > 0

\* README.md:172-175: every chunk that was written is sent or given up, restarts
\* or not; none waits behind the others for ever.  That it stays so is a theorem
\* of ChunkQueueProofs, SettledForGood.
EveryChunkSettles ==
    \A i \in Ids : status[i] = "pending" ~> status[i] \in {"sent", "failed"}
=============================================================================
