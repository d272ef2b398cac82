--------------------------- MODULE BleLogUploader ---------------------------
(***************************************************************************)
(* The upload of what a board prints (static/app.js, queueBleLogText and   *)
(* flushBleLog) to POST /api/ble-log, which stores the lines for the       *)
(* administrator's feed.                                                   *)
(*                                                                         *)
(* Whole lines wait in a bounded queue for a timer; one request is under   *)
(* way at a time.  The device a batch is credited to is the one known when *)
(* it is sent, not when its lines were printed; neither the queue nor the  *)
(* unfinished line is emptied when another board connects; automatic setup *)
(* names its device before it checks which board is on the line; and the   *)
(* wizard names the chosen device for any board its chooser has connected. *)
(*                                                                         *)
(* Abstractions.  A line is its number; a board is the device it turns out *)
(* to be.  Redaction, the limits on characters and provisioning outcomes   *)
(* that the server reads from the lines are left out.  A timeout that      *)
(* LinkDrops leaves behind is no action of its own: when it fires, either  *)
(* FlushTimer may happen too or the flush does nothing.                    *)
(***************************************************************************)
EXTENDS Integers, Sequences, SequencesExt, FiniteSets

CONSTANTS
    Boards,       \* boards, each the device it identifies as
    MaxQueue,     \* BLE_LOG_MAX_QUEUE
    MaxBatch,     \* BLE_LOG_MAX_BATCH
    MaxLines,     \* bound: lines printed
    MaxSessions,  \* bound: boards connected
    MaxLosses     \* bound: requests that fail

ASSUME UploaderParameters ==
    /\ {MaxQueue, MaxBatch} \subseteq Nat \ {0}
    /\ {MaxLines, MaxSessions, MaxLosses} \subseteq Nat

VARIABLES
    board,     \* the board that is connected
    last,      \* history: the one that connected last
    credit,    \* bleLogDeviceId
    setups,    \* boards whose automatic setup waits for the cloud
    writing,   \* provisioningWriteActive
    partial,   \* the boards whose text is in bleLogBuffer
    queue,     \* bleLogQueue
    timer,     \* bleLogTimer
    posts,     \* requests the server works on; the page still waits for the one with awaited
    stored,    \* what the server stored: lines with the device they are credited to
    printed,   \* history: the boards whose text is in each line
    sessions,  \* bounds
    losses,
    misnamed,  \* history: automatic setup or the wizard has credited a device that the
               \* board that connected last is not
    unsure,    \* history: lines whose credit has a named reason to be wrong
    slow       \* history: lines of requests that were given up

logVars == <<board, last, credit, setups, writing, partial, queue, timer, posts, stored, printed,
             sessions, losses, misnamed, unsure, slow>>
link == <<board, last, sessions>>
waiting == <<partial, queue, timer>>
server == <<posts, stored, losses, slow>>
excuse == <<misnamed, unsure>>

Nobody == "nobody"
InFlight(p) == \E k \in DOMAIN p : p[k].awaited

LogInit ==
    /\ board = Nobody /\ last = Nobody /\ credit = Nobody /\ setups = {} /\ writing = FALSE
    /\ partial = {} /\ queue = <<>> /\ timer = FALSE
    /\ posts = <<>> /\ stored = <<>> /\ printed = <<>>
    /\ sessions = 0 /\ losses = 0
    /\ misnamed = FALSE /\ unsure = {} /\ slow = {}

\* Another board, or the same one again; the chooser came before.
ConnectBoard(b) ==
    /\ board = Nobody /\ sessions < MaxSessions
    /\ board' = b /\ last' = b /\ credit' = Nobody /\ sessions' = sessions + 1
    /\ unsure' = IF b = last THEN unsure ELSE unsure \cup Range(queue)
    /\ misnamed' = FALSE
    /\ UNCHANGED <<setups, writing, waiting, server, printed>>

\* bindConnectedIdentity: what the board says of itself.
Identify ==
    /\ board # Nobody /\ credit' = board /\ misnamed' = FALSE
    /\ UNCHANGED <<link, setups, writing, waiting, server, printed, unsure>>

\* handleConnect and handleReconnect credit the device chosen on the page to the
\* board they have just connected, before they ask it for its status.
WizardNames(d) ==
    /\ board # Nobody /\ credit' = d /\ misnamed' = (d # last)
    /\ UNCHANGED <<link, setups, writing, waiting, server, printed, unsure>>

\* autoProvisionConnected asks the cloud for a device for this board, and credits
\* it whichever board is connected by then.
BeginSetup ==
    /\ board # Nobody /\ setups' = setups \cup {board}
    /\ UNCHANGED <<link, credit, writing, waiting, server, printed, excuse>>

SetupAnswers(b) ==
    /\ b \in setups /\ setups' = setups \ {b}
    /\ credit' = b /\ misnamed' = (b # last)
    /\ UNCHANGED <<link, writing, waiting, server, printed, unsure>>

\* The provisioning script begins or ends: what was begun to be printed is dropped.
SetWriting(on) ==
    /\ writing # on /\ (on => board # Nobody)
    /\ writing' = on /\ partial' = {}
    /\ UNCHANGED <<link, credit, setups, queue, timer, server, printed, excuse>>

\* Text without a line break, and text that ends a line: the newest MaxQueue wait.
PrintSome ==
    /\ board # Nobody /\ ~writing /\ board \notin partial
    /\ partial' = partial \cup {board} /\ timer' = TRUE
    /\ UNCHANGED <<link, credit, setups, writing, queue, server, printed, excuse>>

PrintLine ==
    LET line == Len(printed) + 1
        longer == Append(queue, line)
    IN  /\ board # Nobody /\ ~writing /\ line <= MaxLines
        /\ printed' = Append(printed, partial \cup {board})
        /\ queue' = SubSeq(longer, IF Len(longer) > MaxQueue THEN 2 ELSE 1, Len(longer))
        /\ partial' = {} /\ timer' = TRUE
        /\ unsure' = IF partial \subseteq {board} THEN unsure ELSE unsure \cup {line}
        /\ UNCHANGED <<link, credit, setups, writing, server, misnamed>>

\* Mutant: a request is sent beside the one under way.
Flush_Eager ==
    /\ timer' = FALSE
    /\ IF queue = <<>> THEN UNCHANGED <<queue, posts, unsure>>
       ELSE /\ posts' = Append(posts, [lines |-> SubSeq(queue, 1, 1), credit |-> credit, awaited |-> TRUE])
            /\ queue' = Tail(queue)
            /\ unsure' = unsure \cup (IF misnamed THEN {queue[1]} ELSE {})
\* flushBleLog up to its await.
Flush ==
    LET n     == IF Len(queue) > MaxBatch THEN MaxBatch ELSE Len(queue)
        batch == SubSeq(queue, 1, n)
    IN  /\ timer' = FALSE
        /\ IF InFlight(posts) \/ queue = <<>> THEN UNCHANGED <<queue, posts, unsure>>
           ELSE /\ posts' = Append(posts, [lines |-> batch, credit |-> credit, awaited |-> TRUE])
                /\ queue' = SubSeq(queue, n + 1, Len(queue))
                /\ unsure' = unsure \cup (IF misnamed THEN Range(batch) ELSE {})

FlushTimer ==
    /\ timer /\ Flush
    /\ UNCHANGED <<link, credit, setups, writing, partial, stored, losses, slow, printed, misnamed>>

\* The link of a BLE board drops: what waits is sent at once, still in its name.
LinkDrops ==
    /\ board # Nobody /\ board' = Nobody
    /\ Flush
    /\ UNCHANGED <<last, sessions, credit, setups, writing, partial, stored, losses, slow, printed, misnamed>>

\* The page disconnects the board, or a serial port closes: nothing is sent.
Disconnect ==
    /\ board # Nobody /\ board' = Nobody
    /\ UNCHANGED <<last, sessions, credit, setups, writing, waiting, server, printed, excuse>>

\* POST /api/ble-log stores line by line.
StoreLine(k) ==
    /\ posts[k].lines # <<>>
    /\ posts' = [posts EXCEPT ![k].lines = Tail(@)]
    /\ stored' = Append(stored, <<Head(posts[k].lines), posts[k].credit>>)
    /\ UNCHANGED <<link, credit, setups, writing, waiting, printed, losses, excuse, slow>>

\* The finally of flushBleLog.
Settled(awaited) ==
    /\ timer' = (timer \/ (awaited /\ queue # <<>>))
    /\ UNCHANGED <<link, credit, setups, writing, partial, queue, printed, excuse>>

PostEnds(k) ==
    /\ posts[k].lines = <<>>
    /\ posts' = RemoveAt(posts, k)
    /\ Settled(posts[k].awaited)
    /\ UNCHANGED <<stored, losses, slow>>

\* The server refuses the device or cannot store a line: the rest is not tried.
PostRefused(k) ==
    /\ losses < MaxLosses /\ losses' = losses + 1
    /\ posts' = RemoveAt(posts, k)
    /\ Settled(posts[k].awaited)
    /\ UNCHANGED <<stored, slow>>

\* The page hears no answer and goes on; the server may still be at work.
PostUnanswered(k) ==
    /\ posts[k].awaited
    /\ losses < MaxLosses /\ losses' = losses + 1
    /\ posts' = [posts EXCEPT ![k].awaited = FALSE]
    /\ slow' = slow \cup Range(posts[k].lines)
    /\ Settled(TRUE)
    /\ UNCHANGED stored

LogNext ==
    \/ \E b \in Boards : ConnectBoard(b) \/ SetupAnswers(b) \/ WizardNames(b)
    \/ \E on \in BOOLEAN : SetWriting(on)
    \/ Identify \/ BeginSetup \/ PrintSome \/ PrintLine \/ FlushTimer \/ LinkDrops \/ Disconnect
    \/ \E k \in DOMAIN posts : StoreLine(k) \/ PostEnds(k) \/ PostRefused(k) \/ PostUnanswered(k)

(* ------------------------------ properties ----------------------------- *)

LogTypeOK ==
    /\ {board, last, credit} \subseteq Boards \cup {Nobody} /\ setups \cup partial \subseteq Boards
    /\ {writing, timer, misnamed} \subseteq BOOLEAN
    /\ Len(queue) <= MaxQueue
    /\ Range(queue) \cup unsure \cup slow \subseteq DOMAIN printed
    /\ \A k \in DOMAIN posts : Len(posts[k].lines) <= MaxBatch
    /\ \A k \in DOMAIN stored : stored[k] \in (DOMAIN printed) \X (Boards \cup {Nobody})

\* A line reaches the log at most once, and after those printed before it, unless
\* the request that carried one of them was given up while the server worked on it.
\* A line that is credited to a device was printed by it alone, unless it still waited,
\* or had begun, when another board connected, or was sent while automatic setup's
\* device or the wizard's chosen one was named for another board.  No line waits
\* without a timer or a request that will send it.
BleLogIsTrue ==
    /\ \A j, k \in DOMAIN stored : j < k =>
          stored[j][1] < stored[k][1] \/ (stored[j][1] > stored[k][1] /\ stored[k][1] \in slow)
    /\ \A k \in DOMAIN stored :
          stored[k][2] = Nobody \/ printed[stored[k][1]] = {stored[k][2]} \/ stored[k][1] \in unsure
    /\ queue # <<>> => timer \/ InFlight(posts)
=============================================================================
