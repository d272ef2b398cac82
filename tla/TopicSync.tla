----------------------------- MODULE TopicSync ------------------------------
(***************************************************************************)
(* The MQTT bridge of SidewalkCloudService (iot.py:376-458, 559-680): which *)
(* uplink topics it is subscribed to.                                      *)
(*                                                                         *)
(* Importing app.py syncs twice: start() (app.py:198) and                  *)
(* _sync_topics_at_startup() (app.py:1653).  After that every request that *)
(* adds a device syncs.  A sync starts the listener thread or, if there is *)
(* one, subscribes itself.  So three kinds of thread run _subscribe_topics *)
(* and wait for its futures: the importing thread and requests, listener   *)
(* threads, and the one event loop thread of a connection, which calls     *)
(* _on_connection_resumed and is also what settles the futures.            *)
(*                                                                         *)
(* External is the MQTT client: a subscription asked for while there is no *)
(* connection is kept until there is one; the first attempt to connect is  *)
(* not repeated, a lost connection is.  clean_session is False, so the     *)
(* broker keeps the subscriptions of a lost connection, if it still has    *)
(* the session when the connection resumes.  Messages of a topic are heard *)
(* on a connection object only if they were subscribed to on that object,  *)
(* which holds the callback.                                               *)
(***************************************************************************)
EXTENDS Integers, FiniteSets

CONSTANTS
    Topics,
    Configured,     \* AWS_IOT_UPLINK_TOPIC and AWS_IOT_LOCATION_TOPIC, if set
    InitialTables,  \* what the devices table may hold when the process starts
    Main, Requests, \* the importing thread, and threads that serve requests
    None,
    MaxListeners,   \* bound: listener threads ever started
    MaxCreates,     \* bound: devices added
    MaxFaults       \* bound: failures and interruptions

ASSUME TopicsOK ==
    /\ Configured \subseteq Topics
    /\ InitialTables \subseteq SUBSET Topics
    /\ Main \notin Requests
    /\ None \notin Topics
    /\ MaxListeners \in Nat \ {0} /\ MaxCreates \in Nat /\ MaxFaults \in Nat

Threads == Requests \cup {Main}
Conns == 1..MaxListeners        \* listener n makes connection n
Listener(n) == <<"listener", n>>
Loop(n) == <<"loop", n>>
Actors == {<<"thread", t>> : t \in Threads}
          \cup {Listener(n) : n \in Conns} \cup {Loop(n) : n \in Conns}

VARIABLES
    table,          \* topics of the active devices
    desired,        \* _desired_topics
    recorded,       \* _subscribed_topics
    conn,           \* _mqtt_connection, 0 when there is none
    thread,         \* _listener_thread, 0 when there is none
    booted,         \* syncs the importing thread has finished, of two
    pc, topics,     \* per thread: where it stands in sync_topics, its argument
    state,          \* per listener thread
    line,           \* per connection: what the MQTT client has of it
    heard,          \* per connection: topics subscribed to on it
    todo,           \* per actor: topics_to_add that are left
    future,         \* per actor: the subscription it waits for
    lost,           \* history: topics that are not heard any more, or not to be, by cause
    creates, faults

serviceVars == <<desired, recorded, conn, thread>>
vars == <<table, serviceVars, booted, pc, topics, state, line, heard, todo,
          future, lost, creates, faults>>

NoFuture == [conn |-> 0, topic |-> None, s |-> "none"]

TypeOK ==
    /\ table \subseteq Topics /\ desired \subseteq Topics /\ recorded \subseteq Topics
    /\ conn \in 0..MaxListeners /\ thread \in 0..MaxListeners /\ booted \in 0..2
    /\ pc \in [Threads -> {"idle", "read", "set", "alive", "start", "spawn",
                           "subscribe", "subscribing"}]
    /\ topics \in [Threads -> SUBSET Topics]
    /\ state \in [Conns -> {"unborn", "begun", "built", "connected", "subscribing",
                            "looping", "dead"}]
    /\ line \in [Conns -> {"none", "fresh", "up", "down", "refused"}]
    /\ heard \in [Conns -> SUBSET Topics]
    /\ todo \in [Actors -> SUBSET Topics]
    /\ future \in [Actors -> [conn : 0..MaxListeners, topic : Topics \cup {None},
                              s : {"none", "pending", "done"}]]
    /\ lost \in [session : SUBSET Topics, replaced : SUBSET Topics, failed : SUBSET Topics]
    /\ creates \in 0..MaxCreates /\ faults \in 0..MaxFaults

Init ==
    /\ table \in InitialTables
    /\ desired = {} /\ recorded = {} /\ conn = 0 /\ thread = 0 /\ booted = 0
    /\ pc = [t \in Threads |-> IF t = Main THEN "read" ELSE "idle"]
    /\ topics = [t \in Threads |-> {}]
    /\ state = [n \in Conns |-> "unborn"]
    /\ line = [n \in Conns |-> "none"]
    /\ heard = [n \in Conns |-> {}]
    /\ todo = [a \in Actors |-> {}]
    /\ future = [a \in Actors |-> NoFuture]
    /\ lost = [session |-> {}, replaced |-> {}, failed |-> {}] /\ creates = 0 /\ faults = 0

Fault == faults < MaxFaults /\ faults' = faults + 1
Heard(topic) == conn # 0 /\ topic \in heard[conn]
Alive(n) == n # 0 /\ state[n] \in {"begun", "built", "connected", "subscribing", "looping"}
Done(a) == todo[a] = {} /\ future[a] = NoFuture

\* Mutant: the importing thread is not stopped after its second sync.
Goes_NeverBooted(t, from, to) ==
    /\ pc[t] = from
    /\ pc' = [pc EXCEPT ![t] = IF to # "end" THEN to
                               ELSE IF t = Main THEN "read" ELSE "idle"]
    /\ booted' = IF to = "end" /\ t = Main THEN booted + 1 ELSE booted

\* Thread t goes on, or returns; the importing thread syncs twice.
Goes(t, from, to) ==
    /\ pc[t] = from
    /\ pc' = [pc EXCEPT ![t] = IF to # "end" THEN to
                               ELSE IF t = Main /\ booted = 0 THEN "read" ELSE "idle"]
    /\ booted' = IF to = "end" /\ t = Main THEN booted + 1 ELSE booted

\* The event loop thread of a connection runs _on_connection_resumed.
Busy(n) == ~Done(Loop(n))

-----------------------------------------------------------------------------
(* sync_topics, by the importing thread or a request *)

\* A handler has stored a device with an uplink topic.
Create(t, topic) ==
    /\ booted = 2 /\ t # Main /\ creates < MaxCreates
    /\ Goes(t, "idle", "read")
    /\ table' = table \cup {topic}
    /\ creates' = creates + 1
    /\ UNCHANGED <<serviceVars, topics, state, line, heard, todo, future, lost, faults>>

\* unique_uplink_topics and the configured topics.
ReadTopics(t) ==
    /\ Goes(t, "read", "set")
    /\ topics' = [topics EXCEPT ![t] = table \cup Configured]
    /\ UNCHANGED <<table, serviceVars, state, line, heard, todo, future, lost, creates, faults>>

SetDesired(t) ==
    /\ Goes(t, "set", IF topics[t] = {} THEN "end" ELSE "alive")
    /\ desired' = topics[t]
    /\ lost' = [lost EXCEPT !.failed = @ \ topics[t]]
    /\ UNCHANGED <<table, recorded, conn, thread, topics, state, line, heard, todo,
                   future, creates, faults>>

CheckAlive(t) ==
    /\ Goes(t, "alive", IF Alive(thread) THEN "subscribe" ELSE "start")
    /\ UNCHANGED <<table, serviceVars, topics, state, line, heard, todo, future,
                   lost, creates, faults>>

\* _start_listener_thread asks again, and creates the thread without a lock.
CheckAgain(t) ==
    /\ Goes(t, "start", IF Alive(thread) THEN "end" ELSE "spawn")
    /\ UNCHANGED <<table, serviceVars, topics, state, line, heard, todo, future,
                   lost, creates, faults>>

Spawn(t) ==
    /\ Goes(t, "spawn", "end")
    /\ \E n \in Conns :
        /\ state[n] = "unborn" /\ \A m \in 1..n - 1 : state[m] # "unborn"
        /\ thread' = n
        /\ state' = [state EXCEPT ![n] = "begun"]
    /\ UNCHANGED <<table, desired, recorded, conn, topics, line, heard, todo, future,
                   lost, creates, faults>>

\* Mutant: while the listener is not in its loop, topics are left to it.
SubscribeOwn_LeftToListener(t) ==
    /\ Goes(t, "subscribe", IF conn = 0 THEN "end" ELSE "subscribing")
    /\ todo' = [todo EXCEPT ![<<"thread", t>>] =
                    IF conn = 0 \/ state[thread] # "looping" THEN {} ELSE topics[t] \ recorded]
    /\ UNCHANGED <<table, serviceVars, topics, state, line, heard, future, lost, creates, faults>>

\* _subscribe_topics, for the topics this thread read.
SubscribeOwn(t) ==
    /\ Goes(t, "subscribe", IF conn = 0 THEN "end" ELSE "subscribing")
    /\ todo' = [todo EXCEPT ![<<"thread", t>>] =
                    IF conn = 0 THEN {} ELSE topics[t] \ recorded]
    /\ UNCHANGED <<table, serviceVars, topics, state, line, heard, future, lost,
                   creates, faults>>

Subscribed(t) ==
    /\ Done(<<"thread", t>>)
    /\ Goes(t, "subscribing", "end")
    /\ UNCHANGED <<table, serviceVars, topics, state, line, heard, todo, future,
                   lost, creates, faults>>

-----------------------------------------------------------------------------
(* _subscribe_topics: one topic at a time, by any actor *)

\* Mutant: a topic is recorded before its future is settled.
Ask_RecordsFirst(a) ==
    /\ todo[a] # {} /\ future[a] = NoFuture
    /\ \E topic \in todo[a] :
        /\ future' = [future EXCEPT ![a] = [conn |-> conn, topic |-> topic, s |-> "pending"]]
        /\ recorded' = recorded \cup {topic}
    /\ UNCHANGED <<table, desired, conn, thread, booted, pc, topics, state, line, heard, todo,
                   lost, creates, faults>>

\* subscribe() on the connection of the moment, and result() on its future.
Ask(a) ==
    /\ todo[a] # {} /\ future[a] = NoFuture
    /\ \E topic \in todo[a] :
        future' = [future EXCEPT ![a] = [conn |-> conn, topic |-> topic, s |-> "pending"]]
    /\ UNCHANGED <<table, serviceVars, booted, pc, topics, state, line, heard, todo, lost,
                   creates, faults>>

\* A topic is heard on connection n: on the one in use, or on one that was replaced.
FoundAgain(topic, n) ==
    IF n = conn THEN [c \in DOMAIN lost |-> lost[c] \ {topic}]
    ELSE [lost EXCEPT !.replaced = IF Heard(topic) THEN @ ELSE @ \cup {topic}]

\* The event loop thread has the SUBACK (external).
Suback(a) ==
    /\ future[a].s = "pending"
    /\ line[future[a].conn] = "up" /\ ~Busy(future[a].conn)
    /\ future' = [future EXCEPT ![a].s = "done"]
    /\ heard' = [heard EXCEPT ![future[a].conn] = @ \cup {future[a].topic}]
    /\ lost' = FoundAgain(future[a].topic, future[a].conn)
    /\ UNCHANGED <<table, serviceVars, booted, pc, topics, state, line, todo, creates, faults>>

Record(a) ==
    /\ future[a].s = "done"
    /\ recorded' = recorded \cup {future[a].topic}
    /\ todo' = [todo EXCEPT ![a] = @ \ {future[a].topic}]
    /\ future' = [future EXCEPT ![a] = NoFuture]
    /\ UNCHANGED <<table, desired, conn, thread, booted, pc, topics, state, line, heard, lost,
                   creates, faults>>

\* The future fails: the exception ends the sync or the listener thread.
AskFails(a) ==
    /\ future[a].s = "pending" /\ ~Busy(future[a].conn) /\ Fault
    /\ lost' = [lost EXCEPT !.failed = @ \cup todo[a]]
    /\ todo' = [todo EXCEPT ![a] = {}]
    /\ future' = [future EXCEPT ![a] = NoFuture]
    /\ state' = [n \in Conns |-> IF a = Listener(n) THEN "dead" ELSE state[n]]
    /\ UNCHANGED <<table, serviceVars, booted, pc, topics, line, heard, creates>>

-----------------------------------------------------------------------------
(* _mqtt_listener_main of listener n, and its connection *)

Build(n) ==
    /\ state[n] = "begun"
    /\ state' = [state EXCEPT ![n] = "built"]
    /\ conn' = n
    /\ line' = [line EXCEPT ![n] = "fresh"]
    /\ lost' = [lost EXCEPT !.replaced = @ \cup {topic \in Topics : Heard(topic)}]
    /\ UNCHANGED <<table, desired, recorded, thread, booted, pc, topics, heard, todo, future,
                   creates, faults>>

\* connect() on the connection of the moment, which may be another listener's
\* and connected already.
Connect(n) ==
    /\ state[n] = "built" /\ line[conn] = "fresh"
    /\ state' = [state EXCEPT ![n] = "connected"]
    /\ line' = [line EXCEPT ![conn] = "up"]
    /\ UNCHANGED <<table, serviceVars, booted, pc, topics, heard, todo, future, lost, creates, faults>>

ConnectFails(n) ==
    /\ state[n] = "built"
    /\ IF line[conn] = "fresh"
       THEN Fault /\ line' = [line EXCEPT ![conn] = "refused"]
       ELSE UNCHANGED <<line, faults>>
    /\ state' = [state EXCEPT ![n] = "dead"]
    /\ lost' = [lost EXCEPT !.failed = @ \cup desired]
    /\ UNCHANGED <<table, serviceVars, booted, pc, topics, heard, todo, future, creates>>

\* Mutant: the listener subscribes to what was known when the process started.
SubscribeDesired_AtStart(n) ==
    /\ state[n] = "connected"
    /\ state' = [state EXCEPT ![n] = "subscribing"]
    /\ todo' = [todo EXCEPT ![Listener(n)] = topics[Main] \ recorded]
    /\ UNCHANGED <<table, serviceVars, booted, pc, topics, line, heard, future, lost, creates, faults>>

SubscribeDesired(n) ==
    /\ state[n] = "connected"
    /\ state' = [state EXCEPT ![n] = "subscribing"]
    /\ todo' = [todo EXCEPT ![Listener(n)] = desired \ recorded]
    /\ UNCHANGED <<table, serviceVars, booted, pc, topics, line, heard, future, lost, creates, faults>>

Listens(n) ==
    /\ state[n] = "subscribing" /\ Done(Listener(n))
    /\ state' = [state EXCEPT ![n] = "looping"]
    /\ UNCHANGED <<table, serviceVars, booted, pc, topics, line, heard, todo, future, lost,
                   creates, faults>>

Interrupt(n) ==
    /\ line[n] = "up" /\ ~Busy(n) /\ Fault
    /\ line' = [line EXCEPT ![n] = "down"]
    /\ UNCHANGED <<table, serviceVars, booted, pc, topics, state, heard, todo, future, lost, creates>>

\* _on_connection_resumed subscribes on the event loop thread.  It is told whether
\* the broker still has the session, and does the same in either case.
Resume(n) ==
    /\ line[n] = "down"
    /\ line' = [line EXCEPT ![n] = "up"]
    /\ todo' = [todo EXCEPT ![Loop(n)] = desired \ recorded]
    /\ \E session_present \in BOOLEAN :
        IF session_present THEN UNCHANGED <<heard, lost>>
        ELSE /\ heard' = [heard EXCEPT ![n] = {}]
             /\ lost' = IF n = conn THEN [lost EXCEPT !.session = @ \cup heard[n]] ELSE lost
    /\ UNCHANGED <<table, serviceVars, booted, pc, topics, state, future, creates, faults>>

-----------------------------------------------------------------------------
SyncStep(t) ==
    \/ ReadTopics(t) \/ SetDesired(t) \/ CheckAlive(t) \/ CheckAgain(t) \/ Spawn(t)
    \/ SubscribeOwn(t) \/ Subscribed(t)
ListenerStep(n) ==
    Build(n) \/ Connect(n) \/ ConnectFails(n) \/ SubscribeDesired(n) \/ Listens(n)
SubscribeStep(a) == Ask(a) \/ Suback(a) \/ Record(a)

Next ==
    \/ \E t \in Threads : SyncStep(t) \/ \E topic \in Topics : Create(t, topic)
    \/ \E a \in Actors : SubscribeStep(a) \/ AskFails(a)
    \/ \E n \in Conns : ListenerStep(n) \/ Interrupt(n) \/ Resume(n)

\* Threads run, the client answers, and it repeats a lost connection.
Fairness ==
    /\ \A t \in Threads : WF_vars(SyncStep(t))
    /\ \A a \in Actors : WF_vars(SubscribeStep(a))
    /\ \A n \in Conns : WF_vars(ListenerStep(n)) /\ WF_vars(Resume(n))

Spec == Init /\ [][Next]_vars /\ Fairness

-----------------------------------------------------------------------------
UnderWay(topic) ==
    \/ \E a \in Actors : topic \in todo[a]
    \/ \E t \in Threads : topic \in topics[t] /\ pc[t] \in {"alive", "spawn", "subscribe"}
    \/ \E t \in Threads : topic \in topics[t] /\ pc[t] = "start" /\ ~Alive(thread)
    \/ \E n \in Conns : state[n] \in {"begun", "built", "connected"}

\* iot.py:611-612, 454-456: the set of wanted topics changes while listeners
\* connect and subscribe to it.  A wanted topic is heard on the connection in
\* use, or somebody is still about to subscribe to it, or it was given up for
\* one of three reasons: the broker lost the session it was subscribed in, the
\* connection it is heard on was replaced, or an attempt failed since a sync
\* last asked for it.
NothingForgotten ==
    \A topic \in desired :
        \/ Heard(topic) \/ UnderWay(topic)
        \/ topic \in lost.session \cup lost.replaced \cup lost.failed

\* iot.py:643: a topic that is left out of topics_to_add is heard on the
\* connection in use, unless the broker lost its session or the connection was
\* replaced, whatever else has failed.  These two are never noticed: the record
\* outlives both (iot.py:671, 587).
RecordIsTrue ==
    \A topic \in recorded : Heard(topic) \/ topic \in lost.session \cup lost.replaced

\* A future that may stay as it is: its connection was refused, or left behind
\* before anyone connected it, or its event loop thread waits for a future.
Stranded(a) ==
    LET n == future[a].conn
    IN  /\ future[a].s = "pending"
        /\ \/ line[n] = "refused"
           \/ line[n] = "fresh" /\ conn # n
           \/ future[Loop(n)].s = "pending"

\* Every sync ends, unless it is stranded, and every wanted topic is heard at
\* last, unless who subscribes to it is stranded or it was given up as above.
\* (A sync that is to start one listener more than the bound stays where it is.)
TopicsSettle ==
    <>[](/\ \A t \in Threads :
              \/ pc[t] = "idle" \/ Stranded(<<"thread", t>>)
              \/ pc[t] = "spawn" /\ state[MaxListeners] # "unborn"
         /\ \A topic \in desired :
              \/ Heard(topic) \/ topic \in lost.session \cup lost.replaced \cup lost.failed
              \/ \E a \in Actors : topic \in todo[a] /\ Stranded(a)
              \/ \E t \in Threads : pc[t] = "spawn" /\ topic \in topics[t])

\* app.py:1643-1645 "a bad AWS endpoint or an unreachable broker should
\* degrade to "no uplinks", not to a process that will not boot": importing
\* app.py comes to an end.
ImportEnds == <>(booted = 2)
=============================================================================
