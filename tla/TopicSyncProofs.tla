---------------------------- MODULE TopicSyncProofs ----------------------------
(***************************************************************************)
(* What TopicSync guarantees for any topics, requests and bounds.          *)
(*                                                                         *)
(* The hard part is that a wanted topic is never forgotten: the set of     *)
(* wanted topics is replaced, without a lock, while listeners are started, *)
(* connect, subscribe and fail.  Who will subscribe to a topic depends on  *)
(* how far they and the syncs are, which UnderWay says.                    *)
(***************************************************************************)
EXTENDS TopicSync, TLAPS

-----------------------------------------------------------------------------
(* The inductive invariant.                                                 *)

Started(n) == state[n] \notin {"unborn", "begun"}

\* Listeners are started in order, and build a connection before all else.
Listeners ==
    /\ \A n \in Conns : state[n] = "unborn" <=> n > thread
    /\ conn # 0 => Started(conn)
    /\ \A n \in Conns : Started(n) => conn # 0
    /\ \A n \in Conns : line[n] # "none" \/ heard[n] # {} => Started(n)
    /\ \A t \in Threads : pc[t] \in {"subscribe", "subscribing"} => thread # 0

\* What is asked for is left to be asked for until it is recorded, on a connection
\* that exists.
Asked ==
    /\ \A a \in Actors : todo[a] # {} => conn # 0
    /\ \A a \in Actors : future[a] # NoFuture =>
          /\ future[a].conn # 0 /\ future[a].topic \in todo[a] /\ future[a].s # "none"
          /\ Started(future[a].conn)

\* Nobody has topics to ask for but within _subscribe_topics.
OnlyWithin ==
    /\ \A t \in Threads : pc[t] # "subscribing" => todo[<<"thread", t>>] = {}
    /\ \A n \in Conns : state[n] # "subscribing" => todo[Listener(n)] = {}
    /\ \A n \in Conns : line[n] # "up" => todo[Loop(n)] = {}

\* The topic is heard, or it was and is not any more for a reason nobody notices.
Known(topic) == Heard(topic) \/ topic \in lost.session \cup lost.replaced

\* What is done and not recorded yet is as true as the record.
DoneIsTrue == \A a \in Actors : future[a].s = "done" => Known(future[a].topic)

Kept(topic) == Known(topic) \/ topic \in lost.failed \/ UnderWay(topic)

\* The importing thread syncs twice and is done.
Booting == booted = 2 => pc[Main] = "idle"

IInv == /\ TypeOK /\ Booting /\ Listeners /\ Asked /\ OnlyWithin
        /\ RecordIsTrue /\ DoneIsTrue /\ NothingForgotten

-----------------------------------------------------------------------------
(* Types.                                                                   *)

Places == {"idle", "read", "set", "alive", "start", "spawn", "subscribe", "subscribing"}
States == {"unborn", "begun", "built", "connected", "subscribing", "looping", "dead"}
Lines == {"none", "fresh", "up", "down", "refused"}
Losses == [session : SUBSET Topics, replaced : SUBSET Topics, failed : SUBSET Topics]
Futures == [conn : 0..MaxListeners, topic : Topics \cup {None}, s : {"none", "pending", "done"}]

LEMMA Facts ==
    ASSUME TypeOK
    PROVE  /\ table \subseteq Topics /\ desired \subseteq Topics /\ recorded \subseteq Topics
           /\ pc \in [Threads -> Places] /\ topics \in [Threads -> SUBSET Topics]
           /\ state \in [Conns -> States] /\ line \in [Conns -> Lines]
           /\ heard \in [Conns -> SUBSET Topics] /\ todo \in [Actors -> SUBSET Topics]
           /\ future \in [Actors -> Futures] /\ NoFuture \in Futures
           /\ conn \in 0..MaxListeners /\ thread \in 0..MaxListeners /\ booted \in 0..2
           /\ lost \in Losses /\ creates \in 0..MaxCreates /\ faults \in 0..MaxFaults
           /\ MaxListeners \in Nat \ {0} /\ MaxCreates \in Nat /\ MaxFaults \in Nat
           /\ Conns = 1..MaxListeners /\ Main \in Threads /\ Configured \subseteq Topics
           /\ \A t \in Threads : <<"thread", t>> \in Actors
           /\ \A n \in Conns : Listener(n) \in Actors /\ Loop(n) \in Actors
<1>1. /\ table \subseteq Topics /\ desired \subseteq Topics /\ recorded \subseteq Topics
      /\ pc \in [Threads -> Places] /\ topics \in [Threads -> SUBSET Topics]
      /\ state \in [Conns -> States] /\ line \in [Conns -> Lines]
      /\ heard \in [Conns -> SUBSET Topics] /\ todo \in [Actors -> SUBSET Topics]
      /\ future \in [Actors -> Futures]
      /\ conn \in 0..MaxListeners /\ thread \in 0..MaxListeners /\ booted \in 0..2
      /\ lost \in Losses /\ creates \in 0..MaxCreates /\ faults \in 0..MaxFaults
  BY DEF TypeOK, Places, States, Lines, Losses, Futures
<1>2. /\ MaxListeners \in Nat \ {0} /\ MaxCreates \in Nat /\ MaxFaults \in Nat
      /\ Conns = 1..MaxListeners /\ Main \in Threads /\ Configured \subseteq Topics
  BY TopicsOK DEF Conns, Threads
<1>3. NoFuture \in Futures
  BY <1>2 DEF NoFuture, Futures
<1>4. /\ \A t \in Threads : <<"thread", t>> \in Actors
      /\ \A n \in Conns : Listener(n) \in Actors /\ Loop(n) \in Actors
  BY DEF Actors
<1> QED BY <1>1, <1>2, <1>3, <1>4

\* A thread that goes on, or returns, moves alone.
LEMMA Moves ==
    ASSUME TypeOK, Booting, NEW t \in Threads, NEW from \in Places, NEW to \in Places \cup {"end"},
           Goes(t, from, to), from # "idle" \/ t # Main
    PROVE  /\ pc' \in [Threads -> Places] /\ booted' \in 0..2 /\ Booting'
           /\ pc[t] = from /\ pc'[t] \in {to, "read", "idle"} /\ (to # "end" => pc'[t] = to)
           /\ \A s \in Threads : s # t => pc'[s] = pc[s]
<1> USE DEF Goes
<1>1. pc \in [Threads -> Places] /\ booted \in 0..2 /\ Main \in Threads
  BY Facts
<1>2. pc[t] = from /\ \A s \in Threads : s # t => pc'[s] = pc[s]
  BY <1>1
<1>3. pc'[t] = IF to # "end" THEN to ELSE IF t = Main /\ booted = 0 THEN "read" ELSE "idle"
  BY <1>1
<1>4. pc' \in [Threads -> Places]
  BY <1>1 DEF Places
<1>5. booted' \in 0..2
  BY <1>1, <1>2 DEF Booting
<1>6. Booting'
  <2>1. CASE t = Main
    BY <2>1, <1>1, <1>2, <1>3 DEF Booting
  <2>2. CASE t # Main
    BY <2>2, <1>1, <1>2 DEF Booting
  <2> QED BY <2>1, <2>2
<1> QED BY <1>2, <1>3, <1>4, <1>5, <1>6

LEMMA ActorsDiffer ==
    /\ \A s, t \in Threads : <<"thread", s>> = <<"thread", t>> => s = t
    /\ \A m, n \in Conns : (Listener(m) = Listener(n) => m = n) /\ (Loop(m) = Loop(n) => m = n)
    /\ \A m, n \in Conns : Listener(m) # Loop(n)
    /\ \A t \in Threads, n \in Conns : <<"thread", t>> # Listener(n) /\ <<"thread", t>> # Loop(n)
BY DEF Listener, Loop

-----------------------------------------------------------------------------
(* One lemma per part of the invariant.                                     *)

\* Every step keeps the types.
LEMMA TypeStep ==
    ASSUME IInv, [Next]_vars
    PROVE  TypeOK' /\ Booting'
<1>t. /\ IInv /\ TypeOK /\ Booting
  BY DEF IInv
<1> USE DEF serviceVars, Fault
<1>1. CASE \/ \E t \in Threads, topic \in Topics : Create(t, topic)
           \/ UNCHANGED vars
  <2>1. CASE UNCHANGED vars
    BY <2>1, <1>t DEF vars, TypeOK, Booting
  <2>2. ASSUME NEW t \in Threads, NEW topic \in Topics, Create(t, topic) PROVE TypeOK' /\ Booting'
    <3>1. Goes(t, "idle", "read") /\ t # Main
      BY <2>2 DEF Create
    <3>2. pc' \in [Threads -> Places] /\ booted' \in 0..2 /\ Booting'
      BY <3>1, <1>t, Moves DEF Places
    <3> QED BY <2>2, <3>2, <1>t, Facts DEF Create, TypeOK, Places
  <2> QED BY <1>1, <2>1, <2>2
<1>2. ASSUME NEW t \in Threads, ReadTopics(t) PROVE TypeOK' /\ Booting'
  <2>1. Goes(t, "read", "set")
    BY <1>2 DEF ReadTopics
  <2>2. pc' \in [Threads -> Places] /\ booted' \in 0..2 /\ Booting'
    BY <2>1, <1>t, Moves DEF Places
  <2> QED BY <1>2, <2>2, <1>t, Facts DEF ReadTopics, TypeOK, Places
<1>3. ASSUME NEW t \in Threads, SetDesired(t) PROVE TypeOK' /\ Booting'
  <2>1. Goes(t, "set", IF topics[t] = {} THEN "end" ELSE "alive")
    BY <1>3 DEF SetDesired
  <2>2. pc' \in [Threads -> Places] /\ booted' \in 0..2 /\ Booting'
    BY <2>1, <1>t, Moves DEF Places
  <2>3. lost' \in Losses
    BY <1>3, <1>t, Facts DEF SetDesired, Losses
  <2> QED BY <1>3, <2>2, <2>3, <1>t, Facts DEF SetDesired, TypeOK, Places, Losses
<1>4. ASSUME NEW t \in Threads, CheckAlive(t) PROVE TypeOK' /\ Booting'
  <2>1. Goes(t, "alive", IF Alive(thread) THEN "subscribe" ELSE "start")
    BY <1>4 DEF CheckAlive
  <2>2. pc' \in [Threads -> Places] /\ booted' \in 0..2 /\ Booting'
    BY <2>1, <1>t, Moves DEF Places
  <2> QED BY <1>4, <2>2, <1>t, Facts DEF CheckAlive, TypeOK, Places
<1>5. ASSUME NEW t \in Threads, CheckAgain(t) PROVE TypeOK' /\ Booting'
  <2>1. Goes(t, "start", IF Alive(thread) THEN "end" ELSE "spawn")
    BY <1>5 DEF CheckAgain
  <2>2. pc' \in [Threads -> Places] /\ booted' \in 0..2 /\ Booting'
    BY <2>1, <1>t, Moves DEF Places
  <2> QED BY <1>5, <2>2, <1>t, Facts DEF CheckAgain, TypeOK, Places
<1>6. ASSUME NEW t \in Threads, Spawn(t) PROVE TypeOK' /\ Booting'
  <2>1. Goes(t, "spawn", "end")
    BY <1>6 DEF Spawn
  <2>2. pc' \in [Threads -> Places] /\ booted' \in 0..2 /\ Booting'
    BY <2>1, <1>t, Moves DEF Places
  <2>3. state' \in [Conns -> States] /\ thread' \in 0..MaxListeners
    BY <1>6, <1>t, Facts DEF Spawn, States
  <2> QED BY <1>6, <2>2, <2>3, <1>t, Facts DEF Spawn, TypeOK, Places, States
<1>7. ASSUME NEW t \in Threads, SubscribeOwn(t) PROVE TypeOK' /\ Booting'
  <2>1. Goes(t, "subscribe", IF conn = 0 THEN "end" ELSE "subscribing")
    BY <1>7 DEF SubscribeOwn
  <2>2. pc' \in [Threads -> Places] /\ booted' \in 0..2 /\ Booting'
    BY <2>1, <1>t, Moves DEF Places
  <2> QED BY <1>7, <2>2, <1>t, Facts DEF SubscribeOwn, TypeOK, Places
<1>8. ASSUME NEW t \in Threads, Subscribed(t) PROVE TypeOK' /\ Booting'
  <2>1. Goes(t, "subscribing", "end")
    BY <1>8 DEF Subscribed
  <2>2. pc' \in [Threads -> Places] /\ booted' \in 0..2 /\ Booting'
    BY <2>1, <1>t, Moves DEF Places
  <2> QED BY <1>8, <2>2, <1>t, Facts DEF Subscribed, TypeOK, Places
<1>9. ASSUME NEW a \in Actors, Ask(a) PROVE TypeOK' /\ Booting'
  BY <1>9, <1>t, Facts DEF Ask, TypeOK, Booting, States, Lines, Futures
<1>10. ASSUME NEW a \in Actors, Suback(a) PROVE TypeOK' /\ Booting'
  <2>1. future[a] \in Futures /\ future[a].s = "pending"
    BY <1>10, <1>t, Facts DEF Suback
  <2>2. future' \in [Actors -> Futures]
    BY <1>10, <2>1, <1>t, Facts DEF Suback, Futures
  <2>3. future[a].conn \in Conns /\ future[a].topic \in Topics
    BY <2>1, <1>t, Facts DEF IInv, Asked, NoFuture, Futures
  <2>4. heard' \in [Conns -> SUBSET Topics]
    BY <1>10, <2>3, <1>t, Facts DEF Suback
  <2>5. lost' \in Losses
    BY <1>10, <2>3, <1>t, Facts DEF Suback, FoundAgain, Losses
  <2> QED BY <1>10, <2>2, <2>4, <2>5, <1>t DEF Suback, TypeOK, Booting, Futures, Losses
<1>11. ASSUME NEW a \in Actors, Record(a) PROVE TypeOK' /\ Booting'
  <2>1. future[a] \in Futures /\ future[a].topic \in Topics
    BY <1>11, <1>t, Facts DEF Record, IInv, Asked, NoFuture
  <2> QED BY <1>11, <2>1, <1>t, Facts DEF Record, TypeOK, Booting, Futures
<1>12. ASSUME NEW a \in Actors, AskFails(a) PROVE TypeOK' /\ Booting'
  <2>1. lost' \in Losses
    BY <1>12, <1>t, Facts DEF AskFails, Losses
  <2>2. /\ todo' \in [Actors -> SUBSET Topics] /\ future' \in [Actors -> Futures]
        /\ state' \in [Conns -> States] /\ faults' \in 0..MaxFaults
    BY <1>12, <1>t, Facts DEF AskFails, States
  <2> QED BY <1>12, <2>1, <2>2, <1>t DEF AskFails, TypeOK, Booting, States, Futures, Losses
<1>13. ASSUME NEW n \in Conns, Build(n) PROVE TypeOK' /\ Booting'
  <2>1. lost' \in Losses
    BY <1>13, <1>t, Facts DEF Build, Losses
  <2>2. /\ line' \in [Conns -> Lines] /\ state' \in [Conns -> States] /\ conn' \in 0..MaxListeners
    BY <1>13, <1>t, Facts DEF Build, States, Lines
  <2> QED BY <1>13, <2>1, <2>2, <1>t DEF Build, TypeOK, Booting, States, Lines, Losses
<1>14. ASSUME NEW n \in Conns, Connect(n) PROVE TypeOK' /\ Booting'
  BY <1>14, <1>t, Facts DEF Connect, TypeOK, Booting, States, Lines, Futures
<1>15. ASSUME NEW n \in Conns, ConnectFails(n) PROVE TypeOK' /\ Booting'
  <2>1. line' \in [Conns -> Lines] /\ faults' \in 0..MaxFaults
    <3>1. CASE line[conn] = "fresh"
      <4>1. line' = [line EXCEPT ![conn] = "refused"] /\ faults < MaxFaults /\ faults' = faults + 1
        BY <3>1, <1>15 DEF ConnectFails
      <4>2. line \in [Conns -> Lines] /\ faults \in 0..MaxFaults /\ MaxFaults \in Nat
        BY <1>t, Facts
      <4>3. line' \in [Conns -> Lines]
        BY <4>1, <4>2 DEF Lines
      <4>4. faults' \in 0..MaxFaults
        BY <4>1, <4>2
      <4> QED BY <4>3, <4>4
    <3>2. CASE line[conn] # "fresh"
      BY <3>2, <1>15, <1>t, Facts DEF ConnectFails
    <3> QED BY <3>1, <3>2
  <2>2. state' \in [Conns -> States]
    BY <1>15, <1>t, Facts DEF ConnectFails, States
  <2>3. lost' \in Losses
    BY <1>15, <1>t, Facts DEF ConnectFails, Losses
  <2> QED BY <1>15, <2>1, <2>2, <2>3, <1>t, Facts
      DEF ConnectFails, TypeOK, Booting, States, Lines, Futures, Losses
<1>16. ASSUME NEW n \in Conns, SubscribeDesired(n) PROVE TypeOK' /\ Booting'
  BY <1>16, <1>t, Facts DEF SubscribeDesired, TypeOK, Booting, States, Lines, Futures
<1>17. ASSUME NEW n \in Conns, Listens(n) PROVE TypeOK' /\ Booting'
  BY <1>17, <1>t, Facts DEF Listens, TypeOK, Booting, States, Lines, Futures
<1>18. ASSUME NEW n \in Conns, Interrupt(n) PROVE TypeOK' /\ Booting'
  BY <1>18, <1>t, Facts DEF Interrupt, TypeOK, Booting, States, Lines, Futures
<1>19. ASSUME NEW n \in Conns, Resume(n) PROVE TypeOK' /\ Booting'
  <2>1. lost' \in Losses /\ heard' \in [Conns -> SUBSET Topics]
    <3>1. lost \in Losses /\ heard \in [Conns -> SUBSET Topics]
      BY <1>t, Facts
    <3>2. CASE UNCHANGED <<heard, lost>>
      BY <3>1, <3>2
    <3>3. CASE /\ heard' = [heard EXCEPT ![n] = {}]
               /\ lost' = IF n = conn THEN [lost EXCEPT !.session = @ \cup heard[n]] ELSE lost
      BY <3>1, <3>3 DEF Losses
    <3> QED BY <3>2, <3>3, <1>19 DEF Resume
  <2>2. todo' \in [Actors -> SUBSET Topics]
    BY <1>19, <1>t, Facts DEF Resume
  <2> QED BY <1>19, <2>1, <2>2, <1>t, Facts DEF Resume, TypeOK, Booting, States, Lines, Futures, Losses
<1> QED BY <1>1, <1>2, <1>3, <1>4, <1>5, <1>6, <1>7, <1>8, <1>9, <1>10, <1>11, <1>12, <1>13,
     <1>14, <1>15, <1>16, <1>17, <1>18, <1>19 DEF Next, SyncStep, ListenerStep, SubscribeStep

LEMMA ListenersStep ==
    ASSUME IInv, [Next]_vars
    PROVE  Listeners'
<1>t. /\ IInv /\ TypeOK /\ Booting /\ Listeners /\ Asked /\ OnlyWithin
  BY DEF IInv
<1> USE DEF serviceVars, Fault
<1>1. CASE \/ \E t \in Threads, topic \in Topics : Create(t, topic)
           \/ UNCHANGED vars
           \/ \E a \in Actors : Ask(a) \/ Record(a)
  <2>1. UNCHANGED <<state, thread, conn, line, heard>>
    BY <1>1 DEF vars, Create, Ask, Record
  <2>2. \A s \in Threads : pc'[s] \in {"subscribe", "subscribing"} => pc[s] \in {"subscribe", "subscribing"}
    BY <1>1, <1>t, Facts DEF vars, Create, Ask, Record, Goes
  <2> QED BY <2>1, <2>2, <1>t DEF Listeners, Started
<1>2. ASSUME NEW t \in Threads, ReadTopics(t) PROVE Listeners'
  <2>1. Goes(t, "read", "set")
    BY <1>2 DEF ReadTopics
  <2>2. \A s \in Threads : pc'[s] \in {"subscribe", "subscribing"} => thread # 0
    BY <2>1, <1>t, Moves DEF Places, Listeners, Alive
  <2> QED BY <1>2, <2>2, <1>t DEF ReadTopics, Listeners, Started
<1>3. ASSUME NEW t \in Threads, SetDesired(t) PROVE Listeners'
  <2>1. Goes(t, "set", IF topics[t] = {} THEN "end" ELSE "alive")
    BY <1>3 DEF SetDesired
  <2>2. \A s \in Threads : pc'[s] \in {"subscribe", "subscribing"} => thread # 0
    BY <2>1, <1>t, Moves DEF Places, Listeners, Alive
  <2> QED BY <1>3, <2>2, <1>t DEF SetDesired, Listeners, Started
<1>4. ASSUME NEW t \in Threads, CheckAlive(t) PROVE Listeners'
  <2>1. Goes(t, "alive", IF Alive(thread) THEN "subscribe" ELSE "start")
    BY <1>4 DEF CheckAlive
  <2>2. \A s \in Threads : pc'[s] \in {"subscribe", "subscribing"} => thread # 0
    BY <2>1, <1>t, Moves DEF Places, Listeners, Alive
  <2> QED BY <1>4, <2>2, <1>t DEF CheckAlive, Listeners, Started
<1>5. ASSUME NEW t \in Threads, CheckAgain(t) PROVE Listeners'
  <2>1. Goes(t, "start", IF Alive(thread) THEN "end" ELSE "spawn")
    BY <1>5 DEF CheckAgain
  <2>2. \A s \in Threads : pc'[s] \in {"subscribe", "subscribing"} => thread # 0
    BY <2>1, <1>t, Moves DEF Places, Listeners, Alive
  <2> QED BY <1>5, <2>2, <1>t DEF CheckAgain, Listeners, Started
<1>6. ASSUME NEW t \in Threads, Spawn(t) PROVE Listeners'
  <2>1. Goes(t, "spawn", "end")
    BY <1>6 DEF Spawn
  <2>2. PICK n \in Conns : /\ state[n] = "unborn" /\ \A m \in 1..n - 1 : state[m] # "unborn"
                           /\ thread' = n /\ state' = [state EXCEPT ![n] = "begun"]
    BY <1>6 DEF Spawn
  <2>3. /\ state'[n] = "begun" /\ \A m \in Conns : m # n => state'[m] = state[m]
        /\ n \in Nat /\ n # 0 /\ thread \in Nat
    <3>1. Conns = 1..MaxListeners /\ MaxListeners \in Nat /\ thread \in 0..MaxListeners
      BY <1>t, Facts
    <3>2. n \in Nat /\ n # 0 /\ thread \in Nat
      BY <3>1
    <3>3. state \in [Conns -> States]
      BY <1>t, Facts
    <3> QED BY <2>2, <3>2, <3>3
  <2>4. thread + 1 = n
    <3>1. n > thread
      BY <2>2, <1>t DEF Listeners
    <3>2. CASE n = 1
      BY <3>1, <3>2, <1>t, Facts
    <3>3. CASE n # 1
      <4>1. n - 1 \in Conns /\ n - 1 \in 1..n - 1
        BY <2>3, <3>3, Facts, <1>t
      <4>2. ~(n - 1 > thread)
        BY <4>1, <2>2, <1>t DEF Listeners
      <4> QED BY <3>1, <4>2, <2>3, <1>t, Facts
    <3> QED BY <3>2, <3>3
  <2>5. \A m \in Conns : state'[m] = "unborn" <=> m > thread'
    <3> TAKE m \in Conns
    <3>1. m \in Nat /\ thread \in Nat
      BY <1>t, Facts
    <3>2. CASE m = n
      <4>1. ~(n > n)
        BY <2>3
      <4>2. state'[n] # "unborn" /\ thread' = n
        BY <2>2, <2>3
      <4> QED BY <4>1, <4>2, <3>2
    <3>3. CASE m # n
      <4>1. m > thread <=> m > n
        BY <3>1, <3>3, <2>3, <2>4
      <4>2. state[m] = "unborn" <=> m > thread
        BY <1>t DEF Listeners
      <4>3. state'[m] = state[m] /\ thread' = n
        BY <3>3, <2>2, <2>3
      <4> QED BY <4>1, <4>2, <4>3
    <3> QED BY <3>2, <3>3
  <2>6. \A m \in Conns : Started(m)' <=> Started(m)
    BY <2>2, <2>3 DEF Started
  <2>8. conn # 0 => conn \in Conns
    <3>1. Conns = 1..MaxListeners /\ MaxListeners \in Nat /\ conn \in 0..MaxListeners
      BY <1>t, Facts
    <3> QED BY <3>1
  <2>9. \A s \in Threads : pc'[s] \in {"subscribe", "subscribing"} => thread' # 0
    <3>1. thread' = n
      BY <2>2
    <3>2. n # 0
      BY <2>3
    <3> QED BY <3>1, <3>2
  <2>10. conn' # 0 => Started(conn)'
    BY <1>6, <2>6, <2>8, <1>t DEF Spawn, Listeners
  <2>11. UNCHANGED <<conn, line, heard>> /\ thread' # 0
    BY <1>6, <2>2, <2>3 DEF Spawn
  <2>12. /\ \A m \in Conns : Started(m)' => conn' # 0
         /\ \A m \in Conns : line'[m] # "none" \/ heard'[m] # {} => Started(m)'
    BY <2>6, <2>11, <1>t DEF Listeners
  <2> QED BY <2>5, <2>9, <2>10, <2>12 DEF Listeners
<1>7. ASSUME NEW t \in Threads, SubscribeOwn(t) PROVE Listeners'
  <2>1. Goes(t, "subscribe", IF conn = 0 THEN "end" ELSE "subscribing")
    BY <1>7 DEF SubscribeOwn
  <2>2. \A s \in Threads : pc'[s] \in {"subscribe", "subscribing"} => thread # 0
    BY <2>1, <1>t, Moves DEF Places, Listeners, Alive
  <2> QED BY <1>7, <2>2, <1>t DEF SubscribeOwn, Listeners, Started
<1>8. ASSUME NEW t \in Threads, Subscribed(t) PROVE Listeners'
  <2>1. Goes(t, "subscribing", "end")
    BY <1>8 DEF Subscribed
  <2>2. \A s \in Threads : pc'[s] \in {"subscribe", "subscribing"} => thread # 0
    BY <2>1, <1>t, Moves DEF Places, Listeners, Alive
  <2> QED BY <1>8, <2>2, <1>t DEF Subscribed, Listeners, Started
<1>9. ASSUME NEW a \in Actors, Suback(a) PROVE Listeners'
  BY <1>9, <1>t, Facts DEF Suback, Listeners, Started
<1>10. ASSUME NEW a \in Actors, AskFails(a) PROVE Listeners'
  <2>1. /\ UNCHANGED <<thread, conn, line, heard, pc>>
        /\ state' = [n \in Conns |-> IF a = Listener(n) THEN "dead" ELSE state[n]]
    BY <1>10 DEF AskFails
  <2>2. ASSUME NEW n \in Conns
        PROVE  (state'[n] = "unborn" <=> state[n] = "unborn") /\ (Started(n)' <=> Started(n))
    <3>1. CASE a = Listener(n)
      <4>1. future[a] # NoFuture
        BY <1>10 DEF AskFails, NoFuture
      <4>2. state[n] = "subscribing" /\ state'[n] = "dead"
        BY <4>1, <3>1, <2>1, <1>t, Facts DEF Asked, OnlyWithin
      <4> QED BY <4>2 DEF Started
    <3>2. CASE a # Listener(n)
      BY <3>2, <2>1 DEF Started
    <3> QED BY <3>1, <3>2
  <2>3. conn # 0 => conn \in Conns
    <3>1. Conns = 1..MaxListeners /\ MaxListeners \in Nat /\ conn \in 0..MaxListeners
      BY <1>t, Facts
    <3> QED BY <3>1
  <2>4. conn' # 0 => Started(conn)'
    BY <2>1, <2>2, <2>3, <1>t DEF Listeners
  <2> QED BY <2>1, <2>2, <2>4, <1>t DEF Listeners
<1>11. ASSUME NEW n \in Conns, Build(n) PROVE Listeners'
  BY <1>11, <1>t, Facts DEF Build, Listeners, Started
<1>12. ASSUME NEW n \in Conns, Connect(n) PROVE Listeners'
  BY <1>12, <1>t, Facts DEF Connect, Listeners, Started
<1>13. ASSUME NEW n \in Conns, ConnectFails(n) PROVE Listeners'
  BY <1>13, <1>t, Facts DEF ConnectFails, Listeners, Started
<1>14. ASSUME NEW n \in Conns, SubscribeDesired(n) PROVE Listeners'
  BY <1>14, <1>t, Facts DEF SubscribeDesired, Listeners, Started
<1>15. ASSUME NEW n \in Conns, Listens(n) PROVE Listeners'
  BY <1>15, <1>t, Facts DEF Listens, Listeners, Started
<1>16. ASSUME NEW n \in Conns, Interrupt(n) PROVE Listeners'
  BY <1>16, <1>t, Facts DEF Interrupt, Listeners, Started
<1>17. ASSUME NEW n \in Conns, Resume(n) PROVE Listeners'
  <2>1. /\ UNCHANGED <<state, thread, conn, pc>> /\ line[n] = "down"
        /\ \A m \in Conns : m # n => line'[m] = line[m]
        /\ \A m \in Conns : heard'[m] \in {heard[m], {}}
    BY <1>17, <1>t, Facts DEF Resume
  <2>2. Started(n)
    BY <2>1, <1>t DEF Listeners
  <2> QED BY <2>1, <2>2, <1>t DEF Listeners, Started
<1> QED BY <1>1, <1>2, <1>3, <1>4, <1>5, <1>6, <1>7, <1>8, <1>9, <1>10, <1>11, <1>12, <1>13,
     <1>14, <1>15, <1>16, <1>17 DEF Next, SyncStep, ListenerStep, SubscribeStep

LEMMA AskedStep ==
    ASSUME IInv, [Next]_vars
    PROVE  Asked'
<1>t. /\ IInv /\ TypeOK /\ Booting /\ Listeners /\ Asked /\ OnlyWithin
  BY DEF IInv
<1> USE DEF serviceVars, Fault
<1>1. CASE \/ \E t \in Threads, topic \in Topics : Create(t, topic)
           \/ UNCHANGED vars
           \/ \E t \in Threads : ReadTopics(t) \/ SetDesired(t) \/ CheckAlive(t) \/ CheckAgain(t) \/ Subscribed(t)
           \/ \E n \in Conns : Interrupt(n)
  BY <1>1, <1>t DEF vars, Asked, Started, Create, ReadTopics, SetDesired, CheckAlive,
       CheckAgain, Subscribed, Interrupt
<1>2. ASSUME NEW t \in Threads, Spawn(t) PROVE Asked'
  BY <1>2, <1>t, Facts DEF Spawn, Asked, Started, Listeners, OnlyWithin, Goes
<1>3. ASSUME NEW t \in Threads, SubscribeOwn(t) PROVE Asked'
  BY <1>3, <1>t, Facts DEF SubscribeOwn, Asked, Started, Listeners, OnlyWithin, Goes
<1>4. ASSUME NEW a \in Actors, Ask(a) PROVE Asked'
  BY <1>4, <1>t, Facts DEF Ask, Asked, Started, Listeners, OnlyWithin, Goes
<1>5. ASSUME NEW a \in Actors, Suback(a) PROVE Asked'
  <2>1. future[a] \in Futures /\ future[a] # NoFuture
    BY <1>5, <1>t, Facts DEF Suback, NoFuture
  <2>2. /\ UNCHANGED <<todo, conn, state>>
        /\ future'[a].conn = future[a].conn /\ future'[a].topic = future[a].topic /\ future'[a].s = "done"
        /\ \A b \in Actors : b # a => future'[b] = future[b]
    BY <1>5, <2>1, <1>t, Facts DEF Suback, Futures
  <2> QED BY <2>1, <2>2, <1>t DEF Asked, Started
<1>6. ASSUME NEW a \in Actors, Record(a) PROVE Asked'
  BY <1>6, <1>t, Facts DEF Record, Asked, Started, Listeners, OnlyWithin, Goes
<1>7. ASSUME NEW a \in Actors, AskFails(a) PROVE Asked'
  <2>1. /\ UNCHANGED conn /\ future'[a] = NoFuture /\ todo'[a] = {}
        /\ \A b \in Actors : b # a => future'[b] = future[b] /\ todo'[b] = todo[b]
        /\ \A n \in Conns : state'[n] \in {state[n], "dead"}
    BY <1>7, <1>t, Facts DEF AskFails
  <2>2. \A n \in Conns : Started(n) => Started(n)'
    BY <2>1 DEF Started
  <2>3. ASSUME NEW b \in Actors, future'[b] # NoFuture
        PROVE  b # a /\ future[b] # NoFuture /\ future[b].conn \in Conns
    BY <2>1, <2>3, <1>t, Facts DEF Asked, Futures
  <2> QED BY <2>1, <2>2, <2>3, <1>t DEF Asked
<1>8. ASSUME NEW n \in Conns, Build(n) PROVE Asked'
  BY <1>8, <1>t, Facts DEF Build, Asked, Started, Listeners, OnlyWithin, Goes
<1>9. ASSUME NEW n \in Conns, Connect(n) PROVE Asked'
  BY <1>9, <1>t, Facts DEF Connect, Asked, Started, Listeners, OnlyWithin, Goes
<1>10. ASSUME NEW n \in Conns, ConnectFails(n) PROVE Asked'
  BY <1>10, <1>t, Facts DEF ConnectFails, Asked, Started, Listeners, OnlyWithin, Goes
<1>11. ASSUME NEW n \in Conns, SubscribeDesired(n) PROVE Asked'
  <2>1. /\ UNCHANGED <<conn, future>> /\ conn # 0
        /\ todo' = [todo EXCEPT ![Listener(n)] = desired \ recorded]
        /\ state' = [state EXCEPT ![n] = "subscribing"] /\ state[n] = "connected"
    BY <1>11, <1>t DEF SubscribeDesired, Listeners, Started
  <2>2. todo[Listener(n)] = {} /\ future[Listener(n)] = NoFuture
    BY <2>1, <1>t, Facts DEF OnlyWithin, Asked
  <2>3. \A m \in Conns : Started(m) => Started(m)'
    BY <2>1, <1>t, Facts DEF Started
  <2>4. ASSUME NEW b \in Actors, future[b] # NoFuture
        PROVE  todo'[b] = todo[b] /\ future[b].conn \in Conns
    BY <2>1, <2>2, <2>4, <1>t, Facts DEF Asked, Futures
  <2> QED BY <2>1, <2>3, <2>4, <1>t DEF Asked
<1>12. ASSUME NEW n \in Conns, Listens(n) PROVE Asked'
  BY <1>12, <1>t, Facts DEF Listens, Asked, Started, Listeners, OnlyWithin, Goes
<1>13. ASSUME NEW n \in Conns, Resume(n) PROVE Asked'
  <2>1. /\ UNCHANGED <<conn, future, state>> /\ conn # 0
        /\ todo' = [todo EXCEPT ![Loop(n)] = desired \ recorded]
    BY <1>13, <1>t DEF Resume, Listeners
  <2>2. todo[Loop(n)] = {} /\ future[Loop(n)] = NoFuture
    BY <1>13, <1>t, Facts DEF Resume, OnlyWithin, Asked
  <2>4. ASSUME NEW b \in Actors, future[b] # NoFuture
        PROVE  todo'[b] = todo[b]
    BY <2>1, <2>2, <2>4, <1>t, Facts
  <2> QED BY <2>1, <2>4, <1>t DEF Asked, Started
<1> QED BY <1>1, <1>2, <1>3, <1>4, <1>5, <1>6, <1>7, <1>8, <1>9, <1>10, <1>11, <1>12, <1>13
     DEF Next, SyncStep, ListenerStep, SubscribeStep

LEMMA OnlyWithinStep ==
    ASSUME IInv, [Next]_vars
    PROVE  OnlyWithin'
<1>t. /\ IInv /\ TypeOK /\ Booting /\ Listeners /\ Asked /\ OnlyWithin
  BY DEF IInv
<1> USE DEF serviceVars, Fault
<1>1. CASE \/ \E t \in Threads, topic \in Topics : Create(t, topic)
           \/ UNCHANGED vars
           \/ \E a \in Actors : Ask(a) \/ Suback(a)
  BY <1>1, <1>t, Facts DEF vars, OnlyWithin, Goes, Create, Ask, Suback
<1>2. ASSUME NEW t \in Threads, ReadTopics(t) PROVE OnlyWithin'
  BY <1>2, <1>t, Facts DEF ReadTopics, OnlyWithin, Goes, Listeners, Busy, Done, Asked
<1>3. ASSUME NEW t \in Threads, SetDesired(t) PROVE OnlyWithin'
  BY <1>3, <1>t, Facts DEF SetDesired, OnlyWithin, Goes, Listeners, Busy, Done, Asked
<1>4. ASSUME NEW t \in Threads, CheckAlive(t) PROVE OnlyWithin'
  BY <1>4, <1>t, Facts DEF CheckAlive, OnlyWithin, Goes, Listeners, Busy, Done, Asked
<1>5. ASSUME NEW t \in Threads, CheckAgain(t) PROVE OnlyWithin'
  BY <1>5, <1>t, Facts DEF CheckAgain, OnlyWithin, Goes, Listeners, Busy, Done, Asked
<1>6. ASSUME NEW t \in Threads, Spawn(t) PROVE OnlyWithin'
  BY <1>6, <1>t, Facts DEF Spawn, OnlyWithin, Goes, Listeners, Busy, Done, Asked
<1>7. ASSUME NEW t \in Threads, SubscribeOwn(t) PROVE OnlyWithin'
  <2>1. Goes(t, "subscribe", IF conn = 0 THEN "end" ELSE "subscribing")
    BY <1>7 DEF SubscribeOwn
  <2>2. /\ conn # 0 => pc'[t] = "subscribing"
        /\ \A s \in Threads : s # t => pc'[s] = pc[s]
    BY <2>1, <1>t, Moves DEF Places
  <2>3. /\ UNCHANGED <<state, line>> /\ (conn = 0 => todo'[<<"thread", t>>] = {})
        /\ \A b \in Actors : b # <<"thread", t>> => todo'[b] = todo[b]
    BY <1>7, <1>t, Facts DEF SubscribeOwn
  <2> QED BY <2>2, <2>3, <1>t, Facts, ActorsDiffer DEF OnlyWithin
<1>8. ASSUME NEW t \in Threads, Subscribed(t) PROVE OnlyWithin'
  BY <1>8, <1>t, Facts DEF Subscribed, OnlyWithin, Goes, Listeners, Busy, Done, Asked
<1>9. ASSUME NEW a \in Actors, Record(a) PROVE OnlyWithin'
  BY <1>9, <1>t, Facts DEF Record, OnlyWithin, Goes, Listeners, Busy, Done, Asked
<1>10. ASSUME NEW a \in Actors, AskFails(a) PROVE OnlyWithin'
  BY <1>10, <1>t, Facts DEF AskFails, OnlyWithin, Goes, Listeners, Busy, Done, Asked
<1>11. ASSUME NEW n \in Conns, Build(n) PROVE OnlyWithin'
  <2>2. /\ UNCHANGED <<pc, todo>> /\ state[n] = "begun" /\ line'[n] # "up" /\ state'[n] = "built"
        /\ \A m \in Conns : m # n => line'[m] = line[m] /\ state'[m] = state[m]
    BY <1>11, <1>t, Facts DEF Build
  <2>3. line[n] = "none" /\ todo[Listener(n)] = {}
    BY <2>2, <1>t DEF Listeners, Started, OnlyWithin
  <2> QED BY <2>2, <2>3, <1>t DEF OnlyWithin
<1>12. ASSUME NEW n \in Conns, Connect(n) PROVE OnlyWithin'
  BY <1>12, <1>t, Facts DEF Connect, OnlyWithin, Goes, Listeners, Busy, Done, Asked
<1>13. ASSUME NEW n \in Conns, ConnectFails(n) PROVE OnlyWithin'
  BY <1>13, <1>t, Facts DEF ConnectFails, OnlyWithin, Goes, Listeners, Busy, Done, Asked
<1>14. ASSUME NEW n \in Conns, SubscribeDesired(n) PROVE OnlyWithin'
  <2>1. /\ UNCHANGED <<pc, line>> /\ state'[n] = "subscribing"
        /\ \A m \in Conns : m # n => state'[m] = state[m]
        /\ \A b \in Actors : b # Listener(n) => todo'[b] = todo[b]
    BY <1>14, <1>t, Facts DEF SubscribeDesired
  <2> QED BY <2>1, <1>t, Facts, ActorsDiffer DEF OnlyWithin
<1>15. ASSUME NEW n \in Conns, Listens(n) PROVE OnlyWithin'
  BY <1>15, <1>t, Facts DEF Listens, OnlyWithin, Goes, Listeners, Busy, Done, Asked
<1>16. ASSUME NEW n \in Conns, Interrupt(n) PROVE OnlyWithin'
  BY <1>16, <1>t, Facts DEF Interrupt, OnlyWithin, Goes, Listeners, Busy, Done, Asked
<1>17. ASSUME NEW n \in Conns, Resume(n) PROVE OnlyWithin'
  <2>1. /\ UNCHANGED <<pc, state>> /\ line'[n] = "up"
        /\ \A m \in Conns : m # n => line'[m] = line[m]
        /\ \A b \in Actors : b # Loop(n) => todo'[b] = todo[b]
    BY <1>17, <1>t, Facts DEF Resume
  <2> QED BY <2>1, <1>t, Facts, ActorsDiffer DEF OnlyWithin
<1> QED BY <1>1, <1>2, <1>3, <1>4, <1>5, <1>6, <1>7, <1>8, <1>9, <1>10, <1>11, <1>12, <1>13,
     <1>14, <1>15, <1>16, <1>17 DEF Next, SyncStep, ListenerStep, SubscribeStep

\* What is known of a topic stays known: if it is not heard any more, it is recorded why.
LEMMA KnownStep ==
    ASSUME IInv, [Next]_vars, NEW topic \in Topics, Known(topic)
    PROVE  Known(topic)'
<1>t. /\ TypeOK /\ Listeners /\ Asked
  BY DEF IInv
<1> USE DEF serviceVars, Fault
<1>c. Conns = 1..MaxListeners /\ MaxListeners \in Nat /\ (conn # 0 => conn \in Conns)
  BY <1>t, Facts
<1>l. /\ lost \in Losses
      /\ lost.session \subseteq Topics /\ lost.replaced \subseteq Topics /\ heard \in [Conns -> SUBSET Topics]
  BY <1>t, Facts DEF Losses
<1>1. CASE \/ \E t \in Threads, x \in Topics : Create(t, x)
           \/ UNCHANGED vars
           \/ \E t \in Threads : \/ ReadTopics(t) \/ CheckAlive(t) \/ CheckAgain(t) \/ Spawn(t)
                                 \/ SubscribeOwn(t) \/ Subscribed(t)
           \/ \E a \in Actors : Ask(a) \/ Record(a)
           \/ \E n \in Conns : Connect(n) \/ SubscribeDesired(n) \/ Listens(n) \/ Interrupt(n)
  <2>1. UNCHANGED <<conn, heard, lost>>
    BY <1>1 DEF vars, Create, ReadTopics, CheckAlive, CheckAgain, Spawn, SubscribeOwn, Subscribed,
         Ask, Record, Connect, SubscribeDesired, Listens, Interrupt
  <2> QED BY <2>1 DEF Known, Heard
<1>2. CASE \/ \E t \in Threads : SetDesired(t)
           \/ \E a \in Actors : AskFails(a)
           \/ \E n \in Conns : ConnectFails(n)
  <2>1. UNCHANGED <<conn, heard, lost.session, lost.replaced>>
    BY <1>2, <1>l DEF SetDesired, AskFails, ConnectFails, Losses
  <2> QED BY <2>1 DEF Known, Heard
<1>3. ASSUME NEW a \in Actors, Suback(a) PROVE Known(topic)'
  <2> DEFINE n == future[a].conn
  <2>1. /\ UNCHANGED conn /\ heard' = [heard EXCEPT ![n] = @ \cup {future[a].topic}]
        /\ lost' = FoundAgain(future[a].topic, n)
    BY <1>3 DEF Suback
  <2>2. Heard(topic) => Heard(topic)'
    BY <2>1, <1>c, <1>l DEF Heard
  <2>3. CASE n = conn
    <3>1. CASE topic = future[a].topic
      <4>1. future[a] # NoFuture
        BY <1>3 DEF Suback, NoFuture
      <4>2. conn # 0
        BY <4>1, <2>3, <1>t DEF Asked
      <4> QED BY <3>1, <4>2, <2>1, <2>3, <1>c, <1>l DEF Known, Heard
    <3>2. CASE topic # future[a].topic
      <4>1. /\ lost'.session = lost.session \ {future[a].topic}
            /\ lost'.replaced = lost.replaced \ {future[a].topic}
        BY <2>1, <2>3, <1>l DEF FoundAgain, Losses
      <4> QED BY <4>1, <3>2, <2>2 DEF Known
    <3> QED BY <3>1, <3>2
  <2>4. CASE n # conn
    <3>1. lost'.session = lost.session /\ lost.replaced \subseteq lost'.replaced
      BY <2>1, <2>4, <1>l DEF FoundAgain, Losses
    <3> QED BY <3>1, <2>2 DEF Known
  <2> QED BY <2>3, <2>4
<1>4. ASSUME NEW n \in Conns, Build(n) PROVE Known(topic)'
  <2>1. lost'.session = lost.session
        /\ lost'.replaced = lost.replaced \cup {x \in Topics : Heard(x)}
    BY <1>4, <1>l DEF Build, Losses
  <2> QED BY <2>1 DEF Known
<1>5. ASSUME NEW n \in Conns, Resume(n) PROVE Known(topic)'
  <2>1. CASE UNCHANGED <<heard, lost>>
    BY <2>1, <1>5 DEF Resume, Known, Heard
  <2>2. CASE /\ heard' = [heard EXCEPT ![n] = {}]
             /\ lost' = IF n = conn THEN [lost EXCEPT !.session = @ \cup heard[n]] ELSE lost
    <3>1. conn' = conn
      BY <1>5 DEF Resume
    <3>2. CASE n = conn
      <4>1. lost'.session = lost.session \cup heard[conn] /\ lost'.replaced = lost.replaced
        BY <2>2, <3>2, <1>l DEF Losses
      <4> QED BY <4>1 DEF Known, Heard
    <3>3. CASE n # conn
      <4>1. lost' = lost /\ (conn # 0 => heard'[conn] = heard[conn])
        BY <2>2, <3>3, <1>c, <1>l
      <4> QED BY <4>1, <3>1 DEF Known, Heard
    <3> QED BY <3>2, <3>3
  <2> QED BY <2>1, <2>2, <1>5 DEF Resume
<1> QED BY <1>1, <1>2, <1>3, <1>4, <1>5 DEF Next, SyncStep, ListenerStep, SubscribeStep

\* A subscription that the broker confirms is known, on whichever connection it is.
LEMMA SubackKnown ==
    ASSUME IInv, NEW a \in Actors, Suback(a), NEW x, x = future[a].topic
    PROVE  Known(x)'
<1>t. /\ TypeOK /\ Listeners /\ Asked
  BY DEF IInv
<1>1. PICK n \in Conns : n = future[a].conn /\ n # 0
  BY <1>t, Facts DEF Suback, Asked, NoFuture, Futures
<1>2. /\ UNCHANGED conn /\ heard' = [heard EXCEPT ![n] = @ \cup {x}] /\ lost' = FoundAgain(x, n)
  BY <1>1, <1>t DEF Suback, serviceVars
<1>3. heard \in [Conns -> SUBSET Topics] /\ lost \in Losses
  BY <1>t, Facts
<1>4. x \in heard'[n]
  BY <1>1, <1>2, <1>3
<1>5. CASE n = conn
  BY <1>1, <1>2, <1>4, <1>5 DEF Known, Heard
<1>6. CASE n # conn
  <2>1. CASE Heard(x)
    <3>1. heard'[conn] = heard[conn]
      BY <1>1, <1>2, <1>3, <1>6, <1>t, Facts, <2>1 DEF Heard
    <3> QED BY <2>1, <3>1, <1>2 DEF Known, Heard
  <2>2. CASE ~Heard(x)
    <3>1. lost'.replaced = lost.replaced \cup {x}
      BY <2>2, <1>2, <1>3, <1>6 DEF FoundAgain, Losses
    <3> QED BY <3>1 DEF Known
  <2> QED BY <2>1, <2>2
<1> QED BY <1>5, <1>6

\* Only what is known is recorded, or done and about to be.
LEMMA RecordStep ==
    ASSUME IInv, [Next]_vars
    PROVE  RecordIsTrue' /\ DoneIsTrue'
<1>t. /\ TypeOK /\ Listeners /\ Asked
      /\ \A x \in recorded : Known(x)
      /\ \A a \in Actors : future[a].s = "done" => Known(future[a].topic)
  BY DEF IInv, RecordIsTrue, DoneIsTrue, Known
<1> USE DEF serviceVars, Fault
<1>f. /\ future \in [Actors -> Futures] /\ recorded \subseteq Topics
      /\ \A a \in Actors : future[a].s \in {"pending", "done"} => future[a].topic \in Topics
  BY <1>t, Facts DEF Asked, NoFuture
<1>1. ASSUME NEW x \in recorded' PROVE x \in Topics /\ Known(x)
  <2>1. CASE \E a \in Actors : Record(a)
    BY <2>1, <1>1, <1>t, <1>f DEF Record
  <2>2. CASE ~\E a \in Actors : Record(a)
    <3>1. recorded' = recorded
      BY <2>2 DEF Next, SyncStep, ListenerStep, SubscribeStep, vars, Create, ReadTopics, SetDesired,
           CheckAlive, CheckAgain, Spawn, SubscribeOwn, Subscribed, Ask, Suback, AskFails, Build,
           Connect, ConnectFails, SubscribeDesired, Listens, Interrupt, Resume
    <3> QED BY <3>1, <1>1, <1>t, <1>f
  <2> QED BY <2>1, <2>2
<1>2. \A x \in recorded' : Known(x)'
  BY <1>1, KnownStep
<1>3. ASSUME NEW b \in Actors, NEW x, future'[b].s = "done", x = future'[b].topic
      PROVE  Known(x)'
  <2>1. CASE Suback(b)
    <3>1. x = future[b].topic
      BY <2>1, <1>3, <1>f DEF Suback, Futures
    <3> QED BY <2>1, <3>1, <1>t, SubackKnown DEF IInv
  <2>2. CASE ~Suback(b)
    <3>1. future'[b] = future[b]
      <4>1. CASE \E a \in Actors : Suback(a)
        BY <4>1, <2>2, <1>f DEF Suback
      <4>2. CASE \E a \in Actors : Ask(a)
        BY <4>2, <1>3, <1>f DEF Ask, Futures
      <4>3. CASE \E a \in Actors : Record(a)
        BY <4>3, <1>3, <1>f DEF Record, NoFuture
      <4>4. CASE \E a \in Actors : AskFails(a)
        BY <4>4, <1>3, <1>f DEF AskFails, NoFuture
      <4>5. CASE ~\E a \in Actors : Suback(a) \/ Ask(a) \/ Record(a) \/ AskFails(a)
        BY <4>5 DEF Next, SyncStep, ListenerStep, SubscribeStep, vars, Create, ReadTopics, SetDesired,
             CheckAlive, CheckAgain, Spawn, SubscribeOwn, Subscribed, Build,
             Connect, ConnectFails, SubscribeDesired, Listens, Interrupt, Resume
      <4> QED BY <4>1, <4>2, <4>3, <4>4, <4>5
    <3>2. Known(x) /\ x \in Topics
      BY <3>1, <1>3, <1>t, <1>f
    <3> QED BY <3>1, <3>2, KnownStep
  <2> QED BY <2>1, <2>2
<1>5. RecordIsTrue'
  BY <1>2 DEF RecordIsTrue, Known
<1>6. DoneIsTrue'
  BY <1>3 DEF DoneIsTrue, Known, Heard
<1> QED BY <1>5, <1>6

\* A wanted topic keeps somebody who will subscribe to it.
LEMMA KeptStep ==
    ASSUME IInv, [Next]_vars
    PROVE  NothingForgotten'
<1>t. /\ IInv /\ TypeOK /\ Booting /\ Listeners /\ Asked /\ OnlyWithin
      /\ \A x \in recorded : Known(x)
      /\ \A a \in Actors : future[a].s = "done" => Known(future[a].topic)
      /\ \A x \in desired : Kept(x)
  BY DEF IInv, RecordIsTrue, DoneIsTrue, NothingForgotten, Kept, Known
<1> USE DEF serviceVars, Fault
<1> SUFFICES ASSUME NEW topic \in desired' PROVE Kept(topic)'
  BY DEF NothingForgotten, Kept, Known
<1>x. topic \in Topics
  BY TypeStep, Facts, <1>t DEF TypeOK
<1>l. lost \in Losses /\ lost.failed \subseteq Topics
  BY <1>t, Facts DEF Losses
<1>s. ASSUME NEW t \in Threads, SetDesired(t) PROVE Kept(topic)'
  <2>1. Goes(t, "set", IF topics[t] = {} THEN "end" ELSE "alive") /\ topics' = topics /\ topic \in topics[t]
    BY <1>s DEF SetDesired
  <2>2. pc'[t] = "alive"
    BY <2>1, <1>t, Moves DEF Places
  <2> QED BY <2>1, <2>2 DEF Kept, UnderWay
<1>d. CASE ~\E t \in Threads : SetDesired(t)
  <2>d. desired' = desired
    BY <1>d DEF Next, SyncStep, ListenerStep, SubscribeStep, vars, Create, ReadTopics,
         CheckAlive, CheckAgain, Spawn, SubscribeOwn, Subscribed, Ask, Suback, Record, AskFails, Build,
         Connect, ConnectFails, SubscribeDesired, Listens, Interrupt, Resume
  <2>k. CASE Known(topic)
    BY <2>k, <1>x, <1>t, KnownStep DEF Kept
  <2>n. CASE ~Known(topic)
    <3> SUFFICES ASSUME topic \in lost.failed \/ UnderWay(topic) PROVE Kept(topic)'
      BY <2>n, <2>d, <1>t DEF Kept
    <3>f. CASE topic \in lost.failed
      <4>1. CASE \E a \in Actors : Suback(a)
        <5>1. PICK a \in Actors : Suback(a)
          BY <4>1
        <5>2. CASE topic = future[a].topic
          BY <5>1, <5>2, <1>t, SubackKnown DEF Kept, IInv
        <5>3. CASE topic # future[a].topic
          <6>1. topic \in lost'.failed
            BY <5>1, <5>3, <3>f, <1>l DEF Suback, FoundAgain, Losses
          <6> QED BY <6>1 DEF Kept
        <5> QED BY <5>2, <5>3
      <4>2. CASE \E a \in Actors : AskFails(a)
        BY <4>2, <3>f, <1>l DEF AskFails, Losses, Kept
      <4>3. CASE \E n \in Conns : Build(n) \/ ConnectFails(n) \/ Resume(n)
        <5>1. topic \in lost'.failed
          BY <4>3, <3>f, <1>l DEF Build, ConnectFails, Resume, Losses
        <5> QED BY <5>1 DEF Kept
      <4>4. CASE ~\/ \E a \in Actors : Suback(a) \/ AskFails(a)
                  \/ \E n \in Conns : Build(n) \/ ConnectFails(n) \/ Resume(n)
        <5>1. lost' = lost
          BY <4>4, <1>d DEF Next, SyncStep, ListenerStep, SubscribeStep, vars, Create, ReadTopics,
               CheckAlive, CheckAgain, Spawn, SubscribeOwn, Subscribed, Ask, Record,
               Connect, SubscribeDesired, Listens, Interrupt
        <5> QED BY <5>1, <3>f DEF Kept
      <4> QED BY <4>1, <4>2, <4>3, <4>4
    <3>u. CASE UnderWay(topic)
      <4>o. /\ \A a \in Actors : future[a].s = "done" => future[a].topic # topic
            /\ topic \notin recorded /\ topic \in desired
        BY <2>n, <2>d, <1>t
      <4>a. /\ thread \in 0..MaxListeners /\ Conns = 1..MaxListeners /\ MaxListeners \in Nat
            /\ (thread # 0 => thread \in Conns /\ state[thread] # "unborn")
        <5>1. /\ thread \in 0..MaxListeners /\ Conns = 1..MaxListeners /\ MaxListeners \in Nat
          BY <1>t, Facts
        <5>2. thread # 0 => thread \in Conns /\ ~(thread > thread)
          BY <5>1
        <5> QED BY <5>1, <5>2, <1>t DEF Listeners
      <4>1. CASE \/ \E t \in Threads, x \in Topics : Create(t, x)
                 \/ UNCHANGED vars
                 \/ \E a \in Actors : Ask(a) \/ Suback(a)
                 \/ \E n \in Conns : Interrupt(n)
        <5>1. /\ UNCHANGED <<state, topics, todo, thread>>
              /\ \A t \in Threads : pc[t] # "idle" => pc'[t] = pc[t]
          BY <4>1, <1>t, Facts DEF vars, Create, Goes, Ask, Suback, Interrupt
        <5> QED BY <5>1, <3>u DEF Kept, UnderWay, Alive
      <4>2. ASSUME NEW t \in Threads, ReadTopics(t) PROVE Kept(topic)'
        <5>1. Goes(t, "read", "set")
          BY <4>2 DEF ReadTopics
        <5>2. /\ UNCHANGED <<state, todo, thread>> /\ pc[t] = "read"
              /\ \A s \in Threads : s # t => pc'[s] = pc[s] /\ topics'[s] = topics[s]
          BY <4>2, <5>1, <1>t, Facts, Moves DEF ReadTopics, Places
        <5> QED BY <5>2, <3>u DEF Kept, UnderWay, Alive
      <4>3. ASSUME NEW t \in Threads, CheckAlive(t) PROVE Kept(topic)'
        <5>1. Goes(t, "alive", IF Alive(thread) THEN "subscribe" ELSE "start")
          BY <4>3 DEF CheckAlive
        <5>2. /\ UNCHANGED <<state, topics, todo, thread>>
              /\ pc'[t] = IF Alive(thread) THEN "subscribe" ELSE "start"
              /\ \A s \in Threads : s # t => pc'[s] = pc[s]
          BY <4>3, <5>1, <1>t, Moves DEF CheckAlive, Places
        <5> QED BY <5>1, <5>2, <3>u DEF Kept, UnderWay, Alive
      <4>4. ASSUME NEW t \in Threads, CheckAgain(t) PROVE Kept(topic)'
        <5>1. Goes(t, "start", IF Alive(thread) THEN "end" ELSE "spawn")
          BY <4>4 DEF CheckAgain
        <5>2. /\ UNCHANGED <<state, topics, todo, thread>> /\ pc[t] = "start"
              /\ ~Alive(thread) => pc'[t] = "spawn"
              /\ \A s \in Threads : s # t => pc'[s] = pc[s]
          BY <4>4, <5>1, <1>t, Moves DEF CheckAgain, Places
        <5> QED BY <5>2, <3>u DEF Kept, UnderWay, Alive
      <4>5. ASSUME NEW t \in Threads, Spawn(t) PROVE Kept(topic)'
        <5>1. PICK n \in Conns : thread' = n /\ state' = [state EXCEPT ![n] = "begun"]
          BY <4>5 DEF Spawn
        <5>2. state'[n] = "begun"
          BY <5>1, <1>t, Facts
        <5> QED BY <5>2 DEF Kept, UnderWay
      <4>6. ASSUME NEW t \in Threads, SubscribeOwn(t) PROVE Kept(topic)'
        <5>1. Goes(t, "subscribe", IF conn = 0 THEN "end" ELSE "subscribing")
          BY <4>6 DEF SubscribeOwn
        <5>2. /\ UNCHANGED <<state, topics, thread>> /\ pc[t] = "subscribe"
              /\ \A s \in Threads : s # t => pc'[s] = pc[s]
          BY <4>6, <5>1, <1>t, Moves DEF SubscribeOwn, Places
        <5>3. <<"thread", t>> \in Actors /\ todo[<<"thread", t>>] = {} /\ todo \in [Actors -> SUBSET Topics]
          BY <5>2, <1>t, Facts DEF OnlyWithin
        <5>4. /\ \A b \in Actors : todo[b] \subseteq todo'[b]
              /\ conn # 0 => todo'[<<"thread", t>>] = topics[t] \ recorded
          BY <4>6, <5>3 DEF SubscribeOwn
        <5>5. CASE conn = 0
          <6>1. thread # 0 /\ thread \in Conns /\ state[thread] # "unborn" /\ ~Started(thread)
            BY <5>2, <5>5, <4>a, <1>t DEF Listeners
          <6>2. state[thread] = "begun"
            BY <6>1 DEF Started
          <6> QED BY <6>1, <6>2, <5>2 DEF Kept, UnderWay
        <5>6. CASE conn # 0
          <6>1. topic \in topics[t] => topic \in todo'[<<"thread", t>>]
            BY <5>4, <5>6, <4>o
          <6> QED BY <6>1, <5>2, <5>3, <5>4, <3>u DEF Kept, UnderWay, Alive
        <5> QED BY <5>5, <5>6
      <4>7. ASSUME NEW t \in Threads, Subscribed(t) PROVE Kept(topic)'
        <5>1. Goes(t, "subscribing", "end")
          BY <4>7 DEF Subscribed
        <5>2. /\ UNCHANGED <<state, todo, thread, topics>> /\ pc[t] = "subscribing"
              /\ \A s \in Threads : s # t => pc'[s] = pc[s]
          BY <4>7, <5>1, <1>t, Facts, Moves DEF Subscribed, Places
        <5> QED BY <5>2, <3>u DEF Kept, UnderWay, Alive
      <4>8. ASSUME NEW a \in Actors, Record(a) PROVE Kept(topic)'
        <5>1. /\ UNCHANGED <<state, topics, pc, thread>>
              /\ todo' = [todo EXCEPT ![a] = todo[a] \ {future[a].topic}] /\ future[a].topic # topic
          BY <4>8, <4>o DEF Record
        <5>2. \A b \in Actors : topic \in todo[b] => topic \in todo'[b]
          BY <5>1, <1>t, Facts
        <5> QED BY <5>1, <5>2, <3>u DEF Kept, UnderWay, Alive
      <4>9. ASSUME NEW a \in Actors, AskFails(a) PROVE Kept(topic)'
        <5>1. /\ UNCHANGED <<topics, pc, thread>> /\ lost'.failed = lost.failed \cup todo[a]
              /\ \A b \in Actors : b # a => todo'[b] = todo[b]
              /\ state' = [n \in Conns |-> IF a = Listener(n) THEN "dead" ELSE state[n]]
          BY <4>9, <1>l, <1>t, Facts DEF AskFails, Losses
        <5>2. \A n \in Conns : state[n] \in {"begun", "built", "connected"} => state'[n] = state[n]
          <6>1. future[a] # NoFuture
            BY <4>9 DEF AskFails, NoFuture
          <6>2. \A n \in Conns : a = Listener(n) => state[n] = "subscribing"
            BY <6>1, <1>t DEF Asked, OnlyWithin
          <6> QED BY <5>1, <6>2
        <5>3. ~Alive(thread) => ~Alive(thread)'
          BY <5>1, <4>a DEF Alive
        <5> QED BY <5>1, <5>2, <5>3, <3>u DEF Kept, UnderWay
      <4>10. ASSUME NEW n \in Conns, Build(n) \/ Connect(n) PROVE Kept(topic)'
        <5>1. /\ UNCHANGED <<topics, pc, thread, todo>>
              /\ state'[n] \in {"built", "connected"}
          BY <4>10, <1>t, Facts DEF Build, Connect
        <5> QED BY <5>1 DEF Kept, UnderWay
      <4>11. ASSUME NEW n \in Conns, ConnectFails(n) PROVE Kept(topic)'
        <5>1. lost'.failed = lost.failed \cup desired
          BY <4>11, <1>l DEF ConnectFails, Losses
        <5> QED BY <5>1, <4>o DEF Kept
      <4>12. ASSUME NEW n \in Conns, SubscribeDesired(n) PROVE Kept(topic)'
        <5>1. Listener(n) \in Actors /\ todo'[Listener(n)] = desired \ recorded
          BY <4>12, <1>t, Facts DEF SubscribeDesired
        <5> QED BY <5>1, <4>o DEF Kept, UnderWay
      <4>13. ASSUME NEW n \in Conns, Listens(n) PROVE Kept(topic)'
        <5>1. /\ UNCHANGED <<topics, pc, thread, todo>> /\ state[n] = "subscribing"
              /\ state'[n] = "looping" /\ \A m \in Conns : m # n => state'[m] = state[m]
          BY <4>13, <1>t, Facts DEF Listens
        <5>2. Alive(thread)' <=> Alive(thread)
          BY <5>1, <4>a DEF Alive
        <5> QED BY <5>1, <5>2, <3>u DEF Kept, UnderWay
      <4>14. ASSUME NEW n \in Conns, Resume(n) PROVE Kept(topic)'
        <5>1. /\ UNCHANGED <<state, topics, pc, thread>> /\ todo[Loop(n)] = {}
              /\ \A b \in Actors : b # Loop(n) => todo'[b] = todo[b]
          BY <4>14, <1>t, Facts DEF Resume, OnlyWithin
        <5> QED BY <5>1, <3>u DEF Kept, UnderWay, Alive
      <4> QED BY <4>1, <4>2, <4>3, <4>4, <4>5, <4>6, <4>7, <4>8, <4>9, <4>10, <4>11, <4>12, <4>13,
           <4>14, <1>d DEF Next, SyncStep, ListenerStep, SubscribeStep
    <3> QED BY <3>f, <3>u
  <2> QED BY <2>k, <2>n
<1> QED BY <1>s, <1>d

-----------------------------------------------------------------------------
(* The theorems.                                                            *)

LEMMA Starts == Init => IInv
<1> SUFFICES ASSUME Init PROVE IInv
  OBVIOUS
<1> USE TopicsOK DEF Init
<1>1. TypeOK
  <2>1. <<desired, recorded, conn, thread, booted>> = <<{}, {}, 0, 0, 0>> /\ table \subseteq Topics
    OBVIOUS
  <2>2. future \in [Actors -> [conn : 0..MaxListeners, topic : Topics \cup {None}, s : {"none", "pending", "done"}]]
    BY DEF NoFuture
  <2>3. /\ MaxListeners \in Nat \ {0} /\ MaxCreates \in Nat /\ MaxFaults \in Nat
    OBVIOUS
  <2>4. 0 \in 0..MaxListeners /\ 0 \in 0..MaxCreates /\ 0 \in 0..MaxFaults /\ 0 \in 0..2
    BY <2>3
  <2>5. /\ pc \in [Threads -> {"idle", "read", "set", "alive", "start", "spawn", "subscribe", "subscribing"}]
        /\ topics \in [Threads -> SUBSET Topics]
    OBVIOUS
  <2>6. /\ state \in [Conns -> {"unborn", "begun", "built", "connected", "subscribing", "looping", "dead"}]
        /\ line \in [Conns -> {"none", "fresh", "up", "down", "refused"}]
        /\ heard \in [Conns -> SUBSET Topics] /\ todo \in [Actors -> SUBSET Topics]
    OBVIOUS
  <2> QED BY <2>1, <2>2, <2>4, <2>5, <2>6 DEF TypeOK
<1>2. Booting
  BY DEF Booting
<1>3. Listeners
  <2>1. \A n \in Conns : n > 0
    BY DEF Conns
  <2> QED BY <2>1 DEF Listeners, Started
<1>4. Asked /\ OnlyWithin
  BY DEF Asked, OnlyWithin, Actors, Loop, Listener
<1>5. RecordIsTrue /\ DoneIsTrue /\ NothingForgotten
  BY DEF RecordIsTrue, DoneIsTrue, NoFuture, NothingForgotten
<1> QED BY <1>1, <1>2, <1>3, <1>4, <1>5 DEF IInv

\* The inductive invariant.
THEOREM Invariance == Spec => []IInv
<1>1. IInv /\ [Next]_vars => IInv'
  BY TypeStep, ListenersStep, AskedStep, OnlyWithinStep, RecordStep, KeptStep DEF IInv
<1> QED BY <1>1, Starts, PTL DEF Spec

\* The bridge and its threads keep their types.
THEOREM Typing == Spec => []TypeOK
BY Invariance, PTL DEF IInv

\* A topic is left out of a subscription only if messages of it are heard on the
\* connection in use, or the broker lost its session, or the connection it is heard
\* on was replaced: no failure and no other order of steps makes the record false.
THEOREM RecordKept == Spec => []RecordIsTrue
BY Invariance, PTL DEF IInv

\* No wanted topic is forgotten, however the syncs of requests interleave with the
\* listeners that are started, connect, subscribe and fail, but for a lost session,
\* a replaced connection or a failed attempt.
THEOREM NoTopicForgotten == Spec => []NothingForgotten
BY Invariance, PTL DEF IInv

=============================================================================
