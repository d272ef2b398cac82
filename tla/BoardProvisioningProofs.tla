----------------------- MODULE BoardProvisioningProofs -----------------------
(***************************************************************************)
(* What BoardProvisioning guarantees for any boards, devices and values,   *)
(* any number of flows that run beside each other, and any faults.         *)
(*                                                                         *)
(* The flows share one pending wait and one queue of lines.  World says    *)
(* how they stand to each other: who is awaited, who comes before whom in  *)
(* the queue, and that a script which still goes by its own answers has no *)
(* foreign value before it.  Owned says who may run while the page is not  *)
(* busy, and Acks what the answers in the inbox say of the board.          *)
(*                                                                         *)
(* Nearly every action changes the flows by a few operators, one inside    *)
(* the other, so World is stated of any flows and wait and taken through   *)
(* those operators first.                                                  *)
(*                                                                         *)
(* The second part is about a flow that has the page to itself: its        *)
(* success is earned, what it calls verified is true, and it erases only   *)
(* what the wizard has agreed to erase.  KnownInv adds to IInv what the    *)
(* board's page must hold at each stage of such a flow (AloneInv), and     *)
(* what the identity shown by the wizard says of the board (ReadAlone and  *)
(* ReadRight).  A flow that is alone stays so only by its own doing, so    *)
(* the other flows, the user and the board's departures matter only for    *)
(* what they leave alone.                                                  *)
(***************************************************************************)
EXTENDS BoardProvisioning, FiniteSetTheorems, TLAPS

-----------------------------------------------------------------------------
(* The inductive invariant.                                                 *)

\* The locals of a flow fit its kind and the await at which it stands.
Shape(r) ==
    /\ r.kind = "none" => r.at = "idle"
    /\ r.kind = "attach" => r.at = "linking"
    /\ r.kind = "connect" => r.at \in {"linking", "status"}
    /\ r.kind = "verify" => r.at \in {"linking", "status", "closing"}
    /\ r.kind = "write" => r.at \in {"attempting", "fetching", "script", "settling", "closing"}
    /\ r.kind = "auto" => r.at # "idle"
    /\ r.kind \notin {"none", "write"} => r.board \in Boards
    /\ r.io = "none" <=> r.at \notin StatusChecks \cup {"script"}
    /\ r.io = "none" => r.reply = "none"
    /\ r.io # "send" => r.ahead = 0
    /\ r.at \in StatusChecks => r.cmd = 0 /\ r.reply # "none"
    /\ r.at = "script" =>
          /\ r.cmd \in Erase..Reboot
          /\ r.reply = "none" <=> r.cmd \in {Erase, Reboot}
          /\ r.io = "wait" => r.cmd \notin {Erase, Reboot}
    /\ r.at = "settling" => r.cmd = Erase
    /\ r.valid => r.at \in StatusChecks \cup {"script", "settling"}
    /\ r.io = "send" /\ r.reply = "got" => r.misled

Typed(fl) == fl \in [Flows -> FlowRecords] /\ \A g \in Flows : Shape(fl[g])

\* The event a flow's wait matches.
Expects(r) ==
    IF r.at = "script"
    THEN IF r.cmd = Finalize THEN <<"provdone", 0>> ELSE <<"provwr", r.cmd - 1>>
    ELSE <<"prov", 0>>

\* Whoever waits for an answer has the pending wait.
Awaited(fl, w) ==
    /\ w.flow = None => w = NoWait
    /\ \A g \in Flows :
          /\ fl[g].reply = "pending" <=> w.flow = g
          /\ w.flow = g => <<w.t, w.n>> = Expects(fl[g])

OneAuto(fl) == \A g, h \in Flows : fl[g].kind = "auto" /\ fl[h].kind = "auto" => g = h

\* Lines that are handed over wait for those before them.
Senders(fl) == {g \in Flows : fl[g].io = "send"}

InLine(fl) ==
    \A g \in Senders(fl) :
        /\ fl[g].ahead < Cardinality(Senders(fl))
        /\ \A h \in Senders(fl) : fl[h].ahead = fl[g].ahead => h = g

\* A promise that is settled: its flow goes on at once.
Ready(r) == r.io = "wait" /\ r.reply # "pending"

OneReady(fl) ==
    \A g, h \in Flows : Ready(fl[g]) =>
        /\ Ready(fl[h]) => h = g
        /\ fl[h].reply = "pending" => fl[h].io = "send"

\* A line that is not answered.
Brief(r) == r.at = "script" /\ r.cmd \in {Erase, Reboot}

\* Every other line would have taken the wait: none is handed over after the line
\* of a flow that is still awaited, and none was before a line that follows an
\* answer.
NoneBetween(fl) ==
    \A g, h \in Flows : g # h /\ fl[h].io = "send" /\ ~Brief(fl[h]) =>
        /\ fl[g].io = "wait" => fl[g].reply # "pending" /\ (fl[g].reply = "got" => fl[g].misled)
        /\ fl[g].io = "send" /\ fl[g].reply = "pending" => fl[h].ahead < fl[g].ahead
        /\ fl[g].io = "send" /\ fl[g].cmd > 2 /\ ~fl[g].misled => fl[g].ahead < fl[h].ahead

World(fl, w) ==
    /\ Typed(fl) /\ Awaited(fl, w) /\ OneAuto(fl)
    /\ InLine(fl) /\ OneReady(fl) /\ NoneBetween(fl)

\* While the page is not busy, or several flows run, those that run are loose.
Owned(fl, p, l) ==
    /\ p.busy => Running(fl) # {}
    /\ p.auto <=> \E g \in Flows : fl[g].kind = "auto"
    /\ ~p.busy => Running(fl) \subseteq l
    /\ \A g, h \in Running(fl) : g # h => g \in l

\* On a manufacturing page m without an identity, what the lines before line n of
\* device d's script have set is d's or has been erased.
Prefix(m, d, n) ==
    m.id = Blank => \A v \in Values : SetCmd(v) < n => m.parts[v] \in {d, None}

\* The last event that settles the wait of r is a confirmation.
Confirmed(r, i) ==
    \E k \in DOMAIN i :
        /\ <<i[k].t, i[k].n>> = Expects(r) /\ i[k].ok
        /\ \A j \in DOMAIN i : j > k => <<i[j].t, i[j].n>> # Expects(r)

\* What a script that goes by its own answers knows of the page m on the line.
Knows(r, i, m) ==
    r.at = "script" /\ ~r.misled =>
        /\ r.io = "send" /\ r.valid => Prefix(m, r.dev, r.cmd)
        /\ r.io = "wait" /\ r.reply = "pending" /\ Confirmed(r, i) => Prefix(m, r.dev, r.cmd + 1)
        /\ r.io = "wait" /\ r.reply = "got" /\ r.event.ok => Prefix(m, r.dev, r.cmd + 1)

Acks(fl, l, i, m) ==
    /\ l.board = None => i = <<>>
    /\ \A g \in Flows :
          /\ fl[g].valid => l.board # None
          /\ l.board # None => Knows(fl[g], i, m[l.board])

IInv ==
    /\ TypeOK /\ World(flow, wait) /\ Owned(flow, page, loose)
    /\ Acks(flow, link, inbox, mfg)

-----------------------------------------------------------------------------
(* Constants, and the queue of lines.                                       *)

LEMMA Numbers ==
    /\ NumValues \in Nat /\ NumValues > 0 /\ Values = 1..NumValues
    /\ Erase = 1 /\ Finalize = NumValues + 2 /\ Reboot = NumValues + 3
    /\ None \notin Flows /\ Cardinality(Flows) \in Nat
    /\ MaxStarts \in Nat /\ MaxFaults \in Nat
<1>1. Cardinality(Flows) \in Nat
  BY BoardsOK, FS_CardinalityType
<1> QED BY <1>1, BoardsOK DEF Values, Erase, Finalize, Reboot

LEMMA SendersCount ==
    ASSUME NEW fl
    PROVE  /\ IsFiniteSet(Senders(fl)) /\ Cardinality(Senders(fl)) \in Nat
           /\ Cardinality(Senders(fl)) <= Cardinality(Flows)
<1>1. Senders(fl) \subseteq Flows /\ IsFiniteSet(Flows)
  BY BoardsOK DEF Senders
<1>2. IsFiniteSet(Senders(fl)) /\ Cardinality(Senders(fl)) <= Cardinality(Flows)
  BY <1>1, FS_Subset
<1> QED BY <1>2, FS_CardinalityType

\* What counts of a flow for the others.
Alike(r, s) ==
    /\ s.kind = r.kind /\ s.at = r.at /\ s.board = r.board /\ s.cmd = r.cmd
    /\ s.io = r.io /\ s.reply = r.reply /\ s.ahead = r.ahead /\ s.misled = r.misled
    /\ s.valid => r.valid

LEMMA AlikeShape ==
    ASSUME NEW r, NEW s, Alike(r, s)
    PROVE  /\ Shape(r) => Shape(s)
           /\ Expects(s) = Expects(r) /\ (Ready(s) <=> Ready(r)) /\ (Brief(s) <=> Brief(r))
BY DEF Alike, Shape, Expects, Ready, Brief

\* The same lines wait, in the same order.
LEMMA SameQueue ==
    ASSUME NEW fl, NEW f2, InLine(fl),
           \A g \in Flows : f2[g].io = fl[g].io /\ (fl[g].io = "send" => f2[g].ahead = fl[g].ahead)
    PROVE  InLine(f2)
<1>1. Senders(f2) = Senders(fl)
  BY DEF Senders
<1>2. \A g \in Senders(fl) : g \in Flows /\ f2[g].ahead = fl[g].ahead
  BY DEF Senders
<1> QED BY <1>1, <1>2 DEF InLine

\* A flow that did not wait for its turn still does not.
LEMMA QueueWithout ==
    ASSUME NEW fl, NEW f2, NEW f \in Flows, InLine(fl), fl[f].io # "send", f2[f].io # "send",
           \A g \in Flows \ {f} : f2[g].io = fl[g].io /\ f2[g].ahead = fl[g].ahead
    PROVE  InLine(f2)
<1>1. Senders(f2) = Senders(fl)
  BY DEF Senders
<1>2. \A g \in Senders(fl) : g \in Flows /\ g # f /\ f2[g].ahead = fl[g].ahead
  BY DEF Senders
<1> QED BY <1>1, <1>2 DEF InLine

\* A line is handed over: it comes last.
LEMMA QueueOneMore ==
    ASSUME NEW fl, NEW f2, NEW f \in Flows, InLine(fl), fl[f].io # "send", f2[f].io = "send",
           f2[f].ahead = Cardinality(Senders(fl)),
           \A g \in Flows : fl[g].ahead \in Nat,
           \A g \in Flows \ {f} : f2[g].io = fl[g].io /\ f2[g].ahead = fl[g].ahead
    PROVE  /\ InLine(f2)
           /\ \A g \in Senders(fl) : g # f /\ f2[g].ahead < f2[f].ahead
<1> DEFINE n == Cardinality(Senders(fl))
<1>1. Senders(f2) = Senders(fl) \cup {f} /\ f \notin Senders(fl) /\ n \in Nat
  BY SendersCount DEF Senders
<1>2. Cardinality(Senders(f2)) = n + 1
  BY <1>1, SendersCount, FS_AddElement
<1>3. \A g \in Senders(fl) : g \in Flows /\ g # f /\ f2[g].ahead = fl[g].ahead /\ fl[g].ahead < n
                             /\ fl[g].ahead \in Nat
  BY <1>1 DEF Senders, InLine
<1> HIDE DEF n
<1>4. f2[f].ahead = n
  BY DEF n
<1>5. ASSUME NEW g \in Senders(f2) PROVE f2[g].ahead < n + 1
  BY <1>1, <1>3, <1>4
<1>6. ASSUME NEW g \in Senders(f2), NEW h \in Senders(f2), f2[h].ahead = f2[g].ahead PROVE h = g
  <2>1. CASE g = f \/ h = f
    BY <2>1, <1>1, <1>3, <1>4, <1>6
  <2>2. CASE g # f /\ h # f
    BY <2>2, <1>1, <1>3, <1>6 DEF InLine
  <2> QED BY <2>1, <2>2
<1> QED BY <1>2, <1>3, <1>4, <1>5, <1>6 DEF InLine

\* The first line is written: the others move up.
LEMMA QueueOneLess ==
    ASSUME NEW fl, NEW f2, NEW f \in Flows, InLine(fl), fl[f].io = "send", fl[f].ahead = 0,
           f2[f].io # "send",
           \A g \in Flows : fl[g].ahead \in Nat,
           \A g \in Flows \ {f} : /\ f2[g].io = fl[g].io
                                  /\ f2[g].ahead = IF fl[g].ahead > 0 THEN fl[g].ahead - 1 ELSE 0
    PROVE  /\ InLine(f2)
           /\ \A g \in Senders(f2) : g # f /\ fl[g].ahead > 0 /\ f2[g].ahead = fl[g].ahead - 1
<1> DEFINE n == Cardinality(Senders(fl))
<1>1. Senders(f2) = Senders(fl) \ {f} /\ f \in Senders(fl) /\ n \in Nat
  BY SendersCount DEF Senders
<1>2. Cardinality(Senders(f2)) = n - 1
  BY <1>1, SendersCount, FS_RemoveElement
<1>3. \A g \in Senders(f2) : g \in Flows /\ g # f /\ g \in Senders(fl)
  BY <1>1 DEF Senders
<1>4. \A g \in Senders(f2) : fl[g].ahead # 0 /\ fl[g].ahead < n /\ fl[g].ahead \in Nat
  BY <1>1, <1>3 DEF InLine
<1>5. \A g \in Senders(f2) : fl[g].ahead > 0 /\ f2[g].ahead = fl[g].ahead - 1
  BY <1>3, <1>4
<1> HIDE DEF n
<1>6. \A g \in Senders(f2) : f2[g].ahead < n - 1
  BY <1>1, <1>4, <1>5
<1>7. ASSUME NEW g \in Senders(f2), NEW h \in Senders(f2), f2[h].ahead = f2[g].ahead PROVE h = g
  <2>1. fl[h].ahead = fl[g].ahead
    BY <1>4, <1>5, <1>7
  <2> QED BY <2>1, <1>3 DEF InLine
<1> QED BY <1>2, <1>3, <1>5, <1>6, <1>7 DEF InLine

\* Everybody moves up in the queue.
LEMMA AdvancedRecords ==
    ASSUME NEW fl \in [Flows -> FlowRecords], NEW f \in Flows, NEW r \in FlowRecords
    PROVE  LET f2 == [Advanced(fl) EXCEPT ![f] = r] IN
           /\ f2 \in [Flows -> FlowRecords] /\ f2[f] = r
           /\ \A g \in Flows \ {f} :
                 /\ f2[g].kind = fl[g].kind /\ f2[g].at = fl[g].at /\ f2[g].board = fl[g].board
                 /\ f2[g].cmd = fl[g].cmd /\ f2[g].io = fl[g].io /\ f2[g].reply = fl[g].reply
                 /\ f2[g].misled = fl[g].misled /\ f2[g].dev = fl[g].dev
                 /\ f2[g].valid = fl[g].valid /\ f2[g].event = fl[g].event
                 /\ f2[g].ahead = IF fl[g].ahead > 0 THEN fl[g].ahead - 1 ELSE 0
<1> DEFINE n(g) == IF fl[g].ahead > 0 THEN fl[g].ahead - 1 ELSE 0
           f2 == [Advanced(fl) EXCEPT ![f] = r]
<1>1. \A g \in Flows : fl[g] \in FlowRecords /\ n(g) \in 0..Cardinality(Flows)
  BY Numbers DEF FlowRecords
<1>2. \A g \in Flows : Advanced(fl)[g] = [fl[g] EXCEPT !.ahead = n(g)]
  BY DEF Advanced
<1>3. ASSUME NEW g \in Flows
      PROVE  LET s == Advanced(fl)[g] IN
             /\ s \in FlowRecords
             /\ s.kind = fl[g].kind /\ s.at = fl[g].at /\ s.board = fl[g].board /\ s.cmd = fl[g].cmd
             /\ s.io = fl[g].io /\ s.reply = fl[g].reply /\ s.misled = fl[g].misled /\ s.dev = fl[g].dev
             /\ s.valid = fl[g].valid /\ s.event = fl[g].event /\ s.ahead = n(g)
  <2>1. fl[g] \in FlowRecords /\ n(g) \in 0..Cardinality(Flows)
    BY <1>1
  <2>2. Advanced(fl)[g] = [fl[g] EXCEPT !.ahead = n(g)]
    BY <1>2
  <2> HIDE DEF n
  <2> QED BY <2>1, <2>2 DEF FlowRecords
<1>4. Advanced(fl) \in [Flows -> FlowRecords]
  BY <1>3 DEF Advanced
<1>5. f2 \in [Flows -> FlowRecords] /\ f2[f] = r /\ \A g \in Flows \ {f} : f2[g] = Advanced(fl)[g]
  BY <1>4
<1> HIDE DEF f2
<1>6. \A g \in Flows \ {f} :
         /\ f2[g].kind = fl[g].kind /\ f2[g].at = fl[g].at /\ f2[g].board = fl[g].board
         /\ f2[g].cmd = fl[g].cmd /\ f2[g].io = fl[g].io /\ f2[g].reply = fl[g].reply
         /\ f2[g].misled = fl[g].misled /\ f2[g].dev = fl[g].dev
         /\ f2[g].valid = fl[g].valid /\ f2[g].event = fl[g].event /\ f2[g].ahead = n(g)
  BY <1>3, <1>5
<1> QED BY <1>5, <1>6 DEF f2

-----------------------------------------------------------------------------
(* World, taken through the operators that actions are made of.             *)

LEMMA WorldFacts ==
    ASSUME NEW fl, NEW w, World(fl, w)
    PROVE  /\ fl \in [Flows -> FlowRecords]
           /\ \A g \in Flows : Shape(fl[g]) /\ fl[g] \in FlowRecords /\ fl[g].ahead \in Nat
           /\ \A g \in Flows : fl[g].reply = "pending" <=> w.flow = g
           /\ w.flow = None => w = NoWait
<1>1. Typed(fl) /\ Awaited(fl, w)
  BY DEF World
<1>2. \A g \in Flows : fl[g] \in FlowRecords /\ fl[g].ahead \in Nat
  BY <1>1, Numbers DEF Typed, FlowRecords
<1> QED BY <1>1, <1>2 DEF Typed, Awaited

\* What does not count for the others may change.
LEMMA AlikeWorld ==
    ASSUME NEW fl, NEW w, World(fl, w), NEW f2 \in [Flows -> FlowRecords],
           \A g \in Flows : Alike(fl[g], f2[g])
    PROVE  World(f2, w)
<1> USE DEF Alike
<1>1. Typed(f2) /\ Awaited(f2, w)
  <2>1. \A g \in Flows : Shape(f2[g]) /\ Expects(f2[g]) = Expects(fl[g])
    BY AlikeShape, WorldFacts
  <2> QED BY <2>1 DEF World, Typed, Awaited
<1>2. OneAuto(f2) /\ InLine(f2)
  BY SameQueue DEF World, OneAuto
<1>3. OneReady(f2)
  BY DEF World, OneReady, Ready
<1>4. NoneBetween(f2)
  BY DEF World, NoneBetween, Brief
<1> QED BY <1>1, <1>2, <1>3, <1>4 DEF World

LEMMA UnboundWorld ==
    ASSUME NEW fl, NEW w, World(fl, w)
    PROVE  /\ World(Unbound(fl), w)
           /\ \A g \in Flows : Alike(fl[g], Unbound(fl)[g]) /\ ~Unbound(fl)[g].valid
                               /\ Unbound(fl)[g].kind = fl[g].kind
<1> DEFINE f2 == Unbound(fl)
<1>1. \A g \in Flows : fl[g] \in FlowRecords
  BY WorldFacts
<1>2. \A g \in Flows : f2[g] = [fl[g] EXCEPT !.valid = FALSE, !.same = FALSE]
  BY DEF Unbound
<1>3. ASSUME NEW g \in Flows
      PROVE  f2[g] \in FlowRecords /\ Alike(fl[g], f2[g]) /\ ~f2[g].valid
  <2>1. fl[g] \in FlowRecords /\ f2[g] = [fl[g] EXCEPT !.valid = FALSE, !.same = FALSE]
    BY <1>1, <1>2
  <2> HIDE DEF f2
  <2> QED BY <2>1 DEF FlowRecords, Alike
<1>4. f2 \in [Flows -> FlowRecords]
  BY <1>3 DEF Unbound
<1> HIDE DEF f2
<1>5. World(f2, w)
  BY <1>3, <1>4, AlikeWorld
<1> QED BY <1>3, <1>5 DEF f2, Alike

\* The same flow, told that its wait is over.
CancelledRecord(r, s) ==
    /\ s.kind = r.kind /\ s.at = r.at /\ s.board = r.board /\ s.cmd = r.cmd
    /\ s.io = r.io /\ s.ahead = r.ahead /\ s.misled = r.misled
    /\ s.dev = r.dev /\ s.valid = r.valid /\ s.event = r.event
    /\ s.reply = IF r.reply = "pending" THEN "cancelled" ELSE r.reply

LEMMA CancelledWorld ==
    ASSUME NEW fl, NEW w, World(fl, w), w.flow \in Flows \cup {None}
    PROVE  /\ World(Cancelled(fl, w), NoWait)
           /\ \A g \in Flows : CancelledRecord(fl[g], Cancelled(fl, w)[g])
<1> DEFINE f2 == Cancelled(fl, w)
<1>1. /\ fl \in [Flows -> FlowRecords] /\ \A g \in Flows : fl[g] \in FlowRecords
      /\ \A g \in Flows : fl[g].reply = "pending" <=> w.flow = g
  BY WorldFacts
<1>2. /\ f2 \in [Flows -> FlowRecords]
      /\ \A g \in Flows : CancelledRecord(fl[g], f2[g])
  <2>1. CASE w = NoWait
    <3>1. w.flow = None
      BY <2>1 DEF NoWait
    <3> QED BY <1>1, <2>1, <3>1, Numbers DEF Cancelled, CancelledRecord
  <2>2. CASE w # NoWait
    <3>1. w.flow \in Flows
      BY <2>2, WorldFacts
    <3>2. f2 = [fl EXCEPT ![w.flow] = [fl[w.flow] EXCEPT !.reply = "cancelled"]]
      BY <2>2, <3>1, <1>1 DEF Cancelled
    <3>3. [fl[w.flow] EXCEPT !.reply = "cancelled"] \in FlowRecords
      BY <3>1, <1>1 DEF FlowRecords
    <3>4. CancelledRecord(fl[w.flow], [fl[w.flow] EXCEPT !.reply = "cancelled"])
      BY <3>1, <1>1 DEF FlowRecords, CancelledRecord
    <3>5. \A g \in Flows : fl[g].reply # "pending" => CancelledRecord(fl[g], fl[g])
      BY DEF CancelledRecord
    <3> HIDE DEF f2
    <3> QED BY <1>1, <3>1, <3>2, <3>3, <3>4, <3>5
  <2> QED BY <2>1, <2>2
<1> HIDE DEF f2
<1> USE DEF CancelledRecord
<1>3. Typed(f2)
  <2>1. ASSUME NEW g \in Flows PROVE Shape(f2[g])
    <3>1. Shape(fl[g]) /\ CancelledRecord(fl[g], f2[g])
      BY WorldFacts, <1>2
    <3> QED BY <3>1 DEF Shape
  <2> QED BY <1>2, <2>1 DEF Typed
<1>4. Awaited(f2, NoWait)
  BY <1>2, Numbers DEF Awaited, NoWait
<1>5. OneAuto(f2) /\ InLine(f2)
  BY <1>2, SameQueue DEF World, OneAuto
<1>6. OneReady(f2)
  BY <1>1, <1>2 DEF World, OneReady, Ready
<1>7. NoneBetween(f2)
  BY <1>2 DEF World, NoneBetween, Brief
<1>8. World(f2, NoWait)
  BY <1>3, <1>4, <1>5, <1>6, <1>7 DEF World
<1> QED BY <1>2, <1>8 DEF f2

\* A flow that awaits nothing of a board.
Calm(r) == r \in FlowRecords /\ Shape(r) /\ r.io = "none"

\* A flow that went on goes on to something else.
LEMMA CalmWorld ==
    ASSUME NEW fl, NEW w, World(fl, w), NEW f \in Flows,
           fl[f].io # "send", fl[f].reply # "pending",
           NEW r, Calm(r),
           r.kind = "auto" => fl[f].kind = "auto" \/ \A g \in Flows \ {f} : fl[g].kind # "auto"
    PROVE  World([fl EXCEPT ![f] = r], w)
<1> DEFINE f2 == [fl EXCEPT ![f] = r]
<1>1. fl \in [Flows -> FlowRecords] /\ r \in FlowRecords /\ Shape(r) /\ r.io = "none"
  BY WorldFacts DEF Calm
<1>2. r.reply = "none" /\ ~Ready(r)
  BY <1>1 DEF Shape, Ready
<1>3. f2 \in [Flows -> FlowRecords] /\ f2[f] = r /\ \A g \in Flows \ {f} : f2[g] = fl[g]
  BY <1>1
<1> HIDE DEF f2
<1>4. Typed(f2)
  BY <1>1, <1>3, WorldFacts DEF Typed
<1>5. Awaited(f2, w)
  BY <1>1, <1>2, <1>3, WorldFacts DEF World, Awaited
<1>6. OneAuto(f2)
  BY <1>3 DEF World, OneAuto
<1>7. InLine(f2)
  BY <1>1, <1>3, QueueWithout DEF World
<1>8. OneReady(f2)
  BY <1>2, <1>3 DEF World, OneReady
<1>9. NoneBetween(f2)
  BY <1>1, <1>3 DEF World, NoneBetween
<1>10. World(f2, w)
  BY <1>4, <1>5, <1>6, <1>7, <1>8, <1>9 DEF World
<1> QED BY <1>10 DEF f2

\* A line is written, and its flow goes on to something else.
LEMMA WrittenWorld ==
    ASSUME NEW fl, NEW w, World(fl, w), NEW f \in Flows,
           fl[f].io = "send", fl[f].ahead = 0, fl[f].reply # "pending",
           NEW r, Calm(r), r.kind = "auto" => fl[f].kind = "auto"
    PROVE  World([Advanced(fl) EXCEPT ![f] = r], w)
<1> DEFINE f2 == [Advanced(fl) EXCEPT ![f] = r]
<1>1. fl \in [Flows -> FlowRecords] /\ r \in FlowRecords /\ Shape(r) /\ r.io = "none"
      /\ \A g \in Flows : fl[g] \in FlowRecords /\ fl[g].ahead \in Nat /\ Shape(fl[g])
  BY WorldFacts DEF Calm
<1>2. r.reply = "none" /\ ~Ready(r)
  BY <1>1 DEF Shape, Ready
<1>3. f2 \in [Flows -> FlowRecords] /\ f2[f] = r
      /\ \A g \in Flows \ {f} : /\ f2[g].kind = fl[g].kind /\ f2[g].at = fl[g].at
                                /\ f2[g].board = fl[g].board /\ f2[g].cmd = fl[g].cmd
                                /\ f2[g].io = fl[g].io /\ f2[g].reply = fl[g].reply
                                /\ f2[g].misled = fl[g].misled /\ f2[g].valid = fl[g].valid
                                /\ f2[g].ahead = IF fl[g].ahead > 0 THEN fl[g].ahead - 1 ELSE 0
  BY <1>1, AdvancedRecords
<1> HIDE DEF f2
<1>4. Typed(f2)
  <2>1. ASSUME NEW g \in Flows \ {f} PROVE Shape(f2[g])
    <3>1. f2[g].ahead = 0 \/ fl[g].ahead # 0
      BY <1>1, <1>3
    <3> QED BY <1>1, <1>3, <3>1 DEF Shape
  <2> QED BY <1>1, <1>3, <2>1 DEF Typed
<1>5. Awaited(f2, w)
  <2>1. \A g \in Flows \ {f} : Expects(f2[g]) = Expects(fl[g])
    BY <1>3 DEF Expects
  <2> QED BY <1>1, <1>2, <1>3, <2>1, WorldFacts DEF World, Awaited
<1>6. OneAuto(f2)
  BY <1>3 DEF World, OneAuto
<1>7. InLine(f2) /\ \A g \in Senders(f2) : g # f /\ fl[g].ahead > 0 /\ f2[g].ahead = fl[g].ahead - 1
  BY <1>1, <1>3, QueueOneLess DEF World
<1>8. OneReady(f2)
  BY <1>2, <1>3 DEF World, OneReady, Ready
<1>9. NoneBetween(f2)
  <2> SUFFICES ASSUME NEW g \in Flows, NEW h \in Flows, g # h, f2[h].io = "send", ~Brief(f2[h])
               PROVE  /\ f2[g].io = "wait" => f2[g].reply # "pending" /\ (f2[g].reply = "got" => f2[g].misled)
                      /\ f2[g].io = "send" /\ f2[g].reply = "pending" => f2[h].ahead < f2[g].ahead
                      /\ f2[g].io = "send" /\ f2[g].cmd > 2 /\ ~f2[g].misled => f2[g].ahead < f2[h].ahead
    BY DEF NoneBetween
  <2>1. h # f /\ fl[h].io = "send" /\ ~Brief(fl[h]) /\ fl[h].ahead \in Nat /\ f2[h].ahead = fl[h].ahead - 1
    BY <1>1, <1>3, <1>7 DEF Brief, Senders
  <2>2. CASE g = f
    BY <2>2, <1>1, <1>3
  <2>3. CASE g # f
    <3>1. /\ fl[g].io = "wait" => fl[g].reply # "pending" /\ (fl[g].reply = "got" => fl[g].misled)
          /\ fl[g].io = "send" /\ fl[g].reply = "pending" => fl[h].ahead < fl[g].ahead
          /\ fl[g].io = "send" /\ fl[g].cmd > 2 /\ ~fl[g].misled => fl[g].ahead < fl[h].ahead
      BY <2>1 DEF World, NoneBetween
    <3>2. f2[g].io = "send" => f2[g].ahead = fl[g].ahead - 1
      BY <1>7 DEF Senders
    <3>3. fl[g].ahead \in Nat
      BY <1>1
    <3> QED BY <1>3, <2>1, <2>3, <3>1, <3>2, <3>3
  <2> QED BY <2>2, <2>3
<1>10. World(f2, w)
  BY <1>4, <1>5, <1>6, <1>7, <1>8, <1>9 DEF World
<1> QED BY <1>10 DEF f2

\* A line that will be answered is written.
LEMMA SentWorld ==
    ASSUME NEW fl, NEW w, World(fl, w), NEW f \in Flows,
           fl[f].io = "send", fl[f].ahead = 0, ~Brief(fl[f]),
           \A g \in Flows : ~Ready(fl[g])
    PROVE  World([Advanced(fl) EXCEPT ![f] = [fl[f] EXCEPT !.io = "wait"]], w)
<1> DEFINE r == [fl[f] EXCEPT !.io = "wait"]
           f2 == [Advanced(fl) EXCEPT ![f] = r]
<1>1. fl \in [Flows -> FlowRecords]
      /\ \A g \in Flows : fl[g] \in FlowRecords /\ fl[g].ahead \in Nat /\ Shape(fl[g])
  BY WorldFacts
<1>2. /\ r \in FlowRecords /\ r.kind = fl[f].kind /\ r.at = fl[f].at /\ r.board = fl[f].board
      /\ r.cmd = fl[f].cmd /\ r.reply = fl[f].reply /\ r.misled = fl[f].misled
      /\ r.io = "wait" /\ r.ahead = 0 /\ r.valid = fl[f].valid
  BY <1>1 DEF FlowRecords
<1> HIDE DEF r
<1>3. f2 \in [Flows -> FlowRecords] /\ f2[f] = r
      /\ \A g \in Flows \ {f} : /\ f2[g].kind = fl[g].kind /\ f2[g].at = fl[g].at
                                /\ f2[g].board = fl[g].board /\ f2[g].cmd = fl[g].cmd
                                /\ f2[g].io = fl[g].io /\ f2[g].reply = fl[g].reply
                                /\ f2[g].misled = fl[g].misled /\ f2[g].valid = fl[g].valid
                                /\ f2[g].ahead = IF fl[g].ahead > 0 THEN fl[g].ahead - 1 ELSE 0
  BY <1>1, <1>2, AdvancedRecords
<1> HIDE DEF f2
<1>4. Typed(f2)
  <2>1. ASSUME NEW g \in Flows \ {f} PROVE Shape(f2[g])
    <3>1. f2[g].ahead = 0 \/ fl[g].ahead # 0
      BY <1>1, <1>3
    <3> QED BY <1>1, <1>3, <3>1 DEF Shape
  <2>2. Shape(r)
    BY <1>1, <1>2 DEF Shape, Brief
  <2> QED BY <1>3, <2>1, <2>2 DEF Typed
<1>5. Awaited(f2, w)
  <2>1. \A g \in Flows : Expects(f2[g]) = Expects(fl[g])
    BY <1>2, <1>3 DEF Expects
  <2> QED BY <1>2, <1>3, <2>1 DEF World, Awaited
<1>6. OneAuto(f2)
  BY <1>2, <1>3 DEF World, OneAuto
<1>7. InLine(f2) /\ \A g \in Senders(f2) : g # f /\ fl[g].ahead > 0 /\ f2[g].ahead = fl[g].ahead - 1
  BY <1>1, <1>2, <1>3, QueueOneLess DEF World
<1>8. OneReady(f2)
  <2>1. \A g \in Flows : Ready(f2[g]) => g = f
    BY <1>3 DEF Ready
  <2>2. ASSUME NEW h \in Flows, h # f, fl[h].reply = "pending" PROVE fl[h].io = "send"
    <3>1. fl[h].io # "wait"
      BY <2>2 DEF World, NoneBetween
    <3>2. fl[h].io # "none"
      BY <1>1, <2>2 DEF Shape
    <3> QED BY <1>1, <3>1, <3>2 DEF FlowRecords
  <2> QED BY <1>2, <1>3, <2>1, <2>2 DEF OneReady, Ready
<1>9. NoneBetween(f2)
  <2> SUFFICES ASSUME NEW g \in Flows, NEW h \in Flows, g # h, f2[h].io = "send", ~Brief(f2[h])
               PROVE  /\ f2[g].io = "wait" => f2[g].reply # "pending" /\ (f2[g].reply = "got" => f2[g].misled)
                      /\ f2[g].io = "send" /\ f2[g].reply = "pending" => f2[h].ahead < f2[g].ahead
                      /\ f2[g].io = "send" /\ f2[g].cmd > 2 /\ ~f2[g].misled => f2[g].ahead < f2[h].ahead
    BY DEF NoneBetween
  <2>1. h # f /\ fl[h].io = "send" /\ ~Brief(fl[h]) /\ fl[h].ahead \in Nat /\ f2[h].ahead = fl[h].ahead - 1
    BY <1>1, <1>2, <1>3, <1>7 DEF Brief, Senders
  <2>2. /\ fl[g].io = "wait" => fl[g].reply # "pending" /\ (fl[g].reply = "got" => fl[g].misled)
        /\ fl[g].io = "send" /\ fl[g].reply = "pending" => fl[h].ahead < fl[g].ahead
        /\ fl[g].io = "send" /\ fl[g].cmd > 2 /\ ~fl[g].misled => fl[g].ahead < fl[h].ahead
    BY <2>1 DEF World, NoneBetween
  <2>3. CASE g = f
    <3>1. fl[f].reply # "pending"
      BY <2>1, <2>2, <2>3
    <3>2. fl[f].reply = "got" => fl[f].misled
      BY <1>1 DEF Shape
    <3> QED BY <1>2, <1>3, <2>3, <3>1, <3>2
  <2>4. CASE g # f
    <3>1. f2[g].io = "send" => f2[g].ahead = fl[g].ahead - 1
      BY <1>7 DEF Senders
    <3>2. fl[g].ahead \in Nat
      BY <1>1
    <3> QED BY <1>3, <2>1, <2>2, <2>4, <3>1, <3>2
  <2> QED BY <2>3, <2>4
<1>10. World(f2, w)
  BY <1>4, <1>5, <1>6, <1>7, <1>8, <1>9 DEF World
<1> QED BY <1>10 DEF f2, r

\* What a line that is handed over asks of the others.
Handable(fl, f, r) ==
    /\ r \in FlowRecords /\ Shape(r) /\ r.io = "send" /\ r.ahead = Cardinality(Senders(fl))
    /\ fl[f].io # "send"
    /\ r.kind = "auto" => \A g \in Flows \ {f} : fl[g].kind # "auto"
    /\ \A g \in Flows \ {f} : fl[g].io = "wait" /\ fl[g].reply = "got" => fl[g].misled
    /\ r.cmd > 2 /\ ~r.misled => \A g \in Senders(fl) : Brief(fl[g])

LEMMA HandedParts ==
    ASSUME NEW fl, NEW w, World(fl, w), NEW f \in Flows, NEW r, Handable(fl, f, r),
           Brief(r) \/ \A g \in Flows : fl[g].reply # "pending"
    PROVE  LET f2 == [fl EXCEPT ![f] = r] IN
           /\ Typed(f2) /\ OneAuto(f2) /\ InLine(f2) /\ NoneBetween(f2)
           /\ f2[f] = r /\ \A g \in Flows \ {f} : f2[g] = fl[g]
<1> DEFINE f2 == [fl EXCEPT ![f] = r]
<1>1. /\ r \in FlowRecords /\ Shape(r) /\ r.io = "send" /\ r.ahead = Cardinality(Senders(fl))
      /\ fl[f].io # "send"
      /\ r.kind = "auto" => \A g \in Flows \ {f} : fl[g].kind # "auto"
      /\ \A g \in Flows \ {f} : fl[g].io = "wait" /\ fl[g].reply = "got" => fl[g].misled
      /\ r.cmd > 2 /\ ~r.misled => \A g \in Senders(fl) : Brief(fl[g])
  BY DEF Handable
<1>2. fl \in [Flows -> FlowRecords]
      /\ \A g \in Flows : fl[g] \in FlowRecords /\ fl[g].ahead \in Nat /\ Shape(fl[g])
  BY WorldFacts
<1>3. f2 \in [Flows -> FlowRecords] /\ f2[f] = r /\ \A g \in Flows \ {f} : f2[g] = fl[g]
  BY <1>1, <1>2
<1> HIDE DEF f2
<1>4. Typed(f2)
  BY <1>1, <1>2, <1>3 DEF Typed
<1>5. OneAuto(f2)
  BY <1>1, <1>3 DEF World, OneAuto
<1>6. InLine(f2) /\ \A g \in Senders(fl) : g # f /\ f2[g].ahead < f2[f].ahead
  BY <1>1, <1>2, <1>3, QueueOneMore DEF World
<1>7. NoneBetween(f2)
  <2> SUFFICES ASSUME NEW g \in Flows, NEW h \in Flows, g # h, f2[h].io = "send", ~Brief(f2[h])
               PROVE  /\ f2[g].io = "wait" => f2[g].reply # "pending" /\ (f2[g].reply = "got" => f2[g].misled)
                      /\ f2[g].io = "send" /\ f2[g].reply = "pending" => f2[h].ahead < f2[g].ahead
                      /\ f2[g].io = "send" /\ f2[g].cmd > 2 /\ ~f2[g].misled => f2[g].ahead < f2[h].ahead
    BY DEF NoneBetween
  <2>1. CASE h = f
    <3>1. f2[g] = fl[g] /\ fl[g].reply # "pending"
      BY <1>3, <2>1
    <3>2. fl[g].io = "send" => f2[g].ahead < f2[h].ahead
      BY <1>6, <2>1 DEF Senders
    <3> QED BY <1>1, <2>1, <3>1, <3>2
  <2>2. CASE h # f /\ g # f
    BY <1>3, <2>2 DEF World, NoneBetween
  <2>3. CASE g = f
    <3>1. h \in Senders(fl) /\ f2[h] = fl[h] /\ f2[g] = r
      BY <1>3, <2>3 DEF Senders
    <3>2. f2[h].ahead < f2[g].ahead
      BY <1>6, <2>3, <3>1
    <3> QED BY <1>1, <3>1, <3>2
  <2> QED BY <2>1, <2>2, <2>3
<1> QED BY <1>3, <1>4, <1>5, <1>6, <1>7 DEF f2

\* A line that will be answered is handed over, after the wait it replaces.
LEMMA HandedWorld ==
    ASSUME NEW fl, World(fl, NoWait), NEW f \in Flows, NEW r, Handable(fl, f, r), r.reply = "pending",
           NEW v, v.flow = f, <<v.t, v.n>> = Expects(r)
    PROVE  World([fl EXCEPT ![f] = r], v)
<1> DEFINE f2 == [fl EXCEPT ![f] = r]
<1>1. \A g \in Flows : fl[g].reply # "pending"
  BY WorldFacts, Numbers DEF NoWait
<1>2. /\ Typed(f2) /\ OneAuto(f2) /\ InLine(f2) /\ NoneBetween(f2)
      /\ f2[f] = r /\ \A g \in Flows \ {f} : f2[g] = fl[g]
  BY <1>1, HandedParts
<1> HIDE DEF f2
<1>3. Awaited(f2, v)
  BY <1>1, <1>2, Numbers DEF Awaited
<1>4. OneReady(f2)
  BY <1>1, <1>2 DEF World, OneReady, Ready, Handable
<1>5. World(f2, v)
  BY <1>2, <1>3, <1>4 DEF World
<1> QED BY <1>5 DEF f2

\* A line that will not be answered is handed over.
LEMMA BriefWorld ==
    ASSUME NEW fl, NEW w, World(fl, w), NEW f \in Flows, NEW r, Handable(fl, f, r), Brief(r),
           fl[f].reply # "pending"
    PROVE  World([fl EXCEPT ![f] = r], w)
<1> DEFINE f2 == [fl EXCEPT ![f] = r]
<1>1. /\ Typed(f2) /\ OneAuto(f2) /\ InLine(f2) /\ NoneBetween(f2)
      /\ f2[f] = r /\ \A g \in Flows \ {f} : f2[g] = fl[g]
  BY HandedParts
<1>2. r.reply = "none" /\ r.io = "send"
  BY DEF Handable, Shape, Brief
<1> HIDE DEF f2
<1>3. Awaited(f2, w)
  BY <1>1, <1>2, WorldFacts DEF World, Awaited
<1>4. OneReady(f2)
  BY <1>1, <1>2 DEF World, OneReady, Ready
<1>5. World(f2, w)
  BY <1>1, <1>3, <1>4 DEF World
<1> QED BY <1>5 DEF f2

\* The pending wait is settled.
LEMMA SettledWorld ==
    ASSUME NEW fl, NEW w, World(fl, w), NEW f \in Flows, w.flow = f, \A g \in Flows : ~Ready(fl[g]),
           NEW r \in FlowRecords,
           r.kind = fl[f].kind, r.at = fl[f].at, r.board = fl[f].board, r.cmd = fl[f].cmd,
           r.io = fl[f].io, r.ahead = fl[f].ahead, r.reply \in {"got", "timeout"},
           r.valid = fl[f].valid,
           fl[f].misled => r.misled, r.io = "send" /\ r.reply = "got" => r.misled
    PROVE  World([fl EXCEPT ![f] = r], NoWait)
<1> DEFINE f2 == [fl EXCEPT ![f] = r]
<1>1. /\ fl \in [Flows -> FlowRecords]
      /\ \A g \in Flows : Shape(fl[g])
      /\ \A g \in Flows : fl[g].reply = "pending" <=> g = f
  BY WorldFacts
<1>2. f2 \in [Flows -> FlowRecords] /\ f2[f] = r /\ \A g \in Flows \ {f} : f2[g] = fl[g]
  BY <1>1
<1> HIDE DEF f2
<1>3. Typed(f2)
  <2>1. Shape(r)
    BY <1>1 DEF Shape
  <2> QED BY <1>1, <1>2, <2>1 DEF Typed
<1>4. Awaited(f2, NoWait)
  BY <1>1, <1>2, Numbers DEF Awaited, NoWait
<1>5. OneAuto(f2) /\ InLine(f2)
  BY <1>2, SameQueue DEF World, OneAuto
<1>6. OneReady(f2)
  BY <1>1, <1>2 DEF OneReady, Ready
<1>7. NoneBetween(f2)
  BY <1>1, <1>2 DEF World, NoneBetween, Brief
<1>8. World(f2, NoWait)
  BY <1>3, <1>4, <1>5, <1>6, <1>7 DEF World
<1> QED BY <1>8 DEF f2

-----------------------------------------------------------------------------
(* Who has the page.                                                        *)

LEMMA SameKindsOwned ==
    ASSUME Owned(flow, page, loose), NEW f2, NEW p,
           \A g \in Flows : f2[g].kind = flow[g].kind, p.busy = page.busy, p.auto = page.auto
    PROVE  Owned(f2, p, loose)
<1>1. Running(f2) = Running(flow)
  BY DEF Running
<1> QED BY <1>1 DEF Owned

\* A flow ends, and gives the page back.
LEMMA EndedOwned ==
    ASSUME Owned(flow, page, loose), OneAuto(flow), NEW f \in Flows,
           flow[f].kind \notin {"none", "attach"},
           NEW f2, f2[f].kind = "none", \A g \in Flows \ {f} : f2[g].kind = flow[g].kind,
           NEW p, p.busy = FALSE, p.auto <=> page.auto /\ flow[f].kind # "auto"
    PROVE  /\ Owned(f2, p, loose)
           /\ Running(f2) \subseteq loose \cap Running(flow)
<1>1. f \in Running(flow) /\ Running(f2) = Running(flow) \ {f}
  BY DEF Running
<1>2. Running(f2) \subseteq loose
  BY <1>1 DEF Owned
<1>3. p.auto <=> \E g \in Flows : f2[g].kind = "auto"
  BY DEF Owned, OneAuto
<1> QED BY <1>1, <1>2, <1>3 DEF Owned

\* Whoever loses the page is loose.
LEMMA LoosenedOwned ==
    ASSUME NEW fl, NEW p, NEW lost \in BOOLEAN,
           p.busy => Running(fl) # {},
           p.auto <=> \E g \in Flows : fl[g].kind = "auto",
           ~p.busy => lost \/ Running(fl) \subseteq loose \cap Running(flow)
    PROVE  Owned(fl, p, Loosened(fl, lost)) /\ Loosened(fl, lost) \subseteq Flows
<1>1. Running(fl) \subseteq Flows
  BY DEF Running
<1>2. CASE lost \/ \E g, h \in Running(fl) : g # h
  BY <1>1, <1>2 DEF Loosened, Owned
<1>3. CASE ~lost /\ \A g, h \in Running(fl) : g = h
  BY <1>1, <1>3 DEF Loosened, Owned
<1> QED BY <1>2, <1>3

-----------------------------------------------------------------------------
(* What the inbox says.                                                     *)

\* A flow that is not in its script, or that still is where it was in it.
Subdued(r, s) ==
    \/ s.at # "script"
    \/ /\ r.at = "script" /\ s.cmd = r.cmd /\ s.dev = r.dev /\ s.misled = r.misled
       /\ s.io = r.io /\ s.event = r.event
       /\ s.reply \in {r.reply, "cancelled", "timeout"}
       /\ s.valid => r.valid

LEMMA SubduedKnows ==
    ASSUME NEW r, NEW s, NEW i, NEW m, Knows(r, i, m), Subdued(r, s)
    PROVE  Knows(s, i, m)
<1>1. CASE s.at # "script"
  BY <1>1 DEF Knows
<1>2. CASE s.at = "script"
  <2>1. Expects(s) = Expects(r)
    BY <1>2 DEF Subdued, Expects
  <2>2. Confirmed(s, i) <=> Confirmed(r, i)
    BY <2>1 DEF Confirmed
  <2> QED BY <1>2, <2>2 DEF Subdued, Knows
<1> QED BY <1>1, <1>2

LEMMA SubduedAcks ==
    ASSUME NEW fl, NEW f2, NEW l, NEW l2, NEW i, NEW m, Acks(fl, l, i, m), l2.board = l.board,
           \A g \in Flows : Subdued(fl[g], f2[g]) /\ (f2[g].valid => l.board # None)
    PROVE  Acks(f2, l2, i, m)
BY SubduedKnows DEF Acks

LEMMA LostAcks ==
    ASSUME NEW fl, NEW m, \A g \in Flows : ~fl[g].valid
    PROVE  Acks(fl, NoLink, <<>>, m)
BY DEF Acks, NoLink

\* A flow is told, freed from its link, or moves up: it is where it was.
LEMMA UnboundSubdued ==
    ASSUME NEW fl \in [Flows -> FlowRecords], NEW g \in Flows
    PROVE  Subdued(fl[g], Unbound(fl)[g]) /\ ~Unbound(fl)[g].valid
           /\ Unbound(fl)[g].kind = fl[g].kind
<1> DEFINE r == fl[g]
           s == Unbound(fl)[g]
<1>1. r \in FlowRecords /\ s = [r EXCEPT !.valid = FALSE, !.same = FALSE]
  BY DEF Unbound
<1> HIDE DEF r, s
<1>2. Subdued(r, s) /\ ~s.valid /\ s.kind = r.kind
  BY <1>1 DEF FlowRecords, Subdued
<1> QED BY <1>2 DEF r, s

LEMMA CancelledSubdued ==
    ASSUME NEW r, NEW s, CancelledRecord(r, s)
    PROVE  Subdued(r, s) /\ (s.valid <=> r.valid) /\ s.kind = r.kind
BY DEF CancelledRecord, Subdued

-----------------------------------------------------------------------------
(* The whole state.                                                         *)

Pages == [step : {"connect", "write", "verify"}, busy : BOOLEAN,
          device : Devices, filed : SUBSET Devices, connected : BOOLEAN,
          detected : Answers, confirmed : BOOLEAN, rebootSent : BOOLEAN, auto : BOOLEAN]
Waits == [flow : Flows \cup {None}, t : {"none", "prov", "provwr", "provdone"}, n : 0..NumValues]
Links == [board : Boards \cup {None}, via : Vias \cup {"none"}, read : BOOLEAN]
Reports == [device : Devices \cup {None},
            status : {"none", "attempted", "failed", "succeeded", "verified"}]

Rest ==
    /\ page \in Pages /\ wait \in Waits /\ link \in Links /\ inbox \in Seq(Events)
    /\ reported \in Reports /\ loose \subseteq Flows

Good ==
    /\ Rest /\ World(flow, wait) /\ Owned(flow, page, loose)
    /\ Acks(flow, link, inbox, mfg)

Memory ==
    /\ mfg \in [Boards -> [id : Ids, parts : [Values -> Devices \cup {None}]]]
    /\ starts \in 0..MaxStarts /\ faults \in 0..MaxFaults

LEMMA GoodInvariant == IInv <=> Good /\ Memory
<1>1. TypeOK <=> Rest /\ Memory /\ flow \in [Flows -> FlowRecords]
  BY DEF TypeOK, Rest, Memory, Pages, Waits, Links, Reports
<1>2. World(flow, wait) => flow \in [Flows -> FlowRecords]
  BY WorldFacts
<1> QED BY <1>1, <1>2 DEF IInv, Good

LEMMA NoEvents == NoEvent \in Events /\ NoWait \in Waits /\ NoLink \in Links
BY Numbers DEF NoEvent, Events, Answers, NoWait, Waits, NoLink, Links

\* The link is lost under the flows fl.
LEMMA LinkLostGood ==
    ASSUME Good, NEW fl, NEW p \in Pages, NEW w \in Waits, World(fl, w),
           \A g \in Flows : ~fl[g].valid,
           p.busy => Running(fl) # {},
           p.auto <=> \E g \in Flows : fl[g].kind = "auto",
           ~p.busy => Running(fl) \subseteq loose \cap Running(flow),
           LinkLost(fl, p, w)
    PROVE  Good'
<1> DEFINE frees == Up /\ ~(p.auto /\ p.rebootSent) /\ p.step = "write" /\ ~p.rebootSent
<1>1. /\ link' = NoLink /\ inbox' = <<>>
      /\ page' = [p EXCEPT !.connected = p.connected /\ ~Up, !.busy = p.busy /\ ~frees]
      /\ wait' = IF frees THEN NoWait ELSE w
      /\ flow' = IF frees THEN Cancelled(fl, w) ELSE fl
      /\ reported' = IF frees THEN Told(p.device, "failed") ELSE reported
      /\ loose' = Loosened(fl, frees)
  BY DEF LinkLost
<1>2. frees \in BOOLEAN
  OBVIOUS
<1>3. Up \in BOOLEAN
  BY DEF Up
<1> HIDE DEF frees
<1>4. page' \in Pages /\ page'.busy = (p.busy /\ ~frees) /\ page'.auto = p.auto
  BY <1>1, <1>2, <1>3 DEF Pages
<1>5. reported' \in Reports
  BY <1>1 DEF Good, Rest, Pages, Reports, Told
<1>6. World(flow', wait') /\ \A g \in Flows : flow'[g].kind = fl[g].kind /\ ~flow'[g].valid
  <2>1. w.flow \in Flows \cup {None}
    BY DEF Waits
  <2>2. CASE frees
    BY <1>1, <2>1, <2>2, CancelledWorld DEF CancelledRecord
  <2>3. CASE ~frees
    BY <1>1, <2>3
  <2> QED BY <2>2, <2>3
<1>7. Running(flow') = Running(fl) /\ ((\E g \in Flows : flow'[g].kind = "auto") <=> p.auto)
  BY <1>6 DEF Running
<1>8. frees => ~page'.busy
  BY <1>4
<1>9. Owned(flow', page', loose') /\ loose' \subseteq Flows
  <2>1. Loosened(flow', frees) = Loosened(fl, frees)
    BY <1>7 DEF Loosened
  <2> QED BY <1>1, <1>2, <1>4, <1>7, <1>8, <2>1, LoosenedOwned
<1>10. Acks(flow', link', inbox', mfg')
  BY <1>1, <1>6, LostAcks
<1>11. wait' \in Waits /\ link' \in Links /\ inbox' \in Seq(Events)
  BY <1>1, NoEvents
<1> QED BY <1>4, <1>5, <1>6, <1>9, <1>10, <1>11 DEF Good, Rest

-----------------------------------------------------------------------------
(* How a flow goes on, or ends.                                             *)

LEMMA CalmNoFlow == Calm(NoFlow) /\ NoFlow.kind = "none" /\ ~NoFlow.valid /\ NoFlow.at = "idle"
<1>1. NoFlow \in FlowRecords
  BY NoEvents, Numbers DEF NoFlow, FlowRecords, Kinds, Stages, StatusChecks
<1>2. Shape(NoFlow)
  BY DEF Shape, NoFlow, StatusChecks
<1> QED BY <1>1, <1>2 DEF Calm, NoFlow

\* The stages at which a flow of kind k awaits nothing of a board.
CalmStages(k) ==
    CASE k = "auto" -> Stages \ (StatusChecks \cup {"idle", "script", "settling"})
      [] k = "write" -> {"attempting", "fetching", "closing"}
      [] k = "verify" -> {"linking", "closing"}
      [] k = "connect" -> {"linking"}
      [] OTHER -> {}

\* r is flow f after its await, at a stage where it awaits nothing of a board.
GoesOn(f, stage, r) ==
    /\ Calm(r) /\ r.at = stage /\ r.kind = flow[f].kind /\ ~r.valid
    /\ r.io = "none" /\ r.reply = "none"

LEMMA AtCalm ==
    ASSUME NEW f \in Flows, flow[f] \in FlowRecords, Shape(flow[f]),
           NEW stage \in CalmStages(flow[f].kind), flow[f].kind \in {"auto", "write", "verify", "connect"}
    PROVE  /\ GoesOn(f, stage, At(f, stage))
           /\ GoesOn(f, stage, [At(f, stage) EXCEPT !.failed = TRUE])
           /\ page \in Pages => GoesOn(f, stage, [At(f, stage) EXCEPT !.dev = page.device])
<1> DEFINE r == At(f, stage)
           a == [r EXCEPT !.failed = TRUE]
           b == [r EXCEPT !.dev = page.device]
<1>1. /\ stage \in Stages /\ stage \notin StatusChecks \cup {"script", "settling", "idle"}
      /\ flow[f].kind = "write" => stage \in {"attempting", "fetching", "closing"}
      /\ flow[f].kind = "verify" => stage \in {"linking", "closing"}
      /\ flow[f].kind = "connect" => stage = "linking"
  BY DEF CalmStages, Stages, StatusChecks
<1>2. r = [flow[f] EXCEPT !.at = stage, !.cmd = 0, !.io = "none", !.reply = "none",
              !.event = NoEvent, !.ahead = 0, !.valid = FALSE, !.misled = FALSE]
  BY DEF At
<1>3. flow[f].kind \notin {"none", "write"} => flow[f].board \in Boards
  BY DEF Shape
<1> HIDE DEF r
<1>0. 0 \in 0..Reboot /\ 0 \in 0..Cardinality(Flows) /\ NoEvent \in Events
  BY NoEvents, Numbers
<1>4. /\ r \in FlowRecords /\ r.at = stage /\ r.kind = flow[f].kind /\ r.board = flow[f].board
      /\ r.io = "none" /\ r.reply = "none" /\ r.ahead = 0 /\ ~r.valid
  BY <1>0, <1>1, <1>2 DEF FlowRecords
<1>5. /\ a \in FlowRecords /\ a.at = stage /\ a.kind = flow[f].kind /\ a.board = flow[f].board
      /\ a.io = "none" /\ a.reply = "none" /\ a.ahead = 0 /\ ~a.valid
  BY <1>4 DEF FlowRecords
<1>6. page \in Pages =>
      /\ b \in FlowRecords /\ b.at = stage /\ b.kind = flow[f].kind /\ b.board = flow[f].board
      /\ b.io = "none" /\ b.reply = "none" /\ b.ahead = 0 /\ ~b.valid
  BY <1>4 DEF FlowRecords, Pages
<1> HIDE DEF a, b
<1>7. ASSUME NEW s \in {r, a, b}, s \in FlowRecords, s.at = stage, s.kind = flow[f].kind, s.board = flow[f].board,
             s.io = "none", s.reply = "none", s.ahead = 0, ~s.valid
      PROVE  GoesOn(f, stage, s)
  <2>1. Shape(s)
    BY <1>1, <1>3, <1>7 DEF Shape
  <2> QED BY <1>7, <2>1 DEF GoesOn, Calm
<1> QED BY <1>4, <1>5, <1>6, <1>7 DEF r, a, b

\* What a handler has made of the flows before it comes to its own.
Handled(f, fl, w) ==
    /\ World(fl, w) /\ w \in Waits
    /\ fl[f].io # "send" /\ fl[f].reply # "pending"
    /\ \A g \in Flows : fl[g].kind = flow[g].kind
    /\ Acks(fl, link, inbox, mfg')

LEMMA ReplacedFlow ==
    ASSUME NEW f \in Flows, NEW fl, NEW w, World(fl, w), NEW r
    PROVE  [fl EXCEPT ![f] = r][f] = r /\ \A g \in Flows \ {f} : [fl EXCEPT ![f] = r][g] = fl[g]
BY WorldFacts

LEMMA HandledCalm ==
    ASSUME NEW f \in Flows, NEW fl, NEW w, Handled(f, fl, w),
           NEW r, Calm(r), r.kind \in {flow[f].kind, "none"}, ~r.valid
    PROVE  LET f2 == [fl EXCEPT ![f] = r] IN
           /\ World(f2, w) /\ Acks(f2, link, inbox, mfg')
           /\ f2[f] = r /\ \A g \in Flows \ {f} : f2[g] = fl[g]
           /\ \A g \in Flows \ {f} : f2[g].kind = flow[g].kind
<1> DEFINE f2 == [fl EXCEPT ![f] = r]
<1>1. World(fl, w) /\ fl[f].kind = flow[f].kind
  BY DEF Handled
<1>2. World(f2, w)
  BY <1>1, CalmWorld DEF Handled
<1>3. f2[f] = r /\ \A g \in Flows \ {f} : f2[g] = fl[g]
  BY <1>1, ReplacedFlow
<1> HIDE DEF f2
<1>4. \A g \in Flows : Subdued(fl[g], f2[g]) /\ (f2[g].valid => link.board # None)
  <2>1. r.at # "script"
    BY DEF Calm, Shape
  <2>2. \A g \in Flows : Subdued(fl[g], fl[g]) /\ (fl[g].valid => link.board # None)
    BY DEF Subdued, Handled, Acks
  <2> QED BY <1>3, <2>1, <2>2 DEF Subdued
<1>5. Acks(f2, link, inbox, mfg')
  BY <1>4, SubduedAcks DEF Handled
<1> QED BY <1>2, <1>3, <1>5 DEF f2, Handled

\* Flow f becomes r, and the link stays.
Becomes(f, fl, w, r) ==
    /\ flow' = [fl EXCEPT ![f] = r] /\ wait' = w
    /\ page' \in Pages /\ reported' \in Reports
    /\ link' \in Links /\ link'.board = link.board /\ UNCHANGED <<inbox, loose>>

\* The flow goes on, and the page keeps its owner.
LEMMA GoesOnGood ==
    ASSUME Good, NEW f \in Flows, NEW fl, NEW w, Handled(f, fl, w),
           NEW r, NEW stage, GoesOn(f, stage, r), Becomes(f, fl, w, r),
           page'.busy = page.busy, page'.auto = page.auto
    PROVE  Good'
<1> DEFINE f2 == [fl EXCEPT ![f] = r]
<1>0. Calm(r) /\ r.kind = flow[f].kind /\ ~r.valid
  BY DEF GoesOn
<1>1. /\ World(f2, w) /\ Acks(f2, link, inbox, mfg')
      /\ f2[f] = r /\ \A g \in Flows \ {f} : f2[g].kind = flow[g].kind
  BY <1>0, HandledCalm
<1> HIDE DEF f2
<1>4. /\ World(flow', w) /\ Acks(flow', link, inbox, mfg')
      /\ \A g \in Flows : flow'[g].kind = flow[g].kind
  BY <1>0, <1>1 DEF f2, Becomes
<1>2. Acks(flow', link', inbox, mfg')
  BY <1>4 DEF Acks, Becomes
<1>3. Owned(flow', page', loose)
  BY <1>4, SameKindsOwned DEF Good
<1> QED BY <1>4, <1>2, <1>3 DEF Good, Rest, Handled, Becomes

\* The flow ends, and gives the page back.
LEMMA EndsGood ==
    ASSUME Good, NEW f \in Flows, NEW fl, NEW w, Handled(f, fl, w),
           flow[f].kind \notin {"none", "attach"}, Becomes(f, fl, w, NoFlow),
           page'.busy = FALSE, page'.auto <=> page.auto /\ flow[f].kind # "auto"
    PROVE  Good'
<1> DEFINE f2 == [fl EXCEPT ![f] = NoFlow]
<1>0. /\ World(f2, w) /\ Acks(f2, link, inbox, mfg')
      /\ f2[f] = NoFlow /\ \A g \in Flows \ {f} : f2[g].kind = flow[g].kind
  BY HandledCalm, CalmNoFlow
<1> HIDE DEF f2
<1>1. /\ World(flow', w) /\ Acks(flow', link, inbox, mfg')
      /\ flow'[f] = NoFlow /\ \A g \in Flows \ {f} : flow'[g].kind = flow[g].kind
  BY <1>0 DEF f2, Becomes
<1>2. Acks(flow', link', inbox, mfg')
  BY <1>1 DEF Acks, Becomes
<1>3. Owned(flow', page', loose)
  BY <1>1, CalmNoFlow, EndedOwned DEF Good, World
<1> QED BY <1>1, <1>2, <1>3 DEF Good, Rest, Handled, Becomes

LEMMA EndAutoGood ==
    ASSUME Good, NEW f \in Flows, NEW fl, NEW w, Handled(f, fl, w), flow[f].kind = "auto",
           NEW failed, EndAuto(f, fl, w, failed)
    PROVE  Good'
<1> DEFINE p == [page EXCEPT !.busy = FALSE, !.auto = FALSE]
           others == [fl EXCEPT ![f] = NoFlow]
<1>1. p \in Pages /\ p.busy = FALSE /\ p.auto = FALSE
  BY DEF Good, Rest, Pages
<1>2. /\ World(others, w) /\ Acks(others, link, inbox, mfg')
      /\ others[f] = NoFlow /\ \A g \in Flows \ {f} : others[g].kind = flow[g].kind
  BY HandledCalm, CalmNoFlow
<1>3. Owned(others, p, loose) /\ Running(others) \subseteq loose \cap Running(flow)
  BY <1>1, <1>2, CalmNoFlow, EndedOwned DEF Good, World
<1>4. CASE failed /\ flow[f].via = "ble" /\ link.via # "serial"
  <2> DEFINE fl2 == Unbound(others)
  <2>1. LinkLost(fl2, p, w)
    BY <1>4 DEF EndAuto
  <2>2. World(fl2, w) /\ \A g \in Flows : ~fl2[g].valid /\ fl2[g].kind = others[g].kind
    BY <1>2, UnboundWorld
  <2> HIDE DEF fl2
  <2>3. Running(fl2) = Running(others)
    BY <2>2 DEF Running
  <2>4. p.auto <=> \E g \in Flows : fl2[g].kind = "auto"
    BY <1>3, <2>2 DEF Owned
  <2> HIDE DEF p, others
  <2> QED BY <1>1, <1>3, <2>1, <2>2, <2>3, <2>4, LinkLostGood DEF Handled
<1>5. CASE ~(failed /\ flow[f].via = "ble" /\ link.via # "serial")
  <2>1. /\ page' = p /\ wait' = w /\ UNCHANGED <<link, inbox, reported, loose>>
        /\ flow' = IF failed /\ flow[f].via = "ble" THEN Unbound(others) ELSE others
    BY <1>5 DEF EndAuto
  <2> HIDE DEF p, others
  <2>2. /\ World(flow', w) /\ Acks(flow', link, inbox, mfg')
        /\ \A g \in Flows : flow'[g].kind = others[g].kind
    <3>1. CASE failed /\ flow[f].via = "ble"
      <4>1. /\ flow' = Unbound(others) /\ others \in [Flows -> FlowRecords]
        BY <1>2, <2>1, <3>1, WorldFacts
      <4>2. World(flow', w) /\ \A g \in Flows : ~flow'[g].valid /\ flow'[g].kind = others[g].kind
        BY <1>2, <4>1, UnboundWorld
      <4>3. \A g \in Flows : Subdued(others[g], flow'[g])
        BY <4>1, UnboundSubdued
      <4> QED BY <1>2, <4>2, <4>3, SubduedAcks
    <3>2. CASE ~(failed /\ flow[f].via = "ble")
      BY <1>2, <2>1, <3>2
    <3> QED BY <3>1, <3>2
  <2>3. Running(flow') = Running(others)
    BY <2>2 DEF Running
  <2>4. Owned(flow', p, loose)
    <3>1. Running(others) \subseteq loose
      BY <1>3
    <3>2. p.auto <=> \E g \in Flows : flow'[g].kind = "auto"
      BY <1>3, <2>2 DEF Owned
    <3> QED BY <1>1, <2>3, <3>1, <3>2 DEF Owned
  <2> QED BY <1>1, <2>1, <2>2, <2>4 DEF Good, Rest, Handled
<1> QED BY <1>4, <1>5

LEMMA FailGood ==
    ASSUME Good, NEW f \in Flows, NEW fl, NEW w, Handled(f, fl, w),
           flow[f].kind \notin {"none", "attach"}, Fail(f, fl, w)
    PROVE  Good'
<1>1. flow[f] \in FlowRecords /\ Shape(flow[f]) /\ page \in Pages
  BY WorldFacts DEF Good, Rest
<1>2. CASE flow[f].kind \in {"connect", "verify"}
  <2>1. /\ page' = [page EXCEPT !.busy = FALSE] /\ flow' = [fl EXCEPT ![f] = NoFlow] /\ wait' = w
        /\ UNCHANGED <<link, inbox, reported, loose>>
    BY <1>2 DEF Fail
  <2>2. page' \in Pages /\ page'.busy = FALSE /\ page'.auto = page.auto
    BY <1>1, <2>1 DEF Pages
  <2> QED BY <1>2, <2>1, <2>2, EndsGood DEF Good, Rest, Becomes
<1>3. CASE flow[f].kind = "auto" /\ flow[f].at = "checking"
  <2>1. flow' = [fl EXCEPT ![f] = At(f, "verifying")] /\ wait' = w
        /\ UNCHANGED <<page, link, inbox, reported, loose>>
    BY <1>3 DEF Fail
  <2>2. "verifying" \in CalmStages(flow[f].kind)
    BY <1>3 DEF CalmStages, Stages, StatusChecks
  <2>3. GoesOn(f, "verifying", At(f, "verifying"))
    BY <1>1, <1>3, <2>2, AtCalm
  <2> QED BY <1>1, <2>1, <2>3, GoesOnGood DEF Good, Rest, Becomes
<1>4. CASE flow[f].kind = "auto" /\ flow[f].at \in {"status", "retry", "cloud"}
  <2>1. EndAuto(f, fl, w, TRUE)
    BY <1>4 DEF Fail
  <2> QED BY <1>4, <2>1, EndAutoGood
<1>5. CASE /\ flow[f].kind \notin {"connect", "verify"}
           /\ ~(flow[f].kind = "auto" /\ flow[f].at \in {"checking", "status", "retry", "cloud"})
  <2>1. /\ Report("failed") /\ wait' = w
        /\ flow' = [fl EXCEPT ![f] = [At(f, "closing") EXCEPT !.failed = TRUE]]
        /\ UNCHANGED <<page, link, inbox, loose>>
    BY <1>5 DEF Fail
  <2>2. flow[f].kind \in {"auto", "write"}
    BY <1>1, <1>5 DEF FlowRecords, Kinds
  <2>3. "closing" \in CalmStages(flow[f].kind)
    BY <2>2 DEF CalmStages, Stages, StatusChecks
  <2>4. GoesOn(f, "closing", [At(f, "closing") EXCEPT !.failed = TRUE])
    BY <1>1, <2>2, <2>3, AtCalm
  <2>5. reported' \in Reports
    BY <1>1, <2>1 DEF Report, Told, Reports, Pages
  <2> QED BY <1>1, <2>1, <2>4, <2>5, GoesOnGood DEF Good, Rest, Becomes
<1> QED BY <1>2, <1>3, <1>4, <1>5

-----------------------------------------------------------------------------
(* How a line is handed over.                                               *)

LEMMA AskStatusWorld ==
    ASSUME NEW fl, World(fl, wait), wait \in Waits, NEW f \in Flows, NEW p \in Pages,
           fl[f].io # "send", \A g \in Flows \ {f} : ~Ready(fl[g]),
           NEW at \in StatusChecks,
           fl[f].kind \in {"auto", "connect", "verify"}, fl[f].kind = "auto" \/ at = "status",
           Senders(fl) = Senders(flow), AskStatus(f, fl, p, at)
    PROVE  /\ World(flow', wait') /\ wait' \in Waits
           /\ page' \in Pages /\ page'.busy = p.busy /\ page'.auto = p.auto
           /\ flow'[f].kind = fl[f].kind /\ flow'[f].at = at
           /\ flow'[f].valid => link'.board # None
           /\ \A g \in Flows \ {f} : CancelledRecord(fl[g], flow'[g])
<1> DEFINE c == Cancelled(fl, wait)
           b == link'.board # None
           r == [fl[f] EXCEPT !.at = at, !.cmd = 0, !.io = "send", !.reply = "pending",
                     !.ahead = QueuedWrites, !.valid = b]
           v == [flow |-> f, t |-> "prov", n |-> 0]
<1>1. page' = [p EXCEPT !.detected = None] /\ wait' = v /\ flow' = [c EXCEPT ![f] = r]
  BY DEF AskStatus, Superseded
<1>2. World(c, NoWait) /\ \A g \in Flows : CancelledRecord(fl[g], c[g])
  BY CancelledWorld DEF Waits
<1>3. page' \in Pages /\ page'.busy = p.busy /\ page'.auto = p.auto
  BY <1>1 DEF Pages, Answers
<1>4. v \in Waits /\ v.flow = f /\ v.t = "prov" /\ v.n = 0
  BY Numbers DEF Waits
<1>5. fl[f] \in FlowRecords /\ Shape(fl[f]) /\ World(fl, wait)
  BY WorldFacts
<1>6. /\ QueuedWrites = Cardinality(Senders(fl)) /\ QueuedWrites \in 0..Cardinality(Flows)
      /\ 0 \in 0..Reboot /\ b \in BOOLEAN /\ at \in Stages
  <2>1. QueuedWrites = Cardinality(Senders(flow))
    BY DEF QueuedWrites, Senders
  <2>2. Cardinality(Senders(flow)) \in 0..Cardinality(Flows)
    BY Numbers, SendersCount
  <2>3. 0 \in 0..Reboot
    BY Numbers
  <2>4. at \in Stages
    BY DEF Stages
  <2> QED BY <2>1, <2>2, <2>3, <2>4
<1> HIDE DEF b
<1>7. /\ r \in FlowRecords /\ r.kind = fl[f].kind /\ r.board = fl[f].board /\ r.at = at /\ r.cmd = 0
      /\ r.io = "send" /\ r.reply = "pending" /\ r.ahead = QueuedWrites /\ r.valid = b
  <2>1. r \in FlowRecords
    BY <1>5, <1>6 DEF FlowRecords
  <2>2. /\ r.kind = fl[f].kind /\ r.board = fl[f].board /\ r.at = at /\ r.cmd = 0
        /\ r.io = "send" /\ r.reply = "pending" /\ r.ahead = QueuedWrites /\ r.valid = b
    BY <1>5 DEF FlowRecords
  <2> QED BY <2>1, <2>2
<1> HIDE DEF r, c, v
<1>8. Shape(r)
  <2>1. r.kind \in {"auto", "connect", "verify"} /\ r.board \in Boards
    BY <1>5, <1>7 DEF Shape
  <2>2. r.at \in {"status", "retry", "recheck", "checking"}
    BY <1>7 DEF StatusChecks
  <2> QED BY <1>7, <2>1, <2>2 DEF Shape, StatusChecks
<1>9. Handable(c, f, r)
  <2>1. Senders(c) = Senders(fl)
    BY <1>2 DEF Senders, CancelledRecord
  <2>2. \A g \in Flows \ {f} : c[g].io = "wait" => c[g].reply # "got"
    BY <1>2 DEF Ready, CancelledRecord
  <2>3. r.kind = "auto" => \A g \in Flows \ {f} : c[g].kind # "auto"
    BY <1>2, <1>5, <1>7 DEF World, OneAuto, CancelledRecord
  <2> QED BY <1>2, <1>6, <1>7, <1>8, <2>1, <2>2, <2>3 DEF Handable, CancelledRecord
<1>10. <<v.t, v.n>> = Expects(r)
  BY <1>4, <1>7 DEF Expects, StatusChecks
<1>11. World([c EXCEPT ![f] = r], v)
  BY <1>2, <1>4, <1>7, <1>9, <1>10, HandedWorld
<1>12. flow'[f] = r /\ \A g \in Flows \ {f} : flow'[g] = c[g]
  BY <1>1, <1>2, ReplacedFlow
<1> QED BY <1>1, <1>2, <1>3, <1>4, <1>7, <1>11, <1>12 DEF b

\* The board is asked for its status on the link there is.
LEMMA AskStatusGood ==
    ASSUME Good, NEW f \in Flows, NEW p \in Pages, p.busy = page.busy, p.auto = page.auto,
           flow[f].io # "send", \A g \in Flows \ {f} : ~Ready(flow[g]),
           NEW at \in StatusChecks, flow[f].kind = "auto", AskStatus(f, flow, p, at),
           UNCHANGED <<link, inbox, mfg, reported, loose>>
    PROVE  Good'
<1>1. /\ World(flow', wait') /\ wait' \in Waits
      /\ page' \in Pages /\ page'.busy = p.busy /\ page'.auto = p.auto
      /\ flow'[f].kind = flow[f].kind /\ flow'[f].at = at
      /\ flow'[f].valid => link'.board # None
      /\ \A g \in Flows \ {f} : CancelledRecord(flow[g], flow'[g])
  BY AskStatusWorld DEF Good, Rest
<1>2. \A g \in Flows : flow'[g].kind = flow[g].kind
  BY <1>1 DEF CancelledRecord
<1>3. at # "script"
  BY DEF StatusChecks
<1>4. \A g \in Flows : Subdued(flow[g], flow'[g]) /\ (flow'[g].valid => link.board # None)
  <2>1. ASSUME NEW g \in Flows \ {f}
        PROVE  Subdued(flow[g], flow'[g]) /\ (flow'[g].valid => link.board # None)
    <3>1. Subdued(flow[g], flow'[g]) /\ (flow'[g].valid => flow[g].valid)
      BY <1>1, CancelledSubdued
    <3> QED BY <3>1 DEF Good, Acks
  <2> QED BY <1>1, <1>3, <2>1 DEF Subdued
<1>5. Acks(flow', link', inbox', mfg')
  BY <1>4, SubduedAcks DEF Good
<1>6. Owned(flow', page', loose')
  BY <1>1, <1>2, SameKindsOwned DEF Good
<1> QED BY <1>1, <1>5, <1>6 DEF Good, Rest

\* A command of the script is handed over.
LEMMA SendNextWorld ==
    ASSUME World(flow, wait), Rest, NEW f \in Flows,
           flow[f].io # "send", flow[f].reply # "pending", flow[f].kind \in {"write", "auto"},
           \A g \in Flows \ {f} : ~Ready(flow[g]),
           NEW n \in Erase..Reboot,
           n > 2 /\ ~flow[f].misled => \A g \in Senders(flow) : Brief(flow[g]),
           SendNext(f, n)
    PROVE  /\ World(flow', wait') /\ wait' \in Waits
           /\ page' \in Pages /\ page'.busy = page.busy /\ page'.auto = page.auto
           /\ flow'[f].kind = flow[f].kind /\ flow'[f].at = "script" /\ flow'[f].cmd = n
           /\ flow'[f].dev = flow[f].dev /\ flow'[f].misled = flow[f].misled
           /\ flow'[f].io = "send" /\ (flow'[f].valid <=> Up)
           /\ \A g \in Flows \ {f} : CancelledRecord(flow[g], flow'[g]) \/ flow'[g] = flow[g]
<1> DEFINE c == Cancelled(flow, wait)
           q == IF Awaits(n) THEN "pending" ELSE "none"
           r == [flow[f] EXCEPT !.at = "script", !.cmd = n, !.io = "send",
                     !.ahead = QueuedWrites, !.valid = Up, !.event = NoEvent, !.reply = q]
           v == [flow |-> f, t |-> IF n = Finalize THEN "provdone" ELSE "provwr",
                 n |-> IF n = Finalize THEN 0 ELSE n - 1]
<1>1. /\ page' = [page EXCEPT !.rebootSent = page.rebootSent \/ n = Reboot]
      /\ Awaits(n) => wait' = v /\ flow' = [c EXCEPT ![f] = r]
      /\ ~Awaits(n) => wait' = wait /\ flow' = [flow EXCEPT ![f] = r]
  BY DEF SendNext, Superseded
<1>2. World(c, NoWait) /\ \A g \in Flows : CancelledRecord(flow[g], c[g])
  BY CancelledWorld DEF Waits, Rest
<1>3. page' \in Pages /\ page'.busy = page.busy /\ page'.auto = page.auto
  BY <1>1 DEF Pages, Rest
<1>4. /\ NumValues \in Nat /\ Erase = 1 /\ Finalize = NumValues + 2 /\ Reboot = NumValues + 3
      /\ n \in Int /\ n >= 1 /\ n <= Reboot
  BY Numbers
<1>5. Awaits(n) <=> n # Erase /\ n # Reboot
  BY DEF Awaits
<1>6. Awaits(n) => v \in Waits
  BY <1>4, <1>5 DEF Waits
<1>7. v.flow = f /\ <<v.t, v.n>> = IF n = Finalize THEN <<"provdone", 0>> ELSE <<"provwr", n - 1>>
  OBVIOUS
<1>8. flow[f] \in FlowRecords /\ Shape(flow[f])
  BY WorldFacts
<1>9. /\ QueuedWrites = Cardinality(Senders(flow)) /\ QueuedWrites \in 0..Cardinality(Flows)
      /\ n \in 0..Reboot /\ Up \in BOOLEAN /\ "script" \in Stages /\ NoEvent \in Events
  BY <1>4, Numbers, SendersCount, NoEvents DEF QueuedWrites, Senders, Stages, Up
<1>10. /\ r \in FlowRecords /\ r.kind = flow[f].kind /\ r.board = flow[f].board /\ r.at = "script"
       /\ r.cmd = n /\ r.io = "send" /\ r.ahead = QueuedWrites /\ r.valid = Up
       /\ r.dev = flow[f].dev /\ r.misled = flow[f].misled
       /\ r.reply = IF Awaits(n) THEN "pending" ELSE "none"
  <2>1. q \in {"pending", "none"}
    OBVIOUS
  <2> HIDE DEF q
  <2>2. r \in FlowRecords
    BY <1>8, <1>9, <2>1 DEF FlowRecords
  <2>3. /\ r \in FlowRecords /\ r.kind = flow[f].kind /\ r.board = flow[f].board /\ r.at = "script"
        /\ r.cmd = n /\ r.io = "send" /\ r.ahead = QueuedWrites /\ r.valid = Up
        /\ r.dev = flow[f].dev /\ r.misled = flow[f].misled /\ r.reply = q
    <3>1. /\ r.kind = flow[f].kind /\ r.board = flow[f].board /\ r.at = "script"
          /\ r.cmd = n /\ r.io = "send" /\ r.ahead = QueuedWrites /\ r.valid = Up
      BY <1>8 DEF FlowRecords
    <3>2. r.dev = flow[f].dev /\ r.misled = flow[f].misled /\ r.reply = q
      BY <1>8 DEF FlowRecords
    <3> QED BY <2>2, <3>1, <3>2
  <2> HIDE DEF r
  <2> QED BY <2>3 DEF q
<1> HIDE DEF r, c, v
<1>11. Shape(r)
  <2>1. r.kind = "auto" => r.board \in Boards
    BY <1>8, <1>10 DEF Shape
  <2>2. r.kind \in {"write", "auto"}
    BY <1>10
  <2> QED BY <1>5, <1>10, <2>1, <2>2 DEF Shape, StatusChecks
<1>12. /\ r.kind = "auto" => \A g \in Flows \ {f} : flow[g].kind # "auto"
       /\ \A g \in Flows \ {f} : flow[g].io = "wait" => flow[g].reply # "got"
  BY <1>10 DEF World, OneAuto, Ready
<1>13. ASSUME Awaits(n) PROVE World([c EXCEPT ![f] = r], v)
  <2>1. Senders(c) = Senders(flow)
    BY <1>2 DEF Senders, CancelledRecord
  <2>2. \A g \in Flows : /\ c[g].kind = flow[g].kind /\ c[g].io = flow[g].io
                         /\ c[g].reply = "got" => flow[g].reply = "got"
                         /\ Brief(c[g]) <=> Brief(flow[g])
    BY <1>2 DEF CancelledRecord, Brief
  <2>3. Handable(c, f, r)
    <3>1. r.cmd > 2 /\ ~r.misled => \A g \in Senders(c) : Brief(c[g])
      BY <1>10, <2>1, <2>2 DEF Senders
    <3> QED BY <1>9, <1>10, <1>11, <1>12, <2>1, <2>2, <3>1 DEF Handable
  <2>4. <<v.t, v.n>> = Expects(r)
    BY <1>7, <1>10 DEF Expects
  <2> QED BY <1>2, <1>7, <1>10, <1>13, <2>3, <2>4, HandedWorld
<1>14. ASSUME ~Awaits(n) PROVE World([flow EXCEPT ![f] = r], wait)
  <2>1. Handable(flow, f, r)
    BY <1>9, <1>10, <1>11, <1>12 DEF Handable
  <2>2. Brief(r)
    BY <1>5, <1>10, <1>14 DEF Brief
  <2> QED BY <2>1, <2>2, BriefWorld
<1>15. World(flow', wait') /\ wait' \in Waits
  BY <1>1, <1>6, <1>13, <1>14 DEF Rest
<1>16. flow'[f] = r /\ \A g \in Flows \ {f} : flow'[g] = IF Awaits(n) THEN c[g] ELSE flow[g]
  <2>1. CASE Awaits(n)
    BY <1>1, <1>2, <2>1, ReplacedFlow
  <2>2. CASE ~Awaits(n)
    <3>1. flow \in [Flows -> FlowRecords]
      BY WorldFacts
    <3> QED BY <1>1, <2>2, <3>1
  <2> QED BY <2>1, <2>2
<1> QED BY <1>2, <1>3, <1>10, <1>15, <1>16

LEMMA SendNextGood ==
    ASSUME Good, NEW f \in Flows,
           flow[f].io # "send", flow[f].reply # "pending", flow[f].kind \in {"write", "auto"},
           \A g \in Flows \ {f} : ~Ready(flow[g]),
           NEW n \in Erase..Reboot,
           n > 2 /\ ~flow[f].misled => \A g \in Senders(flow) : Brief(flow[g]),
           Up /\ ~flow[f].misled => Prefix(mfg[link.board], flow[f].dev, n),
           SendNext(f, n), UNCHANGED <<link, inbox, mfg, reported, loose>>
    PROVE  Good'
<1>1. /\ World(flow', wait') /\ wait' \in Waits
      /\ page' \in Pages /\ page'.busy = page.busy /\ page'.auto = page.auto
      /\ flow'[f].kind = flow[f].kind /\ flow'[f].at = "script" /\ flow'[f].cmd = n
      /\ flow'[f].dev = flow[f].dev /\ flow'[f].misled = flow[f].misled
      /\ flow'[f].io = "send" /\ (flow'[f].valid <=> Up)
      /\ \A g \in Flows \ {f} : CancelledRecord(flow[g], flow'[g]) \/ flow'[g] = flow[g]
  BY SendNextWorld DEF Good
<1>2. \A g \in Flows : flow'[g].kind = flow[g].kind
  BY <1>1 DEF CancelledRecord
<1>3. ASSUME NEW g \in Flows \ {f}
      PROVE  Subdued(flow[g], flow'[g]) /\ (flow'[g].valid => flow[g].valid)
  <2>1. Subdued(flow[g], flow[g])
    BY DEF Subdued
  <2> QED BY <1>1, <2>1, CancelledSubdued
<1>4. Acks(flow', link, inbox, mfg)
  <2>1. Acks(flow, link, inbox, mfg)
    BY DEF Good
  <2>2. \A g \in Flows : flow'[g].valid => link.board # None
    BY <1>1, <1>3, <2>1 DEF Acks, Up
  <2>3. ASSUME link.board # None, NEW g \in Flows PROVE Knows(flow'[g], inbox, mfg[link.board])
    <3>1. CASE g = f
      BY <1>1, <2>3, <3>1 DEF Knows, Up
    <3>2. CASE g # f
      BY <1>3, <2>1, <2>3, <3>2, SubduedKnows DEF Acks
    <3> QED BY <3>1, <3>2
  <2> QED BY <2>1, <2>2, <2>3 DEF Acks
<1>5. Owned(flow', page', loose')
  BY <1>1, <1>2, SameKindsOwned DEF Good
<1> QED BY <1>1, <1>4, <1>5 DEF Good, Rest

-----------------------------------------------------------------------------
(* The actions.                                                             *)

LEMMA FlowFacts ==
    ASSUME Good, NEW f \in Flows
    PROVE  /\ flow \in [Flows -> FlowRecords] /\ flow[f] \in FlowRecords /\ Shape(flow[f])
           /\ page \in Pages /\ wait \in Waits /\ link \in Links /\ inbox \in Seq(Events)
           /\ reported \in Reports /\ loose \subseteq Flows
BY WorldFacts DEF Good, Rest

LEMMA HandledHere ==
    ASSUME Good, NEW f \in Flows, flow[f].io # "send", flow[f].reply # "pending", UNCHANGED mfg
    PROVE  Handled(f, flow, wait)
BY DEF Good, Rest, Handled

\* A flow that stands at no line.
LEMMA AtRest ==
    ASSUME Good, NEW f \in Flows, flow[f].at \notin StatusChecks \cup {"script"}
    PROVE  /\ flow[f].io = "none" /\ flow[f].reply = "none" /\ ~Ready(flow[f])
           /\ UNCHANGED mfg => Handled(f, flow, wait)
<1>1. Shape(flow[f])
  BY FlowFacts
<1> QED BY <1>1, HandledHere DEF Shape, Ready

\* The script is cleared of the wait.
LEMMA HandledCancelled ==
    ASSUME Good, NEW f \in Flows, flow[f].io # "send", UNCHANGED mfg
    PROVE  Handled(f, Cancelled(flow, wait), NoWait)
<1> DEFINE c == Cancelled(flow, wait)
<1>1. World(c, NoWait) /\ \A g \in Flows : CancelledRecord(flow[g], c[g])
  BY CancelledWorld DEF Good, Rest, Waits
<1> HIDE DEF c
<1>2. \A g \in Flows : Subdued(flow[g], c[g]) /\ (c[g].valid => link.board # None)
  BY <1>1, CancelledSubdued DEF Good, Acks
<1>3. Acks(c, link, inbox, mfg)
  BY <1>2, SubduedAcks DEF Good
<1>4. c[f].io # "send" /\ c[f].reply # "pending" /\ \A g \in Flows : c[g].kind = flow[g].kind
  BY <1>1 DEF CancelledRecord
<1>5. Handled(f, c, NoWait)
  BY <1>1, <1>3, <1>4, NoEvents DEF Handled
<1> QED BY <1>5 DEF c

LEMMA PageGood ==
    ASSUME Good, page' \in Pages, page'.busy = page.busy, page'.auto = page.auto,
           UNCHANGED <<wait, flow, link, inbox, mfg, reported, loose>>
    PROVE  Good'
<1>1. Owned(flow', page', loose')
  BY SameKindsOwned DEF Good
<1> QED BY <1>1 DEF Good, Rest

LEMMA ControlsGood ==
    ASSUME Good,
           \/ Confirm \/ \E to \in {"connect", "write"} : Go(to) \/ \E d \in Devices : ChooseDevice(d)
    PROVE  Good'
<1>1. page \in Pages
  BY DEF Good, Rest
<1>2. CASE Confirm
  <2>1. page' \in Pages /\ page'.busy = page.busy /\ page'.auto = page.auto
    BY <1>1, <1>2 DEF Confirm, Pages
  <2> QED BY <1>2, <2>1, PageGood DEF Confirm, Controls
<1>3. ASSUME NEW to \in {"connect", "write"}, Go(to) PROVE Good'
  <2>1. page' \in Pages /\ page'.busy = page.busy /\ page'.auto = page.auto
    BY <1>1, <1>3 DEF Go, Pages
  <2> QED BY <1>3, <2>1, PageGood DEF Go, Controls
<1>4. ASSUME NEW d \in Devices, ChooseDevice(d) PROVE Good'
  <2>1. page' \in Pages /\ page'.busy = page.busy /\ page'.auto = page.auto
    BY <1>1, <1>4 DEF ChooseDevice, Pages, Answers
  <2> QED BY <1>4, <2>1, PageGood DEF ChooseDevice, Controls
<1> QED BY <1>2, <1>3, <1>4

LEMMA UnboundFlow ==
    ASSUME Good
    PROVE  /\ World(Unbound(flow), wait)
           /\ \A g \in Flows : ~Unbound(flow)[g].valid /\ Unbound(flow)[g].kind = flow[g].kind
           /\ Running(Unbound(flow)) = Running(flow)
<1>1. /\ World(Unbound(flow), wait)
      /\ \A g \in Flows : ~Unbound(flow)[g].valid /\ Unbound(flow)[g].kind = flow[g].kind
  BY UnboundWorld DEF Good
<1>2. Running(Unbound(flow)) = Running(flow)
  BY <1>1 DEF Running
<1> QED BY <1>1, <1>2

LEMMA DropGood ==
    ASSUME Good, Drop \/ UserDisconnect
    PROVE  Good'
<1> DEFINE fl == Unbound(flow)
<1>1. LinkLost(fl, page, wait)
  BY DEF Drop, UserDisconnect
<1>2. /\ World(fl, wait) /\ \A g \in Flows : ~fl[g].valid /\ fl[g].kind = flow[g].kind
      /\ Running(fl) = Running(flow)
  BY UnboundFlow
<1> HIDE DEF fl
<1>3. /\ page.busy => Running(fl) # {}
      /\ page.auto <=> \E g \in Flows : fl[g].kind = "auto"
      /\ ~page.busy => Running(fl) \subseteq loose \cap Running(flow)
  BY <1>2 DEF Good, Owned
<1> QED BY <1>1, <1>2, <1>3, LinkLostGood DEF Good, Rest

LEMMA RestartGood ==
    ASSUME Good, Restart
    PROVE  Good'
<1>1. page \in Pages
  BY DEF Good, Rest
<1>2. page' \in Pages /\ page'.busy = page.busy /\ page'.auto = page.auto
  BY <1>1 DEF Restart, Pages, Answers
<1>3. CASE page.connected
  <2>1. /\ link' = NoLink /\ inbox' = <<>> /\ flow' = Unbound(flow)
        /\ UNCHANGED <<wait, reported, loose>>
    BY <1>3 DEF Restart
  <2>2. /\ World(flow', wait) /\ \A g \in Flows : ~flow'[g].valid /\ flow'[g].kind = flow[g].kind
    BY <2>1, UnboundFlow
  <2>3. Acks(flow', link', inbox', mfg')
    BY <2>1, <2>2, LostAcks
  <2>4. Owned(flow', page', loose)
    BY <1>2, <2>2, SameKindsOwned DEF Good
  <2> QED BY <1>2, <2>1, <2>2, <2>3, <2>4, NoEvents DEF Good, Rest
<1>4. CASE ~page.connected
  BY <1>2, <1>4, PageGood DEF Restart
<1> QED BY <1>3, <1>4

\* A new flow begins to make a link.
LEMMA AttachingGood ==
    ASSUME Good, NEW f \in Flows, flow[f] = NoFlow, ~page.busy,
           NEW b \in Boards, NEW via \in Vias, NEW kind \in {"attach", "connect", "verify"},
           NEW p \in Pages, p.auto = page.auto, p.busy <=> kind # "attach",
           Attaching(f, kind, b, via, p)
    PROVE  Good'
<1> DEFINE r == [NoFlow EXCEPT !.kind = kind, !.at = "linking", !.board = b,
                               !.via = via, !.same = TRUE]
           u == Unbound(flow)
           fl == [u EXCEPT ![f] = r]
<1>1. LinkLost(fl, p, wait)
  BY DEF Attaching
<1>2. /\ World(u, wait)
      /\ \A g \in Flows : ~u[g].valid /\ u[g].kind = flow[g].kind /\ Alike(flow[g], u[g])
  BY UnboundFlow, UnboundWorld DEF Good
<1>3. /\ r \in FlowRecords /\ r.kind = kind /\ r.at = "linking" /\ r.io = "none" /\ ~r.valid
      /\ r.board = b /\ r.reply = "none" /\ r.ahead = 0
  BY CalmNoFlow DEF Calm, NoFlow, FlowRecords, Kinds, Stages
<1> HIDE DEF u, r
<1>4. Calm(r)
  BY <1>3 DEF Calm, Shape, StatusChecks
<1>5. u[f].io # "send" /\ u[f].reply # "pending"
  BY <1>2 DEF Alike, NoFlow
<1>6. World(fl, wait)
  BY <1>2, <1>3, <1>4, <1>5, CalmWorld
<1>7. fl[f] = r /\ \A g \in Flows \ {f} : fl[g] = u[g]
  BY <1>2, ReplacedFlow
<1> HIDE DEF fl
<1>8. \A g \in Flows : ~fl[g].valid
  BY <1>2, <1>3, <1>7
<1>9. flow[f].kind = "none"
  BY DEF NoFlow
<1>10. Running(fl) = IF kind = "attach" THEN Running(flow) ELSE Running(flow) \cup {f}
  BY <1>2, <1>3, <1>7, <1>9 DEF Running
<1>11. (\E g \in Flows : fl[g].kind = "auto") <=> \E g \in Flows : flow[g].kind = "auto"
  BY <1>2, <1>3, <1>7, <1>9
<1>12. /\ p.busy => Running(fl) # {}
       /\ p.auto <=> \E g \in Flows : fl[g].kind = "auto"
       /\ ~p.busy => Running(fl) \subseteq loose \cap Running(flow)
  BY <1>10, <1>11 DEF Good, Owned
<1> QED BY <1>1, <1>6, <1>8, <1>12, LinkLostGood DEF Good, Rest

LEMMA StartsLinkGood ==
    ASSUME Good, NEW f \in Flows, NEW b \in Boards,
           StartWizardLink(f, b) \/ \E via \in Vias : StartAttach(f, b, via)
    PROVE  Good'
<1>1. page \in Pages
  BY DEF Good, Rest
<1>2. CASE StartWizardLink(f, b)
  <2> DEFINE p == [page EXCEPT !.busy = TRUE]
  <2>1. /\ flow[f] = NoFlow /\ ~page.busy /\ "ble" \in Vias /\ page.step \in {"connect", "verify"}
        /\ Attaching(f, page.step, b, "ble", p)
    BY <1>2 DEF StartWizardLink, Start
  <2>2. p \in Pages /\ p.busy = TRUE /\ p.auto = page.auto
    BY <1>1 DEF Pages
  <2> HIDE DEF p
  <2> QED BY <2>1, <2>2, AttachingGood
<1>3. ASSUME NEW via \in Vias, StartAttach(f, b, via) PROVE Good'
  <2>1. flow[f] = NoFlow /\ ~page.busy /\ Attaching(f, "attach", b, via, page)
    BY <1>3 DEF StartAttach, Start
  <2> QED BY <1>1, <2>1, AttachingGood
<1> QED BY <1>2, <1>3

LEMMA StartWriteGood ==
    ASSUME Good, NEW f \in Flows, StartWrite(f)
    PROVE  Good'
<1> DEFINE s == link.read /\ Readable /\ ~page.confirmed
           r == [NoFlow EXCEPT !.kind = "write", !.at = "attempting", !.same = s]
<1>1. /\ flow[f] = NoFlow /\ ~page.busy /\ page' = [page EXCEPT !.busy = TRUE, !.rebootSent = FALSE]
      /\ flow' = [flow EXCEPT ![f] = r] /\ loose' = Loosened(flow', FALSE)
      /\ reported' = Told(page.device, "attempted") /\ UNCHANGED <<wait, link, inbox, mfg>>
  BY DEF StartWrite, Start, Report
<1>2. page \in Pages /\ link \in Links
  BY DEF Good, Rest
<1>3. s \in BOOLEAN
  BY <1>2 DEF Links, Pages, Readable, Comparable
<1> HIDE DEF s
<1>4. page' \in Pages /\ page'.busy = TRUE /\ page'.auto = page.auto /\ reported' \in Reports
  BY <1>1, <1>2 DEF Pages, Reports, Told
<1>5. /\ r \in FlowRecords /\ r.kind = "write" /\ r.at = "attempting" /\ r.io = "none" /\ ~r.valid
      /\ r.reply = "none" /\ r.ahead = 0
  BY <1>3, CalmNoFlow DEF Calm, NoFlow, FlowRecords, Kinds, Stages
<1> HIDE DEF r
<1>6. Calm(r)
  BY <1>5 DEF Calm, Shape, StatusChecks
<1>7. flow[f].io = "none" /\ flow[f].reply = "none" /\ flow[f].kind = "none" /\ World(flow, wait)
  BY <1>1 DEF NoFlow, Good
<1>8. World(flow', wait)
  BY <1>1, <1>5, <1>6, <1>7, CalmWorld
<1>9. flow \in [Flows -> FlowRecords]
  BY FlowFacts
<1>10. flow'[f] = r /\ \A g \in Flows \ {f} : flow'[g] = flow[g]
  BY <1>1, <1>9
<1>11. \A g \in Flows : Subdued(flow[g], flow'[g]) /\ (flow'[g].valid => link.board # None)
  BY <1>5, <1>10 DEF Subdued, Good, Acks
<1>12. Acks(flow', link', inbox', mfg')
  BY <1>1, <1>11, SubduedAcks DEF Good
<1>13. Owned(flow', page', loose') /\ loose' \subseteq Flows
  <2>1. f \in Running(flow')
    BY <1>5, <1>10 DEF Running
  <2>2. page'.auto <=> \E g \in Flows : flow'[g].kind = "auto"
    BY <1>4, <1>5, <1>7, <1>10 DEF Good, Owned
  <2> QED BY <1>1, <1>4, <2>1, <2>2, LoosenedOwned
<1> QED BY <1>1, <1>4, <1>8, <1>12, <1>13 DEF Good, Rest

\* Flow f goes on from a stage where it stands at no line.
LEMMA StageGood ==
    ASSUME Good, NEW f \in Flows, flow[f].at \notin StatusChecks \cup {"script"}, UNCHANGED mfg,
           NEW stage, NEW r, GoesOn(f, stage, r), Becomes(f, flow, wait, r),
           page'.busy = page.busy, page'.auto = page.auto
    PROVE  Good'
BY AtRest, GoesOnGood

\* Flow f fails at a stage where it stands at no line.
LEMMA StageFailsGood ==
    ASSUME Good, NEW f \in Flows,
           flow[f].at \notin StatusChecks \cup {"script", "idle", "linking"}, UNCHANGED mfg,
           Fail(f, flow, wait)
    PROVE  Good'
<1>1. flow[f].kind \notin {"none", "attach"}
  BY FlowFacts DEF Shape
<1> QED BY <1>1, AtRest, FailGood

LEMMA CloudGood ==
    ASSUME Good, NEW f \in Flows, CloudReady(f) \/ CloudFails(f)
    PROVE  Good'
<1>1. flow[f].at = "cloud" /\ UNCHANGED mfg
  BY DEF CloudReady, CloudFails
<1>2. /\ flow[f] \in FlowRecords /\ Shape(flow[f]) /\ page \in Pages /\ link \in Links
  BY FlowFacts
<1>3. flow[f].kind = "auto" /\ flow[f].board \in Boards
  BY <1>1, <1>2 DEF Shape, FlowRecords, Kinds
<1>4. CASE CloudReady(f)
  <2>1. DeviceOf[flow[f].board] \in Devices
    BY <1>3, BoardsOK
  <2>2. /\ page' = [page EXCEPT !.device = DeviceOf[flow[f].board],
                               !.filed = @ \cup {DeviceOf[flow[f].board]}]
        /\ flow' = [flow EXCEPT ![f] = At(f, "attempting")]
        /\ reported' = Told(page'.device, "attempted") /\ UNCHANGED <<wait, link, inbox, loose>>
    BY <1>4 DEF CloudReady
  <2>3. page' \in Pages /\ page'.busy = page.busy /\ page'.auto = page.auto
    BY <1>2, <2>1, <2>2 DEF Pages
  <2>4. reported' \in Reports
    BY <2>2, <2>3 DEF Reports, Told, Pages
  <2>5. GoesOn(f, "attempting", At(f, "attempting"))
    <3>1. "attempting" \in CalmStages(flow[f].kind)
      BY <1>3 DEF CalmStages, Stages, StatusChecks
    <3> QED BY <1>2, <1>3, <3>1, AtCalm
  <2>6. Becomes(f, flow, wait, At(f, "attempting"))
    BY <1>2, <2>2, <2>3, <2>4 DEF Becomes
  <2> QED BY <1>1, <2>3, <2>5, <2>6, StageGood DEF StatusChecks
<1>5. CASE CloudFails(f)
  BY <1>1, <1>5, StageFailsGood DEF CloudFails, StatusChecks
<1> QED BY <1>4, <1>5

LEMMA AttemptedGood ==
    ASSUME Good, NEW f \in Flows, Attempted(f)
    PROVE  Good'
<1>1. flow[f].at = "attempting" /\ UNCHANGED mfg /\ Quiet
  BY DEF Attempted
<1>2. /\ flow[f] \in FlowRecords /\ Shape(flow[f]) /\ page \in Pages /\ link \in Links
      /\ reported \in Reports
  BY FlowFacts
<1>3. flow[f].kind \in {"write", "auto"}
  BY <1>1, <1>2 DEF Shape, FlowRecords, Kinds
<1>4. CASE flow[f].kind = "write"
  <2> DEFINE r == [At(f, "fetching") EXCEPT !.dev = page.device]
  <2>1. flow' = [flow EXCEPT ![f] = r] /\ UNCHANGED <<page, wait, link, inbox, reported, loose>>
    BY <1>4 DEF Attempted, Fetching
  <2>2. GoesOn(f, "fetching", r)
    <3>1. "fetching" \in CalmStages(flow[f].kind)
      BY <1>4 DEF CalmStages
    <3> QED BY <1>2, <1>3, <3>1, AtCalm
  <2>3. Becomes(f, flow, wait, r)
    BY <1>2, <2>1 DEF Becomes
  <2> HIDE DEF r
  <2> QED BY <1>1, <2>1, <2>2, <2>3, StageGood DEF StatusChecks
<1>5. CASE flow[f].kind = "auto" /\ HoldsBoard(f)
  <2>1. AskStatus(f, flow, page, "recheck") /\ UNCHANGED <<link, inbox, mfg, reported, loose>>
    BY <1>5 DEF Attempted
  <2>2. \A g \in Flows \ {f} : ~Ready(flow[g])
    BY <1>1 DEF Quiet, Ready
  <2>3. flow[f].io # "send"
    BY <1>1, AtRest DEF StatusChecks
  <2>4. "recheck" \in StatusChecks
    BY DEF StatusChecks
  <2> QED BY <1>2, <1>5, <2>1, <2>2, <2>3, <2>4, AskStatusGood
<1>6. CASE flow[f].kind = "auto" /\ ~HoldsBoard(f)
  <2>1. Fail(f, flow, wait)
    BY <1>6 DEF Attempted
  <2> QED BY <1>1, <2>1, StageFailsGood DEF StatusChecks
<1> QED BY <1>3, <1>4, <1>5, <1>6

\* Of a short beginning of the script nothing can be wrong.
LEMMA PrefixShort ==
    ASSUME NEW m, NEW d, NEW n \in 1..2
    PROVE  Prefix(m, d, n)
BY Numbers DEF Prefix, SetCmd

LEMMA ScriptBeginsGood ==
    ASSUME Good, NEW f \in Flows, Fetched(f) \/ Settled(f)
    PROVE  Good'
<1>1. /\ flow[f].at \in {"fetching", "settling"} /\ Quiet
      /\ UNCHANGED <<link, inbox, mfg, reported, loose>>
  BY DEF Fetched, Settled
<1>2. PICK n \in 1..2 : SendNext(f, n)
  BY DEF Fetched, Settled, Erase
<1>3. /\ flow[f].io = "none" /\ flow[f].reply = "none"
  BY <1>1, AtRest DEF StatusChecks
<1>4. flow[f].kind \in {"write", "auto"}
  BY <1>1, FlowFacts DEF Shape, FlowRecords, Kinds
<1>5. \A g \in Flows \ {f} : ~Ready(flow[g])
  BY <1>1 DEF Quiet, Ready
<1>6. n \in Erase..Reboot /\ ~(n > 2)
  BY Numbers
<1>7. Prefix(mfg[link.board], flow[f].dev, n)
  BY PrefixShort
<1> QED BY <1>1, <1>2, <1>3, <1>4, <1>5, <1>6, <1>7, SendNextGood

LEMMA AcknowledgedGood ==
    ASSUME Good, NEW f \in Flows, Acknowledged(f)
    PROVE  Good'
<1> DEFINE n == flow[f].cmd + 1
<1>1. /\ flow[f].at = "script" /\ flow[f].io = "wait" /\ flow[f].reply = "got" /\ flow[f].event.ok
      /\ SendNext(f, n) /\ UNCHANGED <<link, inbox, mfg, reported, loose>>
  BY DEF Acknowledged
<1>2. flow[f] \in FlowRecords /\ Shape(flow[f])
  BY FlowFacts
<1>3. flow[f].kind \in {"write", "auto"}
  BY <1>1, <1>2 DEF Shape, FlowRecords, Kinds, StatusChecks
<1>4. flow[f].cmd \in Erase..Reboot /\ flow[f].cmd \notin {Erase, Reboot}
  BY <1>1, <1>2 DEF Shape
<1>5. n \in Erase..Reboot /\ n > 2
  BY <1>4, Numbers
<1>6. \A g \in Flows \ {f} : ~Ready(flow[g])
  <2>1. Ready(flow[f])
    BY <1>1 DEF Ready
  <2> QED BY <2>1 DEF Good, World, OneReady
<1>7. ~flow[f].misled => \A g \in Senders(flow) : Brief(flow[g])
  <2>1. \A g \in Senders(flow) : g \in Flows /\ g # f /\ flow[g].io = "send"
    BY <1>1 DEF Senders
  <2> QED BY <1>1, <2>1 DEF Good, World, NoneBetween
<1>8. Up /\ ~flow[f].misled => Prefix(mfg[link.board], flow[f].dev, n)
  BY <1>1 DEF Good, Acks, Knows, Up
<1> HIDE DEF n
<1> QED BY <1>1, <1>3, <1>5, <1>6, <1>7, <1>8, SendNextGood

LEMMA ScriptFailsGood ==
    ASSUME Good, NEW f \in Flows, FetchFails(f) \/ ScriptStops(f) \/ Deadline(f)
    PROVE  Good'
<1>1. CASE FetchFails(f) \/ Deadline(f)
  BY <1>1, StageFailsGood DEF FetchFails, Deadline, StatusChecks
<1>2. CASE ScriptStops(f)
  <2>1. flow[f].at = "script" /\ flow[f].io = "wait" /\ UNCHANGED mfg
        /\ Fail(f, Cancelled(flow, wait), NoWait)
    BY <1>2 DEF ScriptStops
  <2>2. flow[f].kind \notin {"none", "attach"}
    BY <2>1, FlowFacts DEF Shape
  <2>3. Handled(f, Cancelled(flow, wait), NoWait)
    BY <2>1, HandledCancelled
  <2> QED BY <2>1, <2>2, <2>3, FailGood
<1> QED BY <1>1, <1>2

LEMMA RebootingGood ==
    ASSUME Good, NEW f \in Flows, Succeeded(f) \/ Rebooted(f)
    PROVE  Good'
<1>1. /\ flow[f].at \in {"succeeding", "rebooting"} /\ UNCHANGED <<wait, link, inbox, mfg, reported, loose>>
      /\ page' \in {page, [page EXCEPT !.step = "verify"]}
  BY DEF Succeeded, Rebooted
<1>2. /\ flow[f] \in FlowRecords /\ Shape(flow[f]) /\ page \in Pages /\ link \in Links
      /\ reported \in Reports
  BY FlowFacts
<1>3. flow[f].kind = "auto"
  BY <1>1, <1>2 DEF Shape, FlowRecords, Kinds
<1>4. page' \in Pages /\ page'.busy = page.busy /\ page'.auto = page.auto
  BY <1>1, <1>2 DEF Pages
<1>5. PICK stage \in {"rebooting", "verifying"} : flow' = [flow EXCEPT ![f] = At(f, stage)]
  BY DEF Succeeded, Rebooted
<1>6. GoesOn(f, stage, At(f, stage))
  <2>1. stage \in CalmStages(flow[f].kind)
    BY <1>3 DEF CalmStages, Stages, StatusChecks
  <2> QED BY <1>2, <1>3, <2>1, AtCalm
<1>7. Becomes(f, flow, wait, At(f, stage))
  BY <1>1, <1>2, <1>4, <1>5 DEF Becomes
<1> QED BY <1>1, <1>4, <1>6, <1>7, StageGood DEF StatusChecks

LEMMA VerifyRoundGood ==
    ASSUME Good, NEW f \in Flows, VerifyRound(f)
    PROVE  Good'
<1>1. flow[f].at = "verifying" /\ Quiet /\ UNCHANGED mfg
  BY DEF VerifyRound
<1>2. flow[f] \in FlowRecords /\ Shape(flow[f]) /\ page \in Pages
  BY FlowFacts
<1>3. flow[f].kind = "auto" /\ flow[f].board \in Boards
  BY <1>1, <1>2 DEF Shape, FlowRecords, Kinds
<1>4. flow[f].io = "none" /\ flow[f].reply = "none" /\ ~flow[f].valid /\ flow[f].ahead = 0
  BY <1>1, <1>2, AtRest DEF Shape, StatusChecks
<1>5. CASE flow[f].via = "ble"
  <2> DEFINE r == [flow[f] EXCEPT !.at = "linking", !.same = TRUE]
             u == Unbound(flow)
             fl == [u EXCEPT ![f] = r]
  <2>1. LinkLost(fl, page, wait)
    BY <1>5 DEF VerifyRound
  <2>2. /\ World(u, wait)
        /\ \A g \in Flows : ~u[g].valid /\ u[g].kind = flow[g].kind /\ Alike(flow[g], u[g])
    BY UnboundFlow, UnboundWorld DEF Good
  <2>3. /\ r \in FlowRecords /\ r.kind = "auto" /\ r.at = "linking" /\ r.io = "none" /\ ~r.valid
        /\ r.board \in Boards /\ r.reply = "none" /\ r.ahead = 0
    <3>1. "linking" \in Stages
      BY DEF Stages
    <3>2. r \in FlowRecords
      BY <1>2, <3>1 DEF FlowRecords
    <3>3. /\ r.kind = flow[f].kind /\ r.at = "linking" /\ r.io = flow[f].io
          /\ r.valid = flow[f].valid /\ r.board = flow[f].board
          /\ r.reply = flow[f].reply /\ r.ahead = flow[f].ahead
      BY <1>2 DEF FlowRecords
    <3> HIDE DEF r
    <3> QED BY <1>2, <1>3, <1>4, <3>2, <3>3
  <2> HIDE DEF u, r
  <2>4. Calm(r)
    BY <2>3 DEF Calm, Shape, StatusChecks
  <2>5. u[f].io # "send" /\ u[f].reply # "pending" /\ u[f].kind = "auto"
    BY <1>3, <1>4, <2>2 DEF Alike
  <2>6. World(fl, wait)
    BY <2>2, <2>3, <2>4, <2>5, CalmWorld
  <2>7. fl[f] = r /\ \A g \in Flows \ {f} : fl[g] = u[g]
    BY <2>2, ReplacedFlow
  <2> HIDE DEF fl
  <2>8. \A g \in Flows : ~fl[g].valid /\ fl[g].kind = flow[g].kind
    BY <1>3, <2>2, <2>3, <2>7
  <2>9. Running(fl) = Running(flow)
    BY <2>8 DEF Running
  <2>10. /\ page.busy => Running(fl) # {}
         /\ page.auto <=> \E g \in Flows : fl[g].kind = "auto"
         /\ ~page.busy => Running(fl) \subseteq loose \cap Running(flow)
    BY <2>8, <2>9 DEF Good, Owned
  <2> QED BY <2>1, <2>6, <2>8, <2>10, LinkLostGood DEF Good, Rest
<1>6. CASE flow[f].via # "ble"
  <2> DEFINE p == [page EXCEPT !.connected = TRUE]
  <2>1. AskStatus(f, flow, p, "checking") /\ UNCHANGED <<link, inbox, mfg, reported, loose>>
    BY <1>1, <1>6 DEF VerifyRound
  <2>2. p \in Pages /\ p.busy = page.busy /\ p.auto = page.auto
    BY <1>2 DEF Pages
  <2>3. \A g \in Flows \ {f} : ~Ready(flow[g])
    BY <1>1 DEF Quiet, Ready
  <2>4. "checking" \in StatusChecks
    BY DEF StatusChecks
  <2> HIDE DEF p
  <2> QED BY <1>3, <1>4, <2>1, <2>2, <2>3, <2>4, AskStatusGood
<1> QED BY <1>5, <1>6

LEMMA ClosedGood ==
    ASSUME Good, NEW f \in Flows, Closed(f)
    PROVE  Good'
<1>1. flow[f].at = "closing" /\ UNCHANGED mfg
  BY DEF Closed
<1>2. Handled(f, flow, wait)
  BY <1>1, AtRest DEF StatusChecks
<1>3. /\ flow[f].kind \notin {"none", "attach"} /\ page \in Pages /\ link \in Links
      /\ reported \in Reports
  BY <1>1, FlowFacts DEF Shape
<1>4. CASE flow[f].kind = "auto"
  <2>1. EndAuto(f, flow, wait, flow[f].failed)
    BY <1>4 DEF Closed
  <2> QED BY <1>2, <1>4, <2>1, EndAutoGood
<1>5. CASE flow[f].kind # "auto"
  <2>1. /\ page' = [page EXCEPT !.busy = FALSE] /\ flow' = [flow EXCEPT ![f] = NoFlow]
        /\ UNCHANGED <<wait, link, inbox, reported, loose>>
    BY <1>5 DEF Closed
  <2>2. page' \in Pages /\ page'.busy = FALSE /\ page'.auto = page.auto
    BY <1>3, <2>1 DEF Pages
  <2>3. Becomes(f, flow, wait, NoFlow)
    BY <1>3, <2>1, <2>2 DEF Becomes
  <2> QED BY <1>2, <1>3, <1>5, <2>2, <2>3, EndsGood
<1> QED BY <1>4, <1>5

LEMMA LinkFailsGood ==
    ASSUME Good, NEW f \in Flows, LinkFails(f)
    PROVE  Good'
<1> DEFINE u == Unbound(flow)
<1>1. /\ flow[f].at = "linking" /\ UNCHANGED <<wait, link, inbox, mfg, reported, loose>>
      /\ flow' = [u EXCEPT ![f] = IF flow[f].kind = "auto" THEN At(f, "verifying") ELSE NoFlow]
      /\ page' = [page EXCEPT !.busy = page.busy /\ flow[f].kind \notin {"connect", "verify"}]
  BY DEF LinkFails
<1>2. /\ flow \in [Flows -> FlowRecords] /\ flow[f] \in FlowRecords /\ Shape(flow[f])
      /\ page \in Pages /\ wait \in Waits /\ link \in Links /\ reported \in Reports
  BY FlowFacts
<1>3. flow[f].kind \in {"attach", "connect", "verify", "auto"}
  BY <1>1, <1>2 DEF Shape, FlowRecords, Kinds
<1>4. /\ page' \in Pages /\ page'.auto = page.auto
      /\ page'.busy = (page.busy /\ flow[f].kind \notin {"connect", "verify"})
  <2>1. (page.busy /\ flow[f].kind \notin {"connect", "verify"}) \in BOOLEAN
    BY <1>2 DEF Pages
  <2> QED BY <1>1, <1>2, <2>1 DEF Pages
<1>5. Handled(f, u, wait)
  <2>1. /\ World(u, wait)
        /\ \A g \in Flows : ~u[g].valid /\ u[g].kind = flow[g].kind /\ Alike(flow[g], u[g])
    BY UnboundFlow, UnboundWorld DEF Good
  <2>2. \A g \in Flows : Subdued(flow[g], u[g])
    BY <1>2, UnboundSubdued
  <2>3. u[f].io # "send" /\ u[f].reply # "pending"
    BY <1>1, <2>1, AtRest DEF Alike, StatusChecks
  <2> HIDE DEF u
  <2>4. Acks(u, link, inbox, mfg)
    BY <2>1, <2>2, SubduedAcks DEF Good
  <2> QED BY <1>1, <1>2, <2>1, <2>3, <2>4 DEF Handled
<1> HIDE DEF u
<1>6. CASE flow[f].kind = "auto"
  <2>1. Becomes(f, u, wait, At(f, "verifying"))
    BY <1>1, <1>2, <1>4, <1>6 DEF Becomes
  <2>2. GoesOn(f, "verifying", At(f, "verifying"))
    <3>1. "verifying" \in CalmStages(flow[f].kind)
      BY <1>6 DEF CalmStages, Stages, StatusChecks
    <3> QED BY <1>2, <1>6, <3>1, AtCalm
  <2>3. page'.busy = page.busy
    BY <1>2, <1>4, <1>6 DEF Pages
  <2> QED BY <1>4, <1>5, <2>1, <2>2, <2>3, GoesOnGood
<1>7. CASE flow[f].kind \in {"connect", "verify"}
  <2>1. Becomes(f, u, wait, NoFlow)
    BY <1>1, <1>2, <1>4, <1>7 DEF Becomes
  <2> QED BY <1>4, <1>5, <1>7, <2>1, EndsGood
<1>8. CASE flow[f].kind = "attach"
  <2> DEFINE f2 == [u EXCEPT ![f] = NoFlow]
  <2>1. /\ World(f2, wait) /\ Acks(f2, link, inbox, mfg')
        /\ f2[f] = NoFlow /\ \A g \in Flows \ {f} : f2[g].kind = flow[g].kind
    BY <1>5, HandledCalm, CalmNoFlow
  <2> HIDE DEF f2
  <2>2. flow' = f2
    BY <1>1, <1>8 DEF f2
  <2>3. Running(f2) = Running(flow)
    BY <1>8, <2>1, CalmNoFlow DEF Running
  <2>4. page'.busy = page.busy
    BY <1>2, <1>4, <1>8 DEF Pages
  <2>5. Owned(f2, page', loose)
    <3>1. (\E g \in Flows : f2[g].kind = "auto") <=> \E g \in Flows : flow[g].kind = "auto"
      BY <1>8, <2>1, CalmNoFlow
    <3> QED BY <1>4, <2>3, <2>4, <3>1 DEF Good, Owned
  <2> QED BY <1>1, <1>4, <2>1, <2>2, <2>5 DEF Good, Rest
<1> QED BY <1>3, <1>6, <1>7, <1>8

\* On a new link nothing has been said yet.
LEMMA NewLinkAcks ==
    ASSUME NEW fl, NEW l, NEW m, l.board # None,
           \A g \in Flows : fl[g].at # "script"
                            \/ (~fl[g].valid /\ (fl[g].io = "wait" => fl[g].reply # "got"))
    PROVE  Acks(fl, l, <<>>, m)
BY DEF Acks, Knows, Confirmed

LEMMA LinkedGood ==
    ASSUME Good, NEW f \in Flows, Linked(f)
    PROVE  Good'
<1> DEFINE u == Unbound(flow)
           fl == [u EXCEPT ![f] = flow[f]]
           lost == Running(flow) \ {f} # {}
<1>1. /\ Quiet /\ flow[f].at = "linking" /\ ~Up /\ UNCHANGED <<inbox, mfg, reported>>
      /\ link' = [board |-> flow[f].board, via |-> flow[f].via, read |-> FALSE]
      /\ loose' = Loosened(flow', lost)
  BY DEF Linked
<1>2. /\ flow \in [Flows -> FlowRecords] /\ flow[f] \in FlowRecords /\ Shape(flow[f])
      /\ page \in Pages /\ wait \in Waits /\ reported \in Reports
  BY FlowFacts
<1>3. flow[f].kind \in {"attach", "connect", "verify", "auto"} /\ flow[f].board \in Boards
  BY <1>1, <1>2 DEF Shape, FlowRecords, Kinds
<1>4. link' \in Links /\ link'.board # None
  BY <1>1, <1>2, <1>3, BoardsOK DEF Links, FlowRecords
<1>5. inbox' = <<>>
  BY <1>1 DEF Good, Acks, Up
<1>6. /\ World(u, wait)
      /\ \A g \in Flows : ~u[g].valid /\ u[g].kind = flow[g].kind /\ Alike(flow[g], u[g])
  BY UnboundFlow, UnboundWorld DEF Good
<1>7. /\ flow[f].io = "none" /\ flow[f].reply = "none" /\ ~flow[f].valid /\ flow[f].ahead = 0
  BY <1>1, <1>2, AtRest DEF Shape, StatusChecks
<1>8. u[f].io # "send" /\ u[f].reply # "pending"
  BY <1>6, <1>7 DEF Alike
<1>9. \A g \in Flows : flow[g].io = "wait" => flow[g].reply # "got"
  BY <1>1 DEF Quiet
<1>10. \A g \in Flows : ~u[g].valid /\ (u[g].io = "wait" => u[g].reply # "got") /\ ~Ready(u[g])
  BY <1>1, <1>6, <1>9 DEF Alike, Quiet, Ready
<1>11. Senders(u) = Senders(flow)
  BY <1>6 DEF Senders, Alike
<1> HIDE DEF u
<1>12. \A g \in Flows : page.busy => Running(flow) # {}
  BY DEF Good, Owned
<1>13. CASE flow[f].kind = "attach" /\ (page.busy \/ page.auto)
  <2> DEFINE f2 == [u EXCEPT ![f] = NoFlow]
  <2>1. flow' = f2 /\ UNCHANGED <<page, wait>>
    <3>1. flow' = [fl EXCEPT ![f] = NoFlow] /\ UNCHANGED <<page, wait>>
      BY <1>13 DEF Linked, u
    <3> QED BY <3>1
  <2>2. World(f2, wait)
    BY <1>6, <1>8, CalmNoFlow, CalmWorld
  <2>3. f2[f] = NoFlow /\ \A g \in Flows \ {f} : f2[g] = u[g]
    BY <1>6, ReplacedFlow
  <2> HIDE DEF f2
  <2>4. Running(f2) = Running(flow)
    BY <1>6, <1>13, <2>3, CalmNoFlow DEF Running
  <2>5. (\E g \in Flows : f2[g].kind = "auto") <=> \E g \in Flows : flow[g].kind = "auto"
    BY <1>6, <1>13, <2>3, CalmNoFlow
  <2>6. Owned(f2, page, Loosened(f2, lost)) /\ Loosened(f2, lost) \subseteq Flows
    <3>1. /\ page.busy => Running(f2) # {}
          /\ page.auto <=> \E g \in Flows : f2[g].kind = "auto"
          /\ ~page.busy => lost \/ Running(f2) \subseteq loose \cap Running(flow)
      BY <2>4, <2>5 DEF Good, Owned
    <3> QED BY <3>1, LoosenedOwned
  <2>7. Acks(f2, link', <<>>, mfg)
    BY <1>4, <1>10, <2>3, CalmNoFlow, NewLinkAcks
  <2> QED BY <1>1, <1>2, <1>4, <1>5, <2>1, <2>2, <2>6, <2>7 DEF Good, Rest
<1>14. ASSUME NEW r \in FlowRecords, Shape(r), r.io = "none", ~r.valid, r.board \in Boards,
              r.kind \in {"auto", "connect", "verify"},
              r.kind = "auto" => flow[f].kind = "auto" \/ ~page.auto,
              r.kind # flow[f].kind => r.kind = "auto" /\ ~page.busy,
              NEW p \in Pages, p.auto <=> page.auto \/ r.kind = "auto",
              p.busy = (page.busy \/ r.kind # flow[f].kind),
              NEW at \in StatusChecks, r.kind = "auto" \/ at = "status",
              AskStatus(f, [u EXCEPT ![f] = r], p, at)
       PROVE  Good'
  <2> DEFINE f2 == [u EXCEPT ![f] = r]
  <2>1. f2[f] = r /\ \A g \in Flows \ {f} : f2[g] = u[g]
    BY <1>6, ReplacedFlow
  <2>2. World(f2, wait)
    <3>1. Calm(r)
      BY <1>14 DEF Calm
    <3>2. r.kind = "auto" => u[f].kind = "auto" \/ \A g \in Flows \ {f} : u[g].kind # "auto"
      BY <1>6, <1>14 DEF Good, Owned
    <3> QED BY <1>6, <1>8, <3>1, <3>2, CalmWorld
  <2> HIDE DEF f2
  <2>3. AskStatus(f, f2, p, at)
    BY <1>14 DEF f2
  <2>4. Senders(f2) = Senders(flow)
    BY <1>7, <1>8, <1>11, <1>14, <2>1 DEF Senders
  <2>5. /\ World(flow', wait') /\ wait' \in Waits
        /\ page' \in Pages /\ page'.busy = p.busy /\ page'.auto = p.auto
        /\ flow'[f].kind = r.kind /\ flow'[f].at = at
        /\ \A g \in Flows \ {f} : CancelledRecord(u[g], flow'[g])
    <3>1. \A g \in Flows \ {f} : ~Ready(f2[g])
      BY <1>10, <2>1
    <3>2. f2[f].io # "send" /\ f2[f].kind = r.kind
      BY <1>14, <2>1
    <3> QED BY <1>2, <1>14, <2>1, <2>2, <2>3, <2>4, <3>1, <3>2, AskStatusWorld
  <2>6. Acks(flow', link', <<>>, mfg)
    <3>1. \A g \in Flows \ {f} : ~flow'[g].valid /\ (flow'[g].io = "wait" => flow'[g].reply # "got")
      BY <1>10, <2>5 DEF CancelledRecord
    <3>2. at # "script"
      BY DEF StatusChecks
    <3> QED BY <1>4, <2>5, <3>1, <3>2, NewLinkAcks
  <2>7. \A g \in Flows \ {f} : flow'[g].kind = flow[g].kind
    BY <1>6, <2>5 DEF CancelledRecord
  <2>8. Running(flow') = Running(flow) \cup {f}
    BY <1>14, <2>5, <2>7 DEF Running
  <2>9. page'.auto <=> \E g \in Flows : flow'[g].kind = "auto"
    BY <1>3, <1>14, <2>5, <2>7 DEF Good, Owned
  <2>10. Owned(flow', page', loose') /\ loose' \subseteq Flows
    <3>1. lost \in BOOLEAN
      OBVIOUS
    <3>2. page'.busy => Running(flow') # {}
      BY <2>8
    <3>3. ~page'.busy => Running(flow') \subseteq loose \cap Running(flow)
      <4>1. ~page'.busy => ~page.busy /\ r.kind = flow[f].kind
        BY <1>14, <2>5
      <4>2. r.kind = flow[f].kind => f \in Running(flow)
        BY <1>14 DEF Running
      <4> QED BY <2>8, <4>1, <4>2 DEF Good, Owned
    <3> QED BY <1>1, <2>9, <3>1, <3>2, <3>3, LoosenedOwned
  <2> QED BY <1>1, <1>2, <1>4, <1>5, <2>5, <2>6, <2>10 DEF Good, Rest
<1>15. CASE flow[f].kind = "attach" /\ ~(page.busy \/ page.auto)
  <2> DEFINE r == [flow[f] EXCEPT !.kind = "auto"]
             p == [page EXCEPT !.connected = TRUE, !.busy = TRUE, !.auto = TRUE]
  <2>1. AskStatus(f, [fl EXCEPT ![f].kind = "auto"], p, "status")
    BY <1>15 DEF Linked, u
  <2>2. [fl EXCEPT ![f].kind = "auto"] = [u EXCEPT ![f] = r]
    <3>1. u \in [Flows -> FlowRecords]
      BY <1>6, WorldFacts
    <3> QED BY <3>1
  <2>3. /\ r \in FlowRecords /\ r.kind = "auto" /\ r.at = "linking" /\ r.io = "none" /\ ~r.valid
        /\ r.board \in Boards /\ r.reply = "none" /\ r.ahead = 0
    BY <1>1, <1>2, <1>3, <1>7 DEF FlowRecords, Kinds
  <2>4. p \in Pages /\ p.auto = TRUE /\ p.busy = TRUE
    BY <1>2 DEF Pages
  <2> HIDE DEF r, p
  <2>5. Shape(r)
    BY <2>3 DEF Shape, StatusChecks
  <2>6. "status" \in StatusChecks
    BY DEF StatusChecks
  <2> HIDE DEF fl
  <2> QED BY <1>14, <1>15, <2>1, <2>2, <2>3, <2>4, <2>5, <2>6
<1>16. CASE flow[f].kind # "attach"
  <2> DEFINE p == [page EXCEPT !.connected = TRUE]
             at == IF flow[f].kind = "auto" THEN "checking" ELSE "status"
  <2>1. AskStatus(f, fl, p, at)
    BY <1>16 DEF Linked, u
  <2>2. p \in Pages /\ p.auto = page.auto /\ p.busy = page.busy
    BY <1>2 DEF Pages
  <2>3. at \in StatusChecks
    BY DEF StatusChecks
  <2>4. flow[f].kind = "auto" => page.auto
    BY DEF Good, Owned
  <2>5. page.auto \in BOOLEAN /\ page.busy \in BOOLEAN
    BY <1>2 DEF Pages
  <2>6. flow[f].kind = "auto" \/ at = "status"
    OBVIOUS
  <2> HIDE DEF p, at
  <2>7. /\ p.auto <=> page.auto \/ flow[f].kind = "auto"
        /\ p.busy = (page.busy \/ flow[f].kind # flow[f].kind)
    BY <2>2, <2>4, <2>5
  <2> QED BY <1>2, <1>3, <1>7, <1>14, <1>16, <2>1, <2>2, <2>3, <2>6, <2>7
<1> QED BY <1>13, <1>15, <1>16

LEMMA StatusAnsweredGood ==
    ASSUME Good, NEW f \in Flows, StatusAnswered(f)
    PROVE  Good'
<1>1. /\ flow[f].io = "wait" /\ flow[f].reply = "got" /\ flow[f].at \in StatusChecks /\ UNCHANGED mfg
      /\ WizardRead(f) \/ AutoRead(f) \/ Rechecked(f) \/ Verified(f)
  BY DEF StatusAnswered
<1>2. /\ flow[f] \in FlowRecords /\ Shape(flow[f])
      /\ page \in Pages /\ link \in Links /\ reported \in Reports
  BY FlowFacts
<1>3. Handled(f, flow, wait)
  BY <1>1, HandledHere
<1>4. /\ Detected(f) \in Pages /\ Detected(f).busy = page.busy /\ Detected(f).auto = page.auto
      /\ [Detected(f) EXCEPT !.busy = FALSE] \in Pages
      /\ [Detected(f) EXCEPT !.busy = FALSE].busy = FALSE
      /\ [Detected(f) EXCEPT !.busy = FALSE].auto = page.auto
      /\ [Detected(f) EXCEPT !.busy = FALSE, !.auto = FALSE] \in Pages
      /\ [Detected(f) EXCEPT !.busy = FALSE, !.auto = FALSE].busy = FALSE
      /\ [Detected(f) EXCEPT !.busy = FALSE, !.auto = FALSE].auto = FALSE
  <2>1. Seen(f) \in Answers
    BY <1>2 DEF Seen, FlowRecords, Events
  <2>2. Detected(f) \in Pages /\ Detected(f).busy = page.busy /\ Detected(f).auto = page.auto
    BY <1>2, <2>1 DEF Detected, Pages
  <2> QED BY <2>2 DEF Pages
<1>5. ReadHere(f) => link' \in Links /\ link'.board = link.board
  BY <1>2 DEF ReadHere, Links
<1>6. \A s \in {"verified", "failed"} : Report(s) => reported' \in Reports
  BY <1>2 DEF Report, Told, Reports, Pages
<1>7. \A stage \in CalmStages(flow[f].kind) : flow[f].kind \in {"auto", "verify"} =>
         /\ GoesOn(f, stage, At(f, stage))
         /\ GoesOn(f, stage, [At(f, stage) EXCEPT !.failed = TRUE])
         /\ GoesOn(f, stage, [At(f, stage) EXCEPT !.dev = page.device])
  BY <1>2, AtCalm
<1>8. CASE WizardRead(f)
  <2>1. flow[f].kind \in {"connect", "verify"} /\ ReadHere(f) /\ UNCHANGED <<wait, inbox, loose>>
    BY <1>8 DEF WizardRead
  <2>2. CASE flow[f].kind = "connect" \/ Seen(f) = Blank
    <3>1. page' = [Detected(f) EXCEPT !.busy = FALSE] /\ flow' = [flow EXCEPT ![f] = NoFlow]
          /\ UNCHANGED reported
      BY <1>8, <2>2 DEF WizardRead
    <3>2. Becomes(f, flow, wait, NoFlow)
      BY <1>2, <1>4, <1>5, <2>1, <3>1 DEF Becomes
    <3> QED BY <1>3, <1>4, <2>1, <3>1, <3>2, EndsGood
  <2>3. CASE ~(flow[f].kind = "connect" \/ Seen(f) = Blank)
    <3>1. /\ page' = Detected(f) /\ flow' = [flow EXCEPT ![f] = At(f, "closing")]
          /\ Report(IF Mismatch(Seen(f)) THEN "failed" ELSE "verified")
      BY <1>8, <2>3 DEF WizardRead
    <3>2. Becomes(f, flow, wait, At(f, "closing"))
      BY <1>4, <1>5, <1>6, <2>1, <3>1 DEF Becomes
    <3>3. GoesOn(f, "closing", At(f, "closing"))
      BY <1>7, <2>1, <2>3 DEF CalmStages
    <3> QED BY <1>3, <1>4, <3>1, <3>2, <3>3, GoesOnGood
  <2> QED BY <2>2, <2>3
<1>9. ASSUME flow[f].kind = "auto"
      PROVE  {"cloud", "fetching", "closing", "verifying"} \subseteq CalmStages(flow[f].kind)
  BY <1>9 DEF CalmStages, Stages, StatusChecks
<1>10. CASE AutoRead(f)
  <2>1. flow[f].kind = "auto" /\ ReadHere(f) /\ UNCHANGED <<wait, inbox, reported, loose>>
    BY <1>10 DEF AutoRead
  <2>2. CASE Seen(f) = Blank
    <3>1. page' = Detected(f) /\ flow' = [flow EXCEPT ![f] = At(f, "cloud")]
      BY <1>10, <2>2 DEF AutoRead
    <3>2. Becomes(f, flow, wait, At(f, "cloud"))
      BY <1>2, <1>4, <1>5, <2>1, <3>1 DEF Becomes
    <3> QED BY <1>3, <1>4, <1>7, <1>9, <2>1, <3>1, <3>2, GoesOnGood
  <2>3. CASE Seen(f) # Blank
    <3>1. page' = [Detected(f) EXCEPT !.busy = FALSE, !.auto = FALSE]
          /\ flow' = [flow EXCEPT ![f] = NoFlow]
      BY <1>10, <2>3 DEF AutoRead
    <3>2. Becomes(f, flow, wait, NoFlow)
      BY <1>2, <1>4, <1>5, <2>1, <3>1 DEF Becomes
    <3> QED BY <1>3, <1>4, <2>1, <3>1, <3>2, EndsGood
  <2> QED BY <2>2, <2>3
<1>11. flow[f].at \in {"recheck", "checking"} => flow[f].kind = "auto"
  BY <1>2 DEF Shape, FlowRecords, Kinds
<1>12. CASE Rechecked(f)
  <2>1. flow[f].kind = "auto" /\ ReadHere(f) /\ UNCHANGED <<wait, inbox, loose>>
    BY <1>11, <1>12 DEF Rechecked
  <2>2. CASE Seen(f) = Blank
    <3>1. /\ page' = [Detected(f) EXCEPT !.step = "write", !.rebootSent = FALSE]
          /\ flow' = [flow EXCEPT ![f] = [At(f, "fetching") EXCEPT !.dev = page.device]]
          /\ UNCHANGED reported
      BY <1>12, <2>2 DEF Rechecked, Fetching
    <3>2. page' \in Pages /\ page'.busy = page.busy /\ page'.auto = page.auto
      BY <1>4, <3>1 DEF Pages
    <3>3. Becomes(f, flow, wait, [At(f, "fetching") EXCEPT !.dev = page.device])
      BY <1>2, <1>5, <2>1, <3>1, <3>2 DEF Becomes
    <3> QED BY <1>3, <1>7, <1>9, <2>1, <3>2, <3>3, GoesOnGood
  <2>3. CASE Seen(f) # Blank
    <3>1. /\ page' = Detected(f) /\ Report("failed")
          /\ flow' = [flow EXCEPT ![f] = [At(f, "closing") EXCEPT !.failed = TRUE]]
      BY <1>12, <2>3 DEF Rechecked
    <3>2. Becomes(f, flow, wait, [At(f, "closing") EXCEPT !.failed = TRUE])
      BY <1>4, <1>5, <1>6, <2>1, <3>1 DEF Becomes
    <3> QED BY <1>3, <1>4, <1>7, <1>9, <2>1, <3>1, <3>2, GoesOnGood
  <2> QED BY <2>2, <2>3
<1>13. CASE Verified(f)
  <2>1. flow[f].kind = "auto" /\ ReadHere(f) /\ page' = Detected(f) /\ UNCHANGED <<wait, inbox, loose>>
    BY <1>11, <1>13 DEF Verified
  <2>2. PICK stage \in {"closing", "verifying"} : flow' = [flow EXCEPT ![f] = At(f, stage)]
    BY <1>13 DEF Verified
  <2>3. reported' \in Reports
    BY <1>2, <1>6, <1>13 DEF Verified
  <2>4. Becomes(f, flow, wait, At(f, stage))
    BY <1>4, <1>5, <2>1, <2>2, <2>3 DEF Becomes
  <2>5. GoesOn(f, stage, At(f, stage))
    BY <1>7, <1>9, <2>1
  <2> QED BY <1>3, <1>4, <2>1, <2>4, <2>5, GoesOnGood
<1> QED BY <1>1, <1>8, <1>10, <1>12, <1>13

LEMMA StatusUnansweredGood ==
    ASSUME Good, NEW f \in Flows, StatusUnanswered(f)
    PROVE  Good'
<1>1. /\ flow[f].io = "wait" /\ flow[f].reply \in {"timeout", "cancelled"}
      /\ flow[f].at \in StatusChecks /\ UNCHANGED mfg
  BY DEF StatusUnanswered
<1>2. flow[f].kind \notin {"none", "attach"} /\ page \in Pages
  BY <1>1, FlowFacts DEF Shape, StatusChecks
<1>3. Handled(f, flow, wait)
  BY <1>1, HandledHere
<1>4. \/ /\ AskStatus(f, flow, page, "retry") /\ flow[f].kind = "auto"
         /\ UNCHANGED <<link, inbox, reported, loose>>
      \/ EndAuto(f, flow, wait, FALSE) /\ flow[f].kind = "auto"
      \/ Fail(f, flow, wait)
  BY DEF StatusUnanswered
<1>5. CASE AskStatus(f, flow, page, "retry") /\ flow[f].kind = "auto"
           /\ UNCHANGED <<link, inbox, reported, loose>>
  <2>1. Ready(flow[f])
    BY <1>1 DEF Ready
  <2>2. \A g \in Flows \ {f} : ~Ready(flow[g])
    BY <2>1 DEF Good, World, OneReady
  <2>3. "retry" \in StatusChecks
    BY DEF StatusChecks
  <2> QED BY <1>1, <1>2, <1>5, <2>2, <2>3, AskStatusGood
<1>6. CASE EndAuto(f, flow, wait, FALSE) /\ flow[f].kind = "auto"
  BY <1>3, <1>6, EndAutoGood
<1>7. CASE Fail(f, flow, wait)
  BY <1>2, <1>3, <1>7, FailGood
<1> QED BY <1>4, <1>5, <1>6, <1>7

-----------------------------------------------------------------------------
(* Lines that are written, and answers.                                     *)

\* A line is written or cut off: nobody else's place in its script changes.
LEMMA WrittenAcks ==
    ASSUME NEW fl, NEW w, World(fl, w), NEW f \in Flows, NEW r \in FlowRecords,
           r.at # "script", ~r.valid
    PROVE  LET f2 == [Advanced(fl) EXCEPT ![f] = r] IN
           /\ \A g \in Flows : Subdued(fl[g], f2[g]) /\ (f2[g].valid => fl[g].valid)
           /\ \A g \in Flows \ {f} : f2[g].kind = fl[g].kind
<1> DEFINE f2 == [Advanced(fl) EXCEPT ![f] = r]
<1>1. /\ f2[f] = r
      /\ \A g \in Flows \ {f} :
            /\ f2[g].kind = fl[g].kind /\ f2[g].at = fl[g].at
            /\ f2[g].cmd = fl[g].cmd /\ f2[g].io = fl[g].io /\ f2[g].reply = fl[g].reply
            /\ f2[g].misled = fl[g].misled /\ f2[g].dev = fl[g].dev
            /\ f2[g].valid = fl[g].valid /\ f2[g].event = fl[g].event
  <2>1. fl \in [Flows -> FlowRecords]
    BY WorldFacts
  <2> QED BY <2>1, AdvancedRecords
<1> HIDE DEF f2
<1>2. \A g \in Flows : Subdued(fl[g], f2[g]) /\ (f2[g].valid => fl[g].valid)
  BY <1>1 DEF Subdued
<1> QED BY <1>1, <1>2 DEF f2

LEMMA RebootSentGood ==
    ASSUME Good, NEW f \in Flows, RebootSent(f)
    PROVE  Good'
<1>1. /\ flow[f].io = "send" /\ flow[f].ahead = 0 /\ flow[f].cmd = Reboot
      /\ reported' = Told(page.device, "succeeded")
      /\ UNCHANGED <<wait, link, inbox, mfg, loose>>
  BY DEF RebootSent, MyTurn, Report
<1>2. /\ flow[f] \in FlowRecords /\ Shape(flow[f]) /\ page \in Pages
  BY FlowFacts
<1>3. flow[f].at = "script" /\ flow[f].kind \in {"write", "auto"} /\ flow[f].reply = "none"
  BY <1>1, <1>2, Numbers DEF Shape, FlowRecords, Kinds, StatusChecks
<1>4. /\ page' \in {page, [page EXCEPT !.detected = None, !.step = "verify"]}
  BY DEF RebootSent
<1>5. page' \in Pages /\ page'.busy = page.busy /\ page'.auto = page.auto
  BY <1>2, <1>4 DEF Pages, Answers
<1>6. reported' \in Reports
  BY <1>1, <1>2 DEF Told, Reports, Pages
<1>7. PICK stage \in {"closing", "succeeding"} :
         /\ flow' = [Advanced(flow) EXCEPT ![f] = At(f, stage)]
         /\ flow[f].kind = "write" => stage = "closing"
  BY DEF RebootSent
<1>8. GoesOn(f, stage, At(f, stage))
  <2>1. stage \in CalmStages(flow[f].kind)
    BY <1>3, <1>7 DEF CalmStages, Stages, StatusChecks
  <2> QED BY <1>2, <1>3, <2>1, AtCalm
<1> DEFINE r == At(f, stage)
<1>9. Calm(r) /\ r.kind = flow[f].kind /\ ~r.valid /\ r \in FlowRecords /\ r.at # "script"
  BY <1>8 DEF GoesOn, Calm
<1>10. flow' = [Advanced(flow) EXCEPT ![f] = r]
  BY <1>7
<1> HIDE DEF r
<1>11. World(flow, wait) /\ flow \in [Flows -> FlowRecords]
  BY FlowFacts DEF Good
<1>12. World(flow', wait)
  BY <1>1, <1>3, <1>9, <1>10, <1>11, WrittenWorld
<1>13. /\ \A g \in Flows : Subdued(flow[g], flow'[g]) /\ (flow'[g].valid => flow[g].valid)
       /\ \A g \in Flows \ {f} : flow'[g].kind = flow[g].kind
       /\ flow'[f] = r
  <2>1. flow'[f] = r
    BY <1>9, <1>10, <1>11, AdvancedRecords
  <2> QED BY <1>9, <1>10, <1>11, <2>1, WrittenAcks
<1>14. \A g \in Flows : flow'[g].kind = flow[g].kind
  BY <1>9, <1>13
<1>15. Acks(flow', link', inbox', mfg')
  BY <1>1, <1>13, SubduedAcks DEF Good, Acks
<1>16. Owned(flow', page', loose')
  BY <1>1, <1>5, <1>14, SameKindsOwned DEF Good
<1> QED BY <1>1, <1>5, <1>6, <1>12, <1>15, <1>16 DEF Good, Rest

LEMMA TimeoutGood ==
    ASSUME Good, NEW f \in Flows, Timeout(f)
    PROVE  Good'
<1> DEFINE r == [flow[f] EXCEPT !.reply = "timeout"]
<1>1. /\ Quiet /\ wait.flow = f /\ wait' = NoWait
      /\ UNCHANGED <<page, link, inbox, mfg, reported, loose>>
  BY DEF Timeout
<1>2. /\ flow \in [Flows -> FlowRecords] /\ flow[f] \in FlowRecords /\ World(flow, wait)
  BY FlowFacts DEF Good
<1>3. flow' = [flow EXCEPT ![f] = r]
  BY <1>2 DEF Timeout
<1>4. /\ r \in FlowRecords /\ r.kind = flow[f].kind /\ r.at = flow[f].at /\ r.board = flow[f].board
      /\ r.cmd = flow[f].cmd /\ r.io = flow[f].io /\ r.ahead = flow[f].ahead
      /\ r.reply = "timeout" /\ r.misled = flow[f].misled /\ r.valid = flow[f].valid
      /\ r.dev = flow[f].dev /\ r.event = flow[f].event
  BY <1>2 DEF FlowRecords
<1> HIDE DEF r
<1>5. \A g \in Flows : ~Ready(flow[g])
  BY <1>1 DEF Quiet, Ready
<1>6. World(flow', NoWait)
  BY <1>1, <1>2, <1>3, <1>4, <1>5, SettledWorld
<1>7. flow'[f] = r /\ \A g \in Flows \ {f} : flow'[g] = flow[g]
  BY <1>2, <1>3
<1>8. \A g \in Flows : Subdued(flow[g], flow'[g]) /\ (flow'[g].valid => flow[g].valid)
                       /\ flow'[g].kind = flow[g].kind
  BY <1>4, <1>7 DEF Subdued
<1>9. Acks(flow', link', inbox', mfg')
  BY <1>1, <1>8, SubduedAcks DEF Good, Acks
<1>10. Owned(flow', page', loose')
  BY <1>1, <1>8, SameKindsOwned DEF Good
<1> QED BY <1>1, <1>6, <1>9, <1>10, NoEvents DEF Good, Rest

\* An event is read.
LEMMA TailConfirmed ==
    ASSUME NEW r, NEW i \in Seq(Events), i # <<>>, Confirmed(r, Tail(i))
    PROVE  Confirmed(r, i)
<1>1. /\ Len(i) \in Nat /\ Len(i) > 0 /\ DOMAIN i = 1..Len(i) /\ DOMAIN Tail(i) = 1..(Len(i) - 1)
      /\ \A k \in 1..(Len(i) - 1) : Tail(i)[k] = i[k + 1]
  OBVIOUS
<1>2. PICK k \in DOMAIN Tail(i) :
         /\ <<Tail(i)[k].t, Tail(i)[k].n>> = Expects(r) /\ Tail(i)[k].ok
         /\ \A j \in DOMAIN Tail(i) : j > k => <<Tail(i)[j].t, Tail(i)[j].n>> # Expects(r)
  BY DEF Confirmed
<1>3. /\ k + 1 \in DOMAIN i /\ Tail(i)[k] = i[k + 1]
  BY <1>1, <1>2
<1>4. ASSUME NEW j \in DOMAIN i, j > k + 1 PROVE <<i[j].t, i[j].n>> # Expects(r)
  <2>1. j - 1 \in DOMAIN Tail(i) /\ j - 1 > k /\ Tail(i)[j - 1] = i[j]
    <3>1. j \in Int /\ k \in Int /\ j - 1 \in 1..(Len(i) - 1) /\ j - 1 > k /\ (j - 1) + 1 = j
      BY <1>1, <1>4
    <3>2. Tail(i)[j - 1] = i[(j - 1) + 1]
      BY <1>1, <3>1
    <3> QED BY <1>1, <3>1, <3>2
  <2> QED BY <1>2, <2>1
<1> QED BY <1>2, <1>3, <1>4 DEF Confirmed

\* The event at the head settles the wait: what it makes of the flow that waits.
LEMMA SettlesFlow ==
    ASSUME Good, Deliver, Settles(Head(inbox))
    PROVE  LET e == Head(inbox)
               f == wait.flow
               m == flow[f].misled \/ Misleading
               r == [flow[f] EXCEPT !.reply = "got", !.event = e, !.misled = m]
           IN  /\ f \in Flows /\ wait.t = e.t /\ wait.n = e.n /\ wait' = NoWait
               /\ flow[f] \in FlowRecords /\ Shape(flow[f]) /\ flow[f].reply = "pending"
               /\ <<wait.t, wait.n>> = Expects(flow[f])
               /\ m \in BOOLEAN /\ (flow[f].io = "send" => m)
               /\ flow' = [flow EXCEPT ![f] = r]
               /\ flow'[f] = r /\ \A g \in Flows \ {f} : flow'[g] = flow[g]
               /\ r \in FlowRecords /\ r.kind = flow[f].kind /\ r.at = flow[f].at /\ r.board = flow[f].board
               /\ r.cmd = flow[f].cmd /\ r.io = flow[f].io /\ r.ahead = flow[f].ahead
               /\ r.reply = "got" /\ r.misled = m /\ r.valid = flow[f].valid
               /\ r.dev = flow[f].dev /\ r.event = e
<1> DEFINE e == Head(inbox)
           f == wait.flow
           m == flow[f].misled \/ Misleading
           r == [flow[f] EXCEPT !.reply = "got", !.event = e, !.misled = m]
<1>0. World(flow, wait) /\ wait \in Waits /\ flow \in [Flows -> FlowRecords] /\ e \in Events
      /\ Settles(e)
  BY WorldFacts DEF Good, Rest, Deliver
<1> HIDE DEF e
<1>1. /\ f \in Flows /\ wait.t = e.t /\ wait.n = e.n
  BY <1>0, WorldFacts DEF Settles, Waits
<1>2. /\ flow' = [flow EXCEPT ![wait.flow].reply = "got", ![wait.flow].event = e,
                              ![wait.flow].misled = @ \/ Misleading]
      /\ wait' = NoWait
  BY <1>0 DEF Deliver, e
<1>3. flow[f] \in FlowRecords /\ Shape(flow[f]) /\ flow[f].reply = "pending"
      /\ \A g \in Flows : flow[g].reply = "pending" => g = f
  BY <1>0, <1>1, WorldFacts
<1>4. <<wait.t, wait.n>> = Expects(flow[f])
  BY <1>0, <1>1 DEF World, Awaited
<1>5. /\ m \in BOOLEAN /\ (~m => ~flow[f].misled /\ ~Misleading)
      /\ flow[f].misled => m
  BY <1>3 DEF FlowRecords, Misleading
<1>6. flow'[f] = r /\ \A g \in Flows \ {f} : flow'[g] = flow[g]
  BY <1>0, <1>1, <1>2, <1>3 DEF FlowRecords
<1>7. flow' = [flow EXCEPT ![f] = r]
  BY <1>0, <1>1, <1>2, <1>6
<1>8. flow[f].io = "send" => m
  BY DEF Misleading
<1> HIDE DEF m
<1>9. /\ r \in FlowRecords /\ r.kind = flow[f].kind /\ r.at = flow[f].at /\ r.board = flow[f].board
      /\ r.cmd = flow[f].cmd /\ r.io = flow[f].io /\ r.ahead = flow[f].ahead
      /\ r.reply = "got" /\ r.misled = m /\ r.valid = flow[f].valid
      /\ r.dev = flow[f].dev /\ r.event = e
  BY <1>0, <1>3, <1>5 DEF FlowRecords
<1> HIDE DEF r
<1> QED BY <1>1, <1>2, <1>3, <1>4, <1>5, <1>6, <1>7, <1>8, <1>9 DEF e, m, r

LEMMA DeliverGood ==
    ASSUME Good, Deliver
    PROVE  Good'
<1> DEFINE e == Head(inbox)
<1>1. /\ Quiet /\ inbox # <<>> /\ inbox' = Tail(inbox)
      /\ UNCHANGED <<page, link, mfg, reported, loose>>
  BY DEF Deliver
<1>2. /\ inbox \in Seq(Events) /\ World(flow, wait) /\ wait \in Waits /\ link.board # None
  BY <1>1 DEF Good, Rest, Acks
<1>3. e \in Events /\ e = inbox[1] /\ inbox' \in Seq(Events) /\ Len(inbox) \in Nat
      /\ DOMAIN inbox = 1..Len(inbox) /\ 1 \in DOMAIN inbox
  BY <1>1, <1>2
<1> HIDE DEF e
<1>4. flow \in [Flows -> FlowRecords]
  BY <1>2, WorldFacts
<1>5. ASSUME NEW g \in Flows
      PROVE  flow[g].valid => link.board # None
  BY <1>2
<1>6. ASSUME NEW g \in Flows PROVE Knows(flow[g], Tail(inbox), mfg[link.board])
  <2>1. Knows(flow[g], inbox, mfg[link.board])
    BY <1>2 DEF Good, Acks
  <2>2. Confirmed(flow[g], Tail(inbox)) => Confirmed(flow[g], inbox)
    BY <1>1, <1>2, TailConfirmed
  <2> QED BY <2>1, <2>2 DEF Knows
<1>7. CASE ~Settles(e)
  <2>1. UNCHANGED <<flow, wait>>
    BY <1>7 DEF Deliver, e
  <2>2. Acks(flow, link, Tail(inbox), mfg)
    BY <1>2, <1>6 DEF Acks
  <2>3. Owned(flow', page', loose')
    BY <1>1, <2>1 DEF Good
  <2> QED BY <1>1, <1>2, <1>3, <2>1, <2>2, <2>3 DEF Good, Rest
<1>8. CASE Settles(e)
  <2> DEFINE f == wait.flow
             m == flow[f].misled \/ Misleading
             r == [flow[f] EXCEPT !.reply = "got", !.event = e, !.misled = m]
  <2>1. /\ f \in Flows /\ wait.t = e.t /\ wait.n = e.n /\ wait' = NoWait
        /\ flow[f] \in FlowRecords /\ Shape(flow[f]) /\ flow[f].reply = "pending"
        /\ <<wait.t, wait.n>> = Expects(flow[f])
        /\ m \in BOOLEAN /\ (flow[f].io = "send" => m)
        /\ flow' = [flow EXCEPT ![f] = r]
        /\ flow'[f] = r /\ \A g \in Flows \ {f} : flow'[g] = flow[g]
        /\ r \in FlowRecords /\ r.kind = flow[f].kind /\ r.at = flow[f].at /\ r.board = flow[f].board
        /\ r.cmd = flow[f].cmd /\ r.io = flow[f].io /\ r.ahead = flow[f].ahead
        /\ r.reply = "got" /\ r.misled = m /\ r.valid = flow[f].valid
        /\ r.dev = flow[f].dev /\ r.event = e
    BY <1>8, SettlesFlow DEF e
  <2>5. (~m => ~flow[f].misled /\ ~Misleading) /\ (flow[f].misled => m)
    OBVIOUS
  <2> HIDE DEF m, r
  <2>10. \A g \in Flows : ~Ready(flow[g])
    BY <1>1 DEF Quiet, Ready
  <2>11. World(flow', NoWait)
    <3>1. wait.flow = f
      OBVIOUS
    <3> HIDE DEF f
    <3>2. /\ f \in Flows /\ flow' = [flow EXCEPT ![f] = r] /\ r \in FlowRecords
          /\ r.kind = flow[f].kind /\ r.at = flow[f].at /\ r.board = flow[f].board
          /\ r.cmd = flow[f].cmd /\ r.io = flow[f].io /\ r.ahead = flow[f].ahead
          /\ r.reply \in {"got", "timeout"} /\ r.valid = flow[f].valid
          /\ (flow[f].misled => r.misled) /\ (r.io = "send" => r.misled)
      BY <2>1, <2>5
    <3> QED BY <1>2, <2>10, <3>1, <3>2, SettledWorld
  <2>12. Knows(r, Tail(inbox), mfg[link.board])
    <3> SUFFICES ASSUME r.at = "script", ~r.misled, r.io = "wait", e.ok
                 PROVE  Prefix(mfg[link.board], r.dev, r.cmd + 1)
      BY <2>1, <2>5 DEF Knows
    <3>1. ~flow[f].misled /\ ~Misleading
      BY <2>5, <2>1
    <3>2. Confirmed(flow[f], inbox)
      <4>1. <<inbox[1].t, inbox[1].n>> = Expects(flow[f]) /\ inbox[1].ok
        BY <1>3, <2>1
      <4>2. ASSUME NEW j \in DOMAIN inbox, j > 1 PROVE <<inbox[j].t, inbox[j].n>> # Expects(flow[f])
        <5>1. j \in 2..Len(inbox)
          BY <1>3, <4>2
        <5>2. ~Settles(inbox[j])
          BY <3>1, <5>1 DEF Misleading
        <5>3. wait # NoWait
          BY <1>8 DEF Settles
        <5> QED BY <2>1, <5>2, <5>3 DEF Settles
      <4> QED BY <1>3, <4>1, <4>2 DEF Confirmed
    <3>3. Knows(flow[f], inbox, mfg[link.board])
      BY <1>2, <2>1 DEF Good, Acks
    <3> QED BY <2>1, <3>1, <3>2, <3>3 DEF Knows
  <2>13. Acks(flow', link, Tail(inbox), mfg)
    BY <1>2, <1>6, <2>1, <2>12 DEF Acks
  <2>14. \A g \in Flows : flow'[g].kind = flow[g].kind
    BY <2>1
  <2>15. Owned(flow', page', loose')
    BY <1>1, <2>14, SameKindsOwned DEF Good
  <2> QED BY <1>1, <1>3, <2>1, <2>11, <2>13, <2>15, NoEvents DEF Good, Rest
<1> QED BY <1>7, <1>8

\* What a line makes of a page, for each line.
LEMMA ExecutedPage ==
    ASSUME NEW m \in [id : Ids, parts : [Values -> Devices \cup {None}]], NEW n \in 0..Reboot,
           NEW d \in Devices \cup {None}
    PROVE  /\ n = Erase => Executed(m, n, d) = Erased
           /\ n \in {0, Reboot} => Executed(m, n, d) = m
           /\ n # Erase /\ m.id # Blank => Executed(m, n, d) = m
           /\ n \in 2..(NumValues + 1) /\ m.id = Blank
                 => Executed(m, n, d) = [m EXCEPT !.parts[n - 1] = d]
           /\ n = Finalize /\ m.id = Blank /\ (\A v \in Values : m.parts[v] # None)
                 => Executed(m, n, d) = [m EXCEPT !.id = m.parts[1]]
           /\ n = Finalize /\ ~(m.id = Blank /\ \A v \in Values : m.parts[v] # None)
                 => Executed(m, n, d) = m
<1>1. {SetCmd(v) : v \in Values} = 2..(NumValues + 1)
  <2>1. \A v \in Values : SetCmd(v) \in 2..(NumValues + 1)
    BY Numbers DEF SetCmd
  <2>2. \A k \in 2..(NumValues + 1) : k - 1 \in Values /\ SetCmd(k - 1) = k
    BY Numbers DEF SetCmd
  <2> QED BY <2>1, <2>2
<1>2. /\ Erase = 1 /\ Finalize = NumValues + 2 /\ Reboot = NumValues + 3 /\ NumValues \in Nat
      /\ n \in Int
  BY Numbers
<1> HIDE DEF Erased
<1> QED BY <1>1, <1>2 DEF Executed

LEMMA ErasedPrefix ==
    ASSUME NEW d, NEW n
    PROVE  Prefix(Erased, d, n)
BY DEF Prefix, Erased

\* A flow's own line makes the beginning of its script longer.
LEMMA OwnPrefix ==
    ASSUME NEW m \in [id : Ids, parts : [Values -> Devices \cup {None}]], NEW n \in 2..Finalize,
           NEW d \in Devices \cup {None}, Prefix(m, d, n)
    PROVE  Prefix(Executed(m, n, d), d, n + 1)
<1> DEFINE x == Executed(m, n, d)
<1>1. /\ Erase = 1 /\ Finalize = NumValues + 2 /\ Reboot = NumValues + 3 /\ NumValues \in Nat
      /\ n \in Int /\ n >= 2 /\ n <= NumValues + 2
  BY Numbers
<1>2. n \in 0..Reboot /\ n # Erase
  BY <1>1
<1>3. CASE m.id # Blank
  <2>1. x = m
    BY <1>2, <1>3, ExecutedPage
  <2> QED BY <1>3, <2>1 DEF Prefix
<1>4. CASE m.id = Blank /\ n # Finalize
  <2>1. n - 1 \in Values /\ n \in 2..(NumValues + 1)
    BY <1>1, <1>4, Numbers
  <2>2. x = [m EXCEPT !.parts[n - 1] = d]
    BY <1>2, <1>4, <2>1, ExecutedPage
  <2> HIDE DEF x
  <2>3. x.parts[n - 1] = d /\ \A v \in Values \ {n - 1} : x.parts[v] = m.parts[v]
    BY <2>1, <2>2
  <2>4. ASSUME NEW v \in Values, SetCmd(v) < n + 1 PROVE x.parts[v] \in {d, None}
    <3>1. v = n - 1 \/ SetCmd(v) < n
      BY <1>1, <2>4, Numbers DEF SetCmd
    <3> QED BY <1>4, <2>3, <3>1 DEF Prefix
  <2>5. Prefix(x, d, n + 1)
    BY <2>4 DEF Prefix
  <2> QED BY <2>5 DEF x
<1>5. CASE m.id = Blank /\ n = Finalize
  <2>1. \A v \in Values : SetCmd(v) < n
    BY <1>1, <1>5, Numbers DEF SetCmd
  <2>2. x.parts = m.parts
    <3>1. x = m \/ x = [m EXCEPT !.id = m.parts[1]]
      BY <1>2, <1>5, ExecutedPage
    <3> QED BY <3>1
  <2> HIDE DEF x
  <2>3. \A v \in Values : x.parts[v] \in {d, None}
    BY <1>5, <2>1, <2>2 DEF Prefix
  <2>4. Prefix(x, d, n + 1)
    BY <2>3 DEF Prefix
  <2> QED BY <2>4 DEF x
<1> QED BY <1>3, <1>4, <1>5

\* The line that is written leaves the beginning of another flow's script as it
\* was, if that flow still goes by its own answers.
LEMMA OthersPrefix ==
    ASSUME Good, Memory, NEW f \in Flows, MyTurn(f), Up, NEW g \in Flows, g # f,
           flow[g].at = "script", ~flow[g].misled, flow[g].io = "send",
           Prefix(mfg[link.board], flow[g].dev, flow[g].cmd)
    PROVE  Prefix(Executed(mfg[link.board], flow[f].cmd, flow[f].dev), flow[g].dev, flow[g].cmd)
<1> DEFINE m == mfg[link.board]
<1>1. /\ flow[f] \in FlowRecords /\ Shape(flow[f]) /\ flow[g] \in FlowRecords /\ Shape(flow[g])
      /\ link \in Links
  BY FlowFacts
<1>2. m \in [id : Ids, parts : [Values -> Devices \cup {None}]]
  BY <1>1 DEF Memory, Up, Links
<1>3. flow[f].io = "send" /\ flow[f].ahead = 0 /\ flow[g].ahead \in Nat
  BY WorldFacts DEF MyTurn, Good
<1>4. flow[f].cmd \in 0..Reboot /\ flow[f].dev \in Devices \cup {None}
  BY <1>1 DEF FlowRecords
<1>5. CASE Brief(flow[f])
  <2>1. flow[f].cmd \in {Erase, Reboot}
    BY <1>5 DEF Brief
  <2>2. Executed(m, flow[f].cmd, flow[f].dev) \in {Erased, m}
    BY <1>2, <1>4, <2>1, ExecutedPage
  <2> QED BY <2>2, ErasedPrefix
<1>6. CASE ~Brief(flow[f])
  <2>1. ~(flow[g].cmd > 2)
    BY <1>3, <1>6 DEF Good, World, NoneBetween
  <2>2. flow[g].cmd \in 1..2
    <3>1. flow[g].cmd \in Erase..Reboot
      BY <1>1 DEF Shape
    <3> QED BY <2>1, <3>1, Numbers
  <2> QED BY <2>2, PrefixShort
<1> QED BY <1>5, <1>6

\* Only the flows with which fl differs from Fail's argument count.
LEMMA FailAlike ==
    ASSUME NEW f \in Flows, NEW fl, NEW f2, NEW w, Fail(f, fl, w),
           \A r : [fl EXCEPT ![f] = r] = [f2 EXCEPT ![f] = r]
    PROVE  Fail(f, f2, w)
BY DEF Fail, EndAuto

LEMMA SendFailsGood ==
    ASSUME Good, Memory, NEW f \in Flows, SendFails(f)
    PROVE  Good'
<1> DEFINE c == Cancelled(flow, wait)
           k == IF flow[f].kind = "write" THEN "closing" ELSE "linking"
           r == At(f, k)
           fl == [Advanced(c) EXCEPT ![f] = r]
<1>1. MyTurn(f) /\ Fail(f, Advanced(c), NoWait) /\ Quiet
  BY DEF SendFails, MyTurn
<1>2. /\ flow[f] \in FlowRecords /\ Shape(flow[f]) /\ page \in Pages /\ link \in Links
  BY FlowFacts
<1>3. flow[f].io = "send" /\ flow[f].ahead = 0
  BY <1>1 DEF MyTurn
<1>4. flow[f].kind \in {"auto", "write", "verify", "connect"}
  BY <1>2, <1>3 DEF Shape, FlowRecords, Kinds, StatusChecks
<1>5. GoesOn(f, k, r)
  <2>1. k \in CalmStages(flow[f].kind)
    BY <1>4 DEF CalmStages, Stages, StatusChecks
  <2> QED BY <1>2, <1>4, <2>1, AtCalm
<1>6. Calm(r) /\ r.kind = flow[f].kind /\ ~r.valid /\ r.at # "script" /\ r.io = "none" /\ r.reply = "none"
      /\ r \in FlowRecords
  BY <1>5 DEF GoesOn, Calm
<1>7. World(c, NoWait) /\ \A g \in Flows : CancelledRecord(flow[g], c[g])
  BY CancelledWorld DEF Good, Rest, Waits
<1> HIDE DEF c, r
<1>8. c \in [Flows -> FlowRecords]
  BY <1>7, WorldFacts
<1>9. c[f].io = "send" /\ c[f].ahead = 0 /\ c[f].reply # "pending" /\ c[f].kind = flow[f].kind
  BY <1>3, <1>7 DEF CancelledRecord
<1>10. World(fl, NoWait)
  BY <1>6, <1>7, <1>9, WrittenWorld
<1>11. /\ \A g \in Flows : Subdued(c[g], fl[g]) /\ (fl[g].valid => c[g].valid)
       /\ \A g \in Flows \ {f} : fl[g].kind = c[g].kind
       /\ fl[f] = r
  <2>1. fl[f] = r
    BY <1>6, <1>8, AdvancedRecords
  <2> QED BY <1>6, <1>7, <2>1, WrittenAcks
<1>12. \A g \in Flows \ {f} : fl[g].io = flow[g].io /\ fl[g].reply = c[g].reply /\ fl[g].at = flow[g].at
          /\ fl[g].cmd = flow[g].cmd /\ fl[g].dev = flow[g].dev /\ fl[g].misled = flow[g].misled
  BY <1>6, <1>7, <1>8, AdvancedRecords DEF CancelledRecord
<1>13. \A g \in Flows : fl[g].kind = flow[g].kind
  BY <1>6, <1>7, <1>11 DEF CancelledRecord
<1>14. Fail(f, fl, NoWait)
  <2>1. Advanced(c) \in [Flows -> {Advanced(c)[g] : g \in Flows}]
    BY DEF Advanced
  <2>2. \A s : [Advanced(c) EXCEPT ![f] = s] = [fl EXCEPT ![f] = s]
    BY <2>1
  <2> HIDE DEF fl
  <2> QED BY <1>1, <2>2, FailAlike
<1> HIDE DEF fl
<1>15. Acks(c, link, inbox, mfg)
  <2>1. \A g \in Flows : Subdued(flow[g], c[g]) /\ (c[g].valid => flow[g].valid)
    BY <1>7, CancelledSubdued
  <2> QED BY <2>1, SubduedAcks DEF Good, Acks
<1>16. Acks(fl, link, inbox, mfg)
  BY <1>11, <1>15, SubduedAcks DEF Acks
<1>17. Acks(fl, link, inbox, mfg')
  <2>1. CASE mfg' = mfg
    BY <1>16, <2>1
  <2>2. CASE mfg' # mfg
    <3>1. /\ flow[f].valid
          /\ \E m \in {mfg[link.board], Executed(mfg[link.board], flow[f].cmd, flow[f].dev)} :
                mfg' = [mfg EXCEPT ![link.board] = m]
      BY <2>2 DEF SendFails
    <3>2. Up
      BY <3>1 DEF Good, Acks, Up
    <3>3. link.board \in Boards /\ mfg \in [Boards -> [id : Ids, parts : [Values -> Devices \cup {None}]]]
      BY <1>2, <3>2 DEF Links, Up, Memory
    <3>4. mfg'[link.board] = mfg[link.board]
          \/ mfg'[link.board] = Executed(mfg[link.board], flow[f].cmd, flow[f].dev)
      BY <3>1, <3>3
    <3>5. ASSUME NEW g \in Flows PROVE Knows(fl[g], inbox, mfg'[link.board])
      <4>1. CASE g = f
        BY <1>6, <1>11, <4>1 DEF Knows
      <4>2. CASE g # f
        <5>1. Knows(fl[g], inbox, mfg[link.board])
          BY <1>16, <3>2 DEF Acks, Up
        <5>2. fl[g].reply # "pending" /\ (fl[g].io = "wait" => fl[g].reply # "got")
          <6>1. flow[g].io = "wait" => flow[g].reply # "got"
            BY <1>1 DEF Quiet
          <6> QED BY <1>7, <1>12, <4>2, <6>1 DEF CancelledRecord
        <5>3. ASSUME fl[g].at = "script", ~fl[g].misled, fl[g].io = "send", fl[g].valid
              PROVE  Prefix(mfg'[link.board], fl[g].dev, fl[g].cmd)
          <6>1. Prefix(mfg[link.board], fl[g].dev, fl[g].cmd)
            BY <5>1, <5>3 DEF Knows
          <6> QED BY <1>1, <1>12, <3>2, <3>4, <4>2, <5>3, <6>1, OthersPrefix
        <5> QED BY <5>2, <5>3 DEF Knows
      <4> QED BY <4>1, <4>2
    <3> QED BY <1>16, <3>2, <3>5 DEF Acks, Up
  <2> QED BY <2>1, <2>2
<1>18. Handled(f, fl, NoWait)
  BY <1>6, <1>10, <1>11, <1>13, <1>17, NoEvents DEF Handled
<1> QED BY <1>4, <1>14, <1>18, FailGood

LEMMA EventSequences ==
    /\ <<>> \in Seq(Events) /\ \A e \in Events : <<e>> \in Seq(Events) /\ <<e>>[1] = e
    /\ \A i, j \in Seq(Events) : i \o j \in Seq(Events)
OBVIOUS

\* What the board answers to a line that is answered.
LEMMA AnswerShape ==
    ASSUME NEW m \in [id : Ids, parts : [Values -> Devices \cup {None}]], NEW n \in 0..Reboot
    PROVE  /\ Answered(m, n) \in Seq(Events)
           /\ n \in 2..Finalize => \E e \in Events :
                 /\ Refused(m, n) = <<e>> /\ ~e.ok
                 /\ <<e.t, e.n>> = IF n = Finalize THEN <<"provdone", 0>> ELSE <<"provwr", n - 1>>
<1>1. {SetCmd(v) : v \in Values} = 2..(NumValues + 1)
  <2>1. \A v \in Values : SetCmd(v) \in 2..(NumValues + 1)
    BY Numbers DEF SetCmd
  <2>2. \A k \in 2..(NumValues + 1) : k - 1 \in Values /\ SetCmd(k - 1) = k
    BY Numbers DEF SetCmd
  <2> QED BY <2>1, <2>2
<1>2. /\ Finalize = NumValues + 2 /\ Reboot = NumValues + 3 /\ NumValues \in Nat /\ n \in Int
  BY Numbers
<1> DEFINE q == m.id = Blank
           z == m.id = Blank /\ \A v \in Values : m.parts[v] # None
           a == [NoEvent EXCEPT !.t = "prov", !.ok = TRUE, !.id = m.id]
           b == [NoEvent EXCEPT !.t = "provwr", !.n = n - 1, !.ok = q]
           c == [NoEvent EXCEPT !.t = "provdone", !.ok = z]
<1>3. /\ n = 0 => Answered(m, n) = <<a>>
      /\ n \in 2..(NumValues + 1) => Answered(m, n) = <<b>>
      /\ n = Finalize => Answered(m, n) = <<c>>
      /\ n \in {1, Reboot} => Answered(m, n) = <<>>
  BY <1>1, <1>2 DEF Answered
<1>4. q \in BOOLEAN /\ z \in BOOLEAN /\ m.id \in Ids /\ 0 \in 0..NumValues
  BY <1>2
<1> HIDE DEF q, z
<1>5. a \in Events
  BY <1>4, NoEvents DEF NoEvent, Events, Answers
<1>6. n \in 2..(NumValues + 1) =>
         /\ b \in Events /\ [b EXCEPT !.ok = FALSE] \in Events /\ ~[b EXCEPT !.ok = FALSE].ok
         /\ [b EXCEPT !.ok = FALSE].t = "provwr" /\ [b EXCEPT !.ok = FALSE].n = n - 1
  <2>1. n \in 2..(NumValues + 1) => n - 1 \in 0..NumValues
    BY <1>2
  <2> QED BY <1>4, <2>1 DEF NoEvent, Events, Answers
<1>7. /\ c \in Events /\ [c EXCEPT !.ok = FALSE] \in Events /\ ~[c EXCEPT !.ok = FALSE].ok
      /\ [c EXCEPT !.ok = FALSE].t = "provdone" /\ [c EXCEPT !.ok = FALSE].n = 0
  BY <1>4 DEF NoEvent, Events, Answers
<1> HIDE DEF a, b, c
<1>8. CASE n \in {0, 1, Reboot}
  <2>1. n \notin 2..Finalize
    BY <1>2, <1>8
  <2>2. Answered(m, n) = <<a>> \/ Answered(m, n) = <<>>
    BY <1>3, <1>8
  <2>3. Answered(m, n) \in Seq(Events)
    BY <1>5, <2>2, EventSequences
  <2> QED BY <2>1, <2>3
<1> DEFINE Bad(e) == [e EXCEPT !.ok = FALSE]
<1>9. ASSUME NEW e \in Events, Answered(m, n) = <<e>>, Bad(e) \in Events, ~Bad(e).ok,
             <<Bad(e).t, Bad(e).n>> = IF n = Finalize THEN <<"provdone", 0>> ELSE <<"provwr", n - 1>>
      PROVE  /\ Answered(m, n) \in Seq(Events)
             /\ \E y \in Events :
                   /\ Refused(m, n) = <<y>> /\ ~y.ok
                   /\ <<y.t, y.n>> = IF n = Finalize THEN <<"provdone", 0>> ELSE <<"provwr", n - 1>>
  <2>1. Answered(m, n)[1] = e /\ Answered(m, n) \in Seq(Events)
    BY <1>9, EventSequences
  <2>2. Refused(m, n) = <<Bad(e)>>
    BY <1>9, <2>1 DEF Refused
  <2> HIDE DEF Bad
  <2> QED BY <1>9, <2>1, <2>2
<1>10. CASE n \in 2..Finalize
  <2>1. CASE n = Finalize
    <3>1. Answered(m, n) = <<c>> /\ c \in Events /\ Bad(c) \in Events /\ ~Bad(c).ok
          /\ Bad(c).t = "provdone" /\ Bad(c).n = 0
      BY <1>3, <1>7, <2>1
    <3> HIDE DEF Bad
    <3> QED BY <1>9, <2>1, <3>1
  <2>2. CASE n # Finalize
    <3>1. n \in 2..(NumValues + 1)
      BY <1>2, <1>10, <2>2
    <3>2. Answered(m, n) = <<b>> /\ b \in Events /\ Bad(b) \in Events /\ ~Bad(b).ok
          /\ Bad(b).t = "provwr" /\ Bad(b).n = n - 1
      BY <1>3, <1>6, <3>1
    <3> HIDE DEF Bad
    <3> QED BY <1>9, <2>2, <3>2
  <2> QED BY <2>1, <2>2
<1>11. n \in {0, 1, Reboot} \/ n \in 2..Finalize
  BY <1>2
<1> QED BY <1>8, <1>10, <1>11

\* An answer to "prov status" without the SMSN.
LEMMA UnnamedShape ==
    ASSUME NEW m \in [id : Ids, parts : [Values -> Devices \cup {None}]]
    PROVE  \E e \in Events : Unnamed(m) = <<e>> /\ e.t = "prov" /\ e.id = Nameless
<1> DEFINE a == [NoEvent EXCEPT !.t = "prov", !.ok = TRUE, !.id = m.id]
           e == [a EXCEPT !.id = Nameless]
<1>1. Answered(m, 0) = <<a>>
  <2>1. \A v \in Values : SetCmd(v) # 0
    BY Numbers DEF SetCmd
  <2> QED BY <2>1, Numbers DEF Answered
<1>2. e \in Events /\ e.t = "prov" /\ e.id = Nameless
  <2>1. 0 \in 0..NumValues /\ Nameless \in Answers
    BY Numbers DEF Answers
  <2> QED BY <2>1 DEF NoEvent, Events
<1> HIDE DEF a
<1>3. Answered(m, 0)[1] = a
  BY <1>1
<1>4. Unnamed(m) = <<e>>
  BY <1>3 DEF Unnamed
<1> HIDE DEF e
<1> QED BY <1>2, <1>4

\* After a refusal nothing is confirmed.
LEMMA RefusedNotConfirmed ==
    ASSUME NEW r, NEW i \in Seq(Events), NEW e \in Events, ~e.ok, <<e.t, e.n>> = Expects(r)
    PROVE  ~Confirmed(r, i \o <<e>>)
<1> DEFINE s == i \o <<e>>
<1>1. /\ Len(i) \in Nat /\ DOMAIN s = 1..(Len(i) + 1) /\ s[Len(i) + 1] = e
  OBVIOUS
<1> HIDE DEF s
<1>2. SUFFICES ASSUME NEW k \in DOMAIN s, s[k].ok,
                      \A j \in DOMAIN s : j > k => <<s[j].t, s[j].n>> # Expects(r)
               PROVE  FALSE
  BY DEF Confirmed, s
<1>3. k # Len(i) + 1
  BY <1>1, <1>2
<1>4. Len(i) + 1 \in DOMAIN s /\ Len(i) + 1 > k
  BY <1>1, <1>2, <1>3
<1> QED BY <1>1, <1>2, <1>4

\* What the write of a line makes of the flows.
LEMMA SentFlow ==
    ASSUME Good, NEW f \in Flows, Sent(f)
    PROVE  LET n == flow[f].cmd
               io == IF Awaits(n) THEN "wait" ELSE "none"
               at == IF n = Erase THEN "settling" ELSE flow[f].at
               r == [flow[f] EXCEPT !.io = io, !.at = at]
           IN  /\ flow' = [Advanced(flow) EXCEPT ![f] = r]
               /\ r \in FlowRecords /\ r.kind = flow[f].kind /\ r.board = flow[f].board /\ r.cmd = n
               /\ r.reply = flow[f].reply /\ r.misled = flow[f].misled /\ r.ahead = 0
               /\ r.valid /\ r.dev = flow[f].dev /\ r.event = flow[f].event /\ r.io = io /\ r.at = at
               /\ flow'[f] = r
<1> DEFINE n == flow[f].cmd
           io == IF Awaits(n) THEN "wait" ELSE "none"
           at == IF n = Erase THEN "settling" ELSE flow[f].at
           r == [flow[f] EXCEPT !.io = io, !.at = at]
<1>1. MyTurn(f) /\ flow[f].valid /\ flow[f].io = "send" /\ flow[f].ahead = 0
  BY DEF Sent, MyTurn
<1>2. flow \in [Flows -> FlowRecords] /\ flow[f] \in FlowRecords
  BY FlowFacts
<1>3. flow' = [Advanced(flow) EXCEPT ![f] = r]
  <2>1. flow' = [Advanced(flow) EXCEPT ![f].io = io, ![f].at = IF n = Erase THEN "settling" ELSE @]
    BY DEF Sent
  <2>2. Advanced(flow)[f] = flow[f]
    <3>1. Advanced(flow)[f] = [flow[f] EXCEPT !.ahead = IF flow[f].ahead > 0 THEN flow[f].ahead - 1 ELSE 0]
      BY DEF Advanced
    <3>2. Advanced(flow)[f] = [flow[f] EXCEPT !.ahead = 0]
      BY <1>1, <3>1
    <3> QED BY <1>1, <1>2, <3>2 DEF FlowRecords
  <2>3. Advanced(flow) \in [Flows -> {Advanced(flow)[g] : g \in Flows}]
    BY DEF Advanced
  <2>4. [Advanced(flow) EXCEPT ![f].io = io, ![f].at = IF n = Erase THEN "settling" ELSE @]
           = [Advanced(flow) EXCEPT ![f] = r]
    <3> DEFINE A == Advanced(flow)
    <3>1. A[f] = flow[f] /\ f \in DOMAIN A
      BY <2>2, <2>3
    <3> HIDE DEF A, io
    <3>2. [A EXCEPT ![f].io = io, ![f].at = IF n = Erase THEN "settling" ELSE @]
             = [A EXCEPT ![f] = [flow[f] EXCEPT !.io = io, !.at = at]]
      BY <1>2, <3>1 DEF FlowRecords
    <3> QED BY <3>2 DEF A
  <2> QED BY <2>1, <2>4
<1>4. /\ r \in FlowRecords /\ r.kind = flow[f].kind /\ r.board = flow[f].board /\ r.cmd = n
       /\ r.reply = flow[f].reply /\ r.misled = flow[f].misled /\ r.ahead = 0
       /\ r.valid /\ r.dev = flow[f].dev /\ r.event = flow[f].event /\ r.io = io /\ r.at = at
  <2>1. io \in {"none", "wait"} /\ at \in Stages
    BY <1>2 DEF FlowRecords, Stages
  <2> HIDE DEF io, at
  <2>2. r \in FlowRecords
    BY <1>2, <2>1 DEF FlowRecords
  <2>3. /\ r.kind = flow[f].kind /\ r.board = flow[f].board /\ r.cmd = n
        /\ r.reply = flow[f].reply /\ r.misled = flow[f].misled /\ r.ahead = flow[f].ahead
        /\ r.valid = flow[f].valid
    BY <1>2 DEF FlowRecords
  <2>4. r.dev = flow[f].dev /\ r.event = flow[f].event /\ r.io = io /\ r.at = at
    BY <1>2 DEF FlowRecords
  <2> HIDE DEF r, n
  <2> QED BY <1>1, <2>2, <2>3, <2>4
<1> HIDE DEF r
<1>5. flow'[f] = r
  BY <1>2, <1>3, <1>4, AdvancedRecords
<1> QED BY <1>3, <1>4, <1>5 DEF r

LEMMA SentGood ==
    ASSUME Good, Memory, NEW f \in Flows, Sent(f)
    PROVE  Good'
<1> DEFINE n == flow[f].cmd
           d == flow[f].dev
           m == mfg[link.board]
           io == IF Awaits(n) THEN "wait" ELSE "none"
           at == IF n = Erase THEN "settling" ELSE flow[f].at
           r == [flow[f] EXCEPT !.io = io, !.at = at]
<1>1. /\ MyTurn(f) /\ flow[f].valid /\ n # Reboot
      /\ flow[f].io = "send" /\ flow[f].ahead = 0
      /\ UNCHANGED <<page, wait, link, reported, loose>>
  BY DEF Sent, MyTurn
<1>2. /\ flow \in [Flows -> FlowRecords] /\ flow[f] \in FlowRecords /\ Shape(flow[f])
      /\ page \in Pages /\ wait \in Waits /\ link \in Links /\ inbox \in Seq(Events)
      /\ World(flow, wait)
  BY FlowFacts DEF Good
<1>3. Up /\ link.board # None /\ link.board \in Boards
  <2>1. link.board # None
    BY <1>1 DEF Good, Acks
  <2> QED BY <1>2, <2>1 DEF Up, Links
<1>4. /\ mfg \in [Boards -> [id : Ids, parts : [Values -> Devices \cup {None}]]]
      /\ m \in [id : Ids, parts : [Values -> Devices \cup {None}]]
  BY <1>3 DEF Memory
<1>5. n \in 0..Reboot /\ d \in Devices \cup {None}
  BY <1>2 DEF FlowRecords
<1>6. link' \in Links /\ link'.board = link.board
  BY <1>1, <1>2
<1>7. \A g \in Flows : ~Ready(flow[g])
  BY <1>1 DEF MyTurn, Quiet, Ready
<1>8. \/ /\ mfg' = [mfg EXCEPT ![link.board] = Executed(m, n, d)]
         /\ inbox' = inbox \o Answered(m, n)
      \/ /\ mfg' = [mfg EXCEPT ![link.board] = Executed(m, n, d)] /\ Awaits(n)
         /\ UNCHANGED inbox
      \/ /\ n \in Erase + 1 .. Finalize /\ UNCHANGED mfg
         /\ inbox' = inbox \o Refused(m, n)
      \/ n = 0 /\ UNCHANGED mfg /\ inbox' = inbox \o Unnamed(m)
  BY DEF Sent
<1>9. flow' = [Advanced(flow) EXCEPT ![f] = r]
  BY SentFlow
<1>10. /\ r \in FlowRecords /\ r.kind = flow[f].kind /\ r.board = flow[f].board /\ r.cmd = n
       /\ r.reply = flow[f].reply /\ r.misled = flow[f].misled /\ r.ahead = 0
       /\ r.valid /\ r.dev = d /\ r.event = flow[f].event /\ r.io = io /\ r.at = at
  BY SentFlow
<1>11. n = Erase => flow[f].at = "script"
  BY <1>1, <1>2, Numbers DEF Shape
<1>12. ~Brief(flow[f]) <=> n # Erase
  BY <1>1, <1>11 DEF Brief
<1>13. Awaits(n) <=> n # Erase
  BY <1>1 DEF Awaits
<1> HIDE DEF r
<1>14. /\ flow'[f] = r
       /\ \A g \in Flows \ {f} :
             /\ flow'[g].kind = flow[g].kind /\ flow'[g].at = flow[g].at
             /\ flow'[g].cmd = flow[g].cmd /\ flow'[g].io = flow[g].io /\ flow'[g].reply = flow[g].reply
             /\ flow'[g].misled = flow[g].misled /\ flow'[g].dev = flow[g].dev
             /\ flow'[g].valid = flow[g].valid /\ flow'[g].event = flow[g].event
  BY <1>2, <1>9, <1>10, AdvancedRecords
<1>15. World(flow', wait')
  <2>1. CASE n = Erase
    <3>1. Calm(r)
      <4>1. Shape(r)
        <5>1. flow[f].reply = "none" /\ flow[f].kind \in {"write", "auto"}
              /\ (flow[f].kind = "auto" => flow[f].board \in Boards)
          BY <1>2, <1>11, <2>1 DEF Shape, FlowRecords, Kinds, StatusChecks
        <5> QED BY <1>10, <1>13, <2>1, <5>1 DEF Shape, StatusChecks
      <4> QED BY <1>10, <1>13, <2>1, <4>1 DEF Calm
    <3>2. flow[f].reply # "pending"
      BY <1>2, <1>11, <2>1 DEF Shape
    <3>3. World(flow', wait)
      BY <1>1, <1>2, <1>9, <1>10, <3>1, <3>2, WrittenWorld
    <3> QED BY <1>1, <3>3
  <2>2. CASE n # Erase
    <3>1. r = [flow[f] EXCEPT !.io = "wait"]
      <4>1. io = "wait" /\ at = flow[f].at
        BY <1>13, <2>2
      <4> HIDE DEF io, at
      <4>2. [flow[f] EXCEPT !.io = "wait", !.at = flow[f].at] = [flow[f] EXCEPT !.io = "wait"]
        BY <1>2 DEF FlowRecords
      <4> QED BY <4>1, <4>2 DEF r
    <3>2. World([Advanced(flow) EXCEPT ![f] = [flow[f] EXCEPT !.io = "wait"]], wait)
      BY <1>1, <1>2, <1>7, <1>12, <2>2, SentWorld
    <3> QED BY <1>1, <1>9, <3>1, <3>2
  <2> QED BY <2>1, <2>2
<1>16. inbox' \in Seq(Events)
  <2>1. Answered(m, n) \in Seq(Events)
    BY <1>4, <1>5, AnswerShape
  <2>2. ASSUME n \in Erase + 1 .. Finalize PROVE Refused(m, n) \in Seq(Events)
    <3>1. n \in 2..Finalize
      BY <2>2, Numbers
    <3>2. PICK e \in Events :
             /\ Refused(m, n) = <<e>> /\ ~e.ok
             /\ <<e.t, e.n>> = IF n = Finalize THEN <<"provdone", 0>> ELSE <<"provwr", n - 1>>
      BY <1>4, <1>5, <3>1, AnswerShape
    <3> QED BY <3>2, EventSequences
  <2>3. \/ inbox' \in {inbox, inbox \o Answered(m, n)}
        \/ inbox' = inbox \o Refused(m, n) /\ n \in Erase + 1 .. Finalize
        \/ inbox' = inbox \o Unnamed(m)
    BY <1>8
  <2>4. Unnamed(m) \in Seq(Events)
    BY <1>4, UnnamedShape, EventSequences
  <2> QED BY <1>2, <2>1, <2>2, <2>3, <2>4, EventSequences
<1>17. mfg'[link.board] = m \/ mfg'[link.board] = Executed(m, n, d)
  BY <1>3, <1>4, <1>8
<1>18. ASSUME NEW g \in Flows, g # f PROVE Knows(flow'[g], inbox', mfg'[link.board])
  <2>1. Knows(flow[g], inbox, m)
    BY <1>3 DEF Good, Acks
  <2>2. flow'[g].io = "wait" => flow'[g].reply # "got"
    BY <1>7, <1>14, <1>18 DEF Ready
  <2>3. ASSUME flow'[g].at = "script", ~flow'[g].misled, flow'[g].io = "send", flow'[g].valid
        PROVE  Prefix(mfg'[link.board], flow'[g].dev, flow'[g].cmd)
    <3>1. Prefix(m, flow[g].dev, flow[g].cmd)
      BY <1>14, <1>18, <2>1, <2>3 DEF Knows
    <3> QED BY <1>1, <1>3, <1>14, <1>17, <1>18, <2>3, <3>1, OthersPrefix
  <2>4. flow'[g].io = "wait" /\ flow'[g].reply = "pending" =>
           Prefix(mfg'[link.board], flow'[g].dev, flow'[g].cmd + 1)
    <3>1. CASE n = Erase
      <4>1. mfg'[link.board] = Erased
        <5>1. ~(n \in Erase + 1 .. Finalize) /\ n # 0
          BY <3>1, Numbers
        <5>2. Executed(m, n, d) = Erased
          BY <1>4, <1>5, <3>1, ExecutedPage
        <5> QED BY <1>3, <1>4, <1>8, <5>1, <5>2
      <4> QED BY <4>1, ErasedPrefix
    <3>2. CASE n # Erase
      BY <1>1, <1>2, <1>12, <1>14, <1>18, <3>2 DEF World, NoneBetween
    <3> QED BY <3>1, <3>2
  <2> QED BY <2>2, <2>3, <2>4 DEF Knows
<1>19. Knows(r, inbox', mfg'[link.board])
  <2> SUFFICES ASSUME r.at = "script", ~r.misled, r.reply = "pending", Confirmed(r, inbox')
               PROVE  Prefix(mfg'[link.board], d, n + 1)
    <3>1. r.io # "send"
      BY <1>10
    <3>2. r.reply # "got" \/ r.misled
      BY <1>1, <1>2, <1>10 DEF Shape
    <3> QED BY <1>10, <3>1, <3>2 DEF Knows
  <2>1. flow[f].at = "script" /\ n # Erase
    BY <1>10
  <2>2. n \in 2..Finalize
    <3>1. n \in Erase..Reboot
      BY <1>2, <2>1 DEF Shape
    <3> QED BY <1>1, <2>1, <3>1, Numbers
  <2>3. Prefix(m, d, n)
    <3>1. Knows(flow[f], inbox, m)
      BY <1>3 DEF Good, Acks
    <3> QED BY <1>1, <1>10, <2>1, <3>1 DEF Knows
  <2>4. CASE mfg' = [mfg EXCEPT ![link.board] = Executed(m, n, d)]
    <3>1. mfg'[link.board] = Executed(m, n, d)
      BY <1>3, <1>4, <2>4
    <3> QED BY <1>4, <1>5, <2>2, <2>3, <3>1, OwnPrefix
  <2>5. CASE inbox' = inbox \o Refused(m, n)
    <3>1. PICK e \in Events :
             /\ Refused(m, n) = <<e>> /\ ~e.ok
             /\ <<e.t, e.n>> = IF n = Finalize THEN <<"provdone", 0>> ELSE <<"provwr", n - 1>>
      BY <1>4, <1>5, <2>2, AnswerShape
    <3>2. <<e.t, e.n>> = Expects(r)
      BY <1>10, <3>1 DEF Expects
    <3> QED BY <1>2, <2>5, <3>1, <3>2, RefusedNotConfirmed
  <2>6. n # 0
    BY <2>2, Numbers
  <2> QED BY <1>8, <2>4, <2>5, <2>6
<1>20. Acks(flow', link', inbox', mfg')
  <2>1. \A g \in Flows : Knows(flow'[g], inbox', mfg'[link.board])
    BY <1>14, <1>18, <1>19
  <2> QED BY <1>3, <1>6, <2>1 DEF Acks
<1>21. \A g \in Flows : flow'[g].kind = flow[g].kind
  BY <1>10, <1>14
<1>22. Owned(flow', page', loose')
  BY <1>1, <1>21, SameKindsOwned DEF Good
<1> QED BY <1>1, <1>2, <1>6, <1>15, <1>16, <1>20, <1>22 DEF Good, Rest

-----------------------------------------------------------------------------
(* What the bounds and the boards' pages keep.                              *)

LEMMA ExecutedType ==
    ASSUME NEW m \in [id : Ids, parts : [Values -> Devices \cup {None}]], NEW n \in 0..Reboot,
           NEW d \in Devices \cup {None}
    PROVE  /\ Executed(m, n, d) \in [id : Ids, parts : [Values -> Devices \cup {None}]]
           /\ m.id = Blank /\ Executed(m, n, d).id # Blank =>
                 /\ n = Finalize /\ \A v \in Values : m.parts[v] # None
                 /\ Executed(m, n, d) = [m EXCEPT !.id = m.parts[1]]
<1> DEFINE x == Executed(m, n, d)
<1>1. /\ NumValues \in Nat /\ NumValues > 0 /\ n \in Int /\ Values = 1..NumValues /\ 1 \in Values
      /\ Erase = 1 /\ Finalize = NumValues + 2 /\ Reboot = NumValues + 3
  BY Numbers
<1>2. Erased \in [id : Ids, parts : [Values -> Devices \cup {None}]] /\ Erased.id = Blank
  BY DEF Erased, Ids
<1> HIDE DEF x
<1>3. CASE n = Erase
  BY <1>1, <1>2, <1>3, ExecutedPage DEF x
<1>4. CASE n \in {0, Reboot} \/ (n # Erase /\ m.id # Blank)
  BY <1>4, ExecutedPage DEF x
<1>5. CASE n \in 2..(NumValues + 1) /\ m.id = Blank
  <2>1. x = [m EXCEPT !.parts[n - 1] = d]
    BY <1>5, ExecutedPage DEF x
  <2>2. n - 1 \in Values
    BY <1>1, <1>5
  <2>3. x \in [id : Ids, parts : [Values -> Devices \cup {None}]] /\ x.id = m.id
    BY <2>1, <2>2
  <2> QED BY <1>5, <2>3 DEF x
<1>6. CASE n = Finalize /\ m.id = Blank /\ \A v \in Values : m.parts[v] # None
  <2>1. x = [m EXCEPT !.id = m.parts[1]]
    BY <1>6, ExecutedPage DEF x
  <2>2. m.parts[1] \in Ids
    BY <1>1, <1>6 DEF Ids
  <2>3. x \in [id : Ids, parts : [Values -> Devices \cup {None}]]
    BY <2>1, <2>2
  <2> QED BY <1>6, <2>1, <2>3 DEF x
<1>7. CASE n = Finalize /\ ~(m.id = Blank /\ \A v \in Values : m.parts[v] # None)
  BY <1>7, ExecutedPage DEF x
<1>8. n \in {0, Reboot} \/ n = Erase \/ n \in 2..(NumValues + 1) \/ n = Finalize
  BY <1>1
<1> QED BY <1>3, <1>4, <1>5, <1>6, <1>7, <1>8

\* A board's page changes only by a line that reaches it.
LEMMA OnlyLinesWrite ==
    ASSUME Next \/ UNCHANGED vars, mfg' # mfg
    PROVE  \E f \in Flows :
              /\ MyTurn(f) /\ flow[f].valid
              /\ mfg' = [mfg EXCEPT ![link.board] =
                           Executed(mfg[link.board], flow[f].cmd, flow[f].dev)]
                 \/ mfg' = [mfg EXCEPT ![link.board] = mfg[link.board]]
<1>1. PICK f \in Flows : Sent(f) \/ SendFails(f)
  <2>1. ASSUME NEW f \in Flows, FlowStep(f) PROVE Sent(f) \/ SendFails(f)
    <3>1. ~Timeout(f) /\ ~Closed(f) /\ ~Linked(f) /\ ~LinkFails(f) /\ ~StatusAnswered(f)
          /\ ~StatusUnanswered(f) /\ ~CloudReady(f) /\ ~CloudFails(f) /\ ~Attempted(f)
      BY DEF Timeout, Closed, Linked, LinkFails, StatusAnswered, StatusUnanswered, CloudReady,
             CloudFails, Attempted
    <3>2. ~Fetched(f) /\ ~FetchFails(f) /\ ~Settled(f) /\ ~Acknowledged(f) /\ ~ScriptStops(f)
          /\ ~RebootSent(f) /\ ~Succeeded(f) /\ ~Rebooted(f) /\ ~VerifyRound(f) /\ ~Deadline(f)
      BY DEF Fetched, FetchFails, Settled, Acknowledged, ScriptStops, RebootSent, Succeeded,
             Rebooted, VerifyRound, Deadline
    <3> QED BY <2>1, <3>1, <3>2 DEF FlowStep
  <2>2. ~UserStep /\ ~Drop /\ ~Deliver /\ ~UNCHANGED vars
    BY DEF UserStep, vars, UserDisconnect, Confirm, Restart, Go, ChooseDevice, Controls,
           StartWrite, StartWizardLink, StartAttach, Drop, Deliver
  <2> QED BY <2>1, <2>2 DEF Next
<1>2. CASE Sent(f)
  BY <1>2 DEF Sent
<1>3. CASE SendFails(f)
  <2>1. /\ MyTurn(f) /\ flow[f].valid
        /\ \E m \in {mfg[link.board], Executed(mfg[link.board], flow[f].cmd, flow[f].dev)} :
              mfg' = [mfg EXCEPT ![link.board] = m]
    BY <1>3 DEF SendFails
  <2> QED BY <2>1
<1> QED BY <1>1, <1>2, <1>3

LEMMA PagesStep ==
    ASSUME Good, Memory, Next \/ UNCHANGED vars
    PROVE  mfg' \in [Boards -> [id : Ids, parts : [Values -> Devices \cup {None}]]]
<1>1. CASE mfg' = mfg
  BY <1>1 DEF Memory
<1>2. CASE mfg' # mfg
  <2>1. PICK f \in Flows :
              /\ MyTurn(f) /\ flow[f].valid
              /\ mfg' = [mfg EXCEPT ![link.board] =
                           Executed(mfg[link.board], flow[f].cmd, flow[f].dev)]
                 \/ mfg' = [mfg EXCEPT ![link.board] = mfg[link.board]]
    BY <1>2, OnlyLinesWrite
  <2>2. link.board \in Boards
    BY <2>1, FlowFacts DEF Good, Acks, Links
  <2>3. flow[f].cmd \in 0..Reboot /\ flow[f].dev \in Devices \cup {None}
    BY FlowFacts DEF FlowRecords
  <2>4. mfg \in [Boards -> [id : Ids, parts : [Values -> Devices \cup {None}]]]
    BY DEF Memory
  <2>5. Executed(mfg[link.board], flow[f].cmd, flow[f].dev)
            \in [id : Ids, parts : [Values -> Devices \cup {None}]]
    BY <2>2, <2>3, <2>4, ExecutedType
  <2> QED BY <2>1, <2>2, <2>4, <2>5
<1> QED BY <1>1, <1>2

LEMMA BoundsStep ==
    ASSUME Memory, Next \/ UNCHANGED vars
    PROVE  starts' \in 0..MaxStarts /\ faults' \in 0..MaxFaults
<1>1. /\ starts' = starts \/ (starts < MaxStarts /\ starts' = starts + 1)
      /\ faults' = faults \/ (faults < MaxFaults /\ faults' = faults + 1)
  <2>1. CASE UNCHANGED vars
    BY <2>1 DEF vars
  <2>2. ASSUME NEW f \in Flows, FlowStep(f)
        PROVE  /\ starts' = starts
               /\ faults' = faults \/ (faults < MaxFaults /\ faults' = faults + 1)
    BY <2>2 DEF FlowStep, Sent, SendFails, Timeout, Closed, Linked, LinkFails, StatusAnswered,
         StatusUnanswered, CloudReady, CloudFails, Attempted, Fetched, FetchFails, Settled,
         Acknowledged, ScriptStops, RebootSent, Succeeded, Rebooted, VerifyRound, Deadline
  <2>3. CASE UserStep
    BY <2>3 DEF UserStep, UserDisconnect, Confirm, Restart, Go, ChooseDevice, Controls, StartWrite,
         StartWizardLink, StartAttach, Start
  <2>4. CASE Drop \/ Deliver
    BY <2>4 DEF Drop, Deliver
  <2> QED BY <2>1, <2>2, <2>3, <2>4 DEF Next
<1>2. /\ starts \in 0..MaxStarts /\ faults \in 0..MaxFaults
  BY DEF Memory
<1> QED BY <1>1, <1>2, Numbers

-----------------------------------------------------------------------------
(* Which flows run: an action touches one flow's kind at most.              *)

\* All but flow f are of their kind.
Besides(f, fl) == fl \in [Flows -> FlowRecords] /\ \A g \in Flows \ {f} : fl[g].kind = flow[g].kind

Only(f) == \A g \in Flows \ {f} : flow'[g].kind = flow[g].kind

LEMMA CancelledKinds ==
    ASSUME NEW fl \in [Flows -> FlowRecords], NEW w
    PROVE  /\ Cancelled(fl, w) \in [Flows -> FlowRecords]
           /\ \A g \in Flows : Cancelled(fl, w)[g].kind = fl[g].kind
<1>1. CASE w = NoWait \/ w.flow \notin Flows
  BY <1>1 DEF Cancelled
<1>2. CASE w # NoWait /\ w.flow \in Flows
  <2> DEFINE r == [fl[w.flow] EXCEPT !.reply = "cancelled"]
  <2>1. Cancelled(fl, w) = [fl EXCEPT ![w.flow] = r]
    BY <1>2 DEF Cancelled
  <2>2. r \in FlowRecords /\ r.kind = fl[w.flow].kind
    BY <1>2 DEF FlowRecords
  <2> HIDE DEF r
  <2> QED BY <1>2, <2>1, <2>2
<1> QED BY <1>1, <1>2

LEMMA UnboundKinds ==
    ASSUME NEW fl \in [Flows -> FlowRecords]
    PROVE  \A g \in Flows : Unbound(fl)[g].kind = fl[g].kind
BY UnboundSubdued

LEMMA LinkLostKinds ==
    ASSUME NEW fl \in [Flows -> FlowRecords], NEW p, NEW w, LinkLost(fl, p, w)
    PROVE  \A g \in Flows : flow'[g].kind = fl[g].kind
<1>1. flow' = Cancelled(fl, w) \/ flow' = fl
  BY DEF LinkLost
<1> QED BY <1>1, CancelledKinds

LEMMA UnboundRecords ==
    ASSUME NEW fl \in [Flows -> FlowRecords]
    PROVE  Unbound(fl) \in [Flows -> FlowRecords]
<1>1. \A g \in Flows : fl[g] \in FlowRecords
  OBVIOUS
<1>2. ASSUME NEW r \in FlowRecords PROVE [r EXCEPT !.valid = FALSE, !.same = FALSE] \in FlowRecords
  BY DEF FlowRecords
<1> QED BY <1>1, <1>2 DEF Unbound

LEMMA EndAutoKinds ==
    ASSUME NEW f \in Flows, NEW fl, Besides(f, fl), NEW w, NEW failed, EndAuto(f, fl, w, failed)
    PROVE  Only(f)
<1> DEFINE others == [fl EXCEPT ![f] = NoFlow]
<1>1. /\ others \in [Flows -> FlowRecords]
      /\ \A g \in Flows \ {f} : others[g].kind = flow[g].kind
  BY CalmNoFlow DEF Calm, Besides
<1> HIDE DEF others
<1>2. \/ flow' = others \/ flow' = Unbound(others)
      \/ \E p : LinkLost(Unbound(others), p, w)
  BY DEF EndAuto, others
<1>3. Unbound(others) \in [Flows -> FlowRecords]
      /\ \A g \in Flows : Unbound(others)[g].kind = others[g].kind
  BY <1>1, UnboundRecords, UnboundKinds
<1> QED BY <1>1, <1>2, <1>3, LinkLostKinds DEF Only

LEMMA FailKinds ==
    ASSUME NEW f \in Flows, NEW fl, Besides(f, fl), NEW w, Fail(f, fl, w)
    PROVE  Only(f)
<1>1. (\E r : flow' = [fl EXCEPT ![f] = r]) \/ EndAuto(f, fl, w, TRUE)
  BY DEF Fail
<1>2. ASSUME NEW r, flow' = [fl EXCEPT ![f] = r] PROVE Only(f)
  BY <1>2 DEF Besides, Only
<1> QED BY <1>1, <1>2, EndAutoKinds

LEMMA AskStatusKinds ==
    ASSUME NEW f \in Flows, NEW fl, Besides(f, fl), NEW p, NEW at, AskStatus(f, fl, p, at)
    PROVE  Only(f) /\ flow'[f].kind = fl[f].kind
<1> DEFINE c == Superseded(fl)
           r == [fl[f] EXCEPT !.at = at, !.cmd = 0, !.io = "send", !.reply = "pending",
                        !.ahead = QueuedWrites, !.valid = link'.board # None]
<1>1. flow' = [c EXCEPT ![f] = r]
  BY DEF AskStatus
<1>2. c \in [Flows -> FlowRecords] /\ \A g \in Flows : c[g].kind = fl[g].kind
  BY CancelledKinds DEF Superseded, Besides
<1>3. r.kind = fl[f].kind
  BY DEF Besides, FlowRecords
<1> HIDE DEF c, r
<1> QED BY <1>1, <1>2, <1>3 DEF Only, Besides

LEMMA SendNextKinds ==
    ASSUME NEW f \in Flows, flow \in [Flows -> FlowRecords], NEW n, SendNext(f, n)
    PROVE  Only(f)
<1> DEFINE c == Superseded(flow)
<1>1. \E r : flow' = [flow EXCEPT ![f] = r] \/ flow' = [c EXCEPT ![f] = r]
  BY DEF SendNext
<1>2. c \in [Flows -> FlowRecords] /\ \A g \in Flows : c[g].kind = flow[g].kind
  BY CancelledKinds DEF Superseded
<1> HIDE DEF c
<1> QED BY <1>1, <1>2 DEF Only

\* A step of flow f, and whether it was running.
LEMMA StepKinds ==
    ASSUME Good, NEW f \in Flows, FlowStep(f)
    PROVE  /\ Only(f)
           /\ \/ f \in Running(flow)
              \/ flow'[f].kind = "none"
              \/ Linked(f) /\ flow[f].kind = "attach" /\ ~page.busy
<1>1. flow \in [Flows -> FlowRecords] /\ flow[f] \in FlowRecords /\ Shape(flow[f]) /\ Besides(f, flow)
  BY FlowFacts DEF Besides
<1>2. Besides(f, Cancelled(flow, wait)) /\ Besides(f, Advanced(flow))
      /\ Besides(f, Advanced(Cancelled(flow, wait)))
  <2>1. Cancelled(flow, wait) \in [Flows -> FlowRecords]
        /\ \A g \in Flows : Cancelled(flow, wait)[g].kind = flow[g].kind
    BY <1>1, CancelledKinds
  <2>2. ASSUME NEW fl \in [Flows -> FlowRecords]
        PROVE  /\ Advanced(fl) \in [Flows -> FlowRecords]
               /\ \A g \in Flows : Advanced(fl)[g].kind = fl[g].kind
    <3>1. ASSUME NEW r \in FlowRecords
          PROVE  LET s == [r EXCEPT !.ahead = IF r.ahead > 0 THEN r.ahead - 1 ELSE 0] IN
                 s \in FlowRecords /\ s.kind = r.kind
      <4> DEFINE n == IF r.ahead > 0 THEN r.ahead - 1 ELSE 0
      <4>1. r.ahead \in 0..Cardinality(Flows)
        BY DEF FlowRecords
      <4>2. n \in 0..Cardinality(Flows)
        BY <4>1, Numbers
      <4> HIDE DEF n
      <4>3. [r EXCEPT !.ahead = n] \in FlowRecords /\ [r EXCEPT !.ahead = n].kind = r.kind
        BY <4>2 DEF FlowRecords
      <4> QED BY <4>3 DEF n
    <3> QED BY <3>1 DEF Advanced
  <2> QED BY <1>1, <2>1, <2>2 DEF Besides
<1>3. flow[f].at \notin {"idle", "linking"} => f \in Running(flow)
  BY <1>1 DEF Shape, Running
<1>4. wait.flow = f => f \in Running(flow)
  <2>1. wait.flow = f => flow[f].reply = "pending"
    BY WorldFacts DEF Good
  <2> QED BY <1>1, <1>3, <2>1 DEF Shape, StatusChecks
<1>5. MyTurn(f) => f \in Running(flow)
  BY <1>1, <1>3 DEF Shape, StatusChecks, MyTurn
<1>6. CASE Linked(f)
  <2> DEFINE u == Unbound(flow)
             fl == [u EXCEPT ![f] = flow[f]]
  <2>1. u \in [Flows -> FlowRecords] /\ \A g \in Flows : u[g].kind = flow[g].kind
    BY <1>1, UnboundRecords, UnboundKinds
  <2>2. fl \in [Flows -> FlowRecords] /\ fl[f] = flow[f] /\ Besides(f, fl)
    BY <1>1, <2>1 DEF Besides
  <2> HIDE DEF u
  <2>3. CASE flow[f].kind = "attach"
    <3>1. \/ flow' = [fl EXCEPT ![f] = NoFlow]
          \/ ~page.busy /\ \E p : AskStatus(f, [fl EXCEPT ![f].kind = "auto"], p, "status")
      BY <1>6, <2>3 DEF Linked, u
    <3>2. Besides(f, [fl EXCEPT ![f].kind = "auto"])
      <4>1. [fl[f] EXCEPT !.kind = "auto"] \in FlowRecords
        BY <1>1, <2>2 DEF FlowRecords, Kinds
      <4>2. [fl EXCEPT ![f].kind = "auto"] = [fl EXCEPT ![f] = [fl[f] EXCEPT !.kind = "auto"]]
        BY <2>2
      <4> HIDE DEF fl
      <4> QED BY <2>2, <4>1, <4>2 DEF Besides
    <3> HIDE DEF fl
    <3>3. CASE flow' = [fl EXCEPT ![f] = NoFlow]
      BY <2>2, <3>3, CalmNoFlow DEF Only, Besides
    <3>4. CASE ~page.busy /\ \E p : AskStatus(f, [fl EXCEPT ![f].kind = "auto"], p, "status")
      BY <1>6, <2>3, <3>2, <3>4, AskStatusKinds
    <3> QED BY <3>1, <3>3, <3>4
  <2>4. CASE flow[f].kind # "attach"
    <3>1. \E p, at : AskStatus(f, fl, p, at)
      BY <1>6, <2>4 DEF Linked, u
    <3>2. flow[f].kind # "none"
      BY <1>1, <1>6 DEF Linked, Shape
    <3> HIDE DEF fl
    <3> QED BY <2>2, <2>4, <3>1, <3>2, AskStatusKinds DEF Running
  <2> QED BY <2>3, <2>4
<1>7. CASE LinkFails(f)
  <2>1. Unbound(flow) \in [Flows -> FlowRecords] /\ \A g \in Flows : Unbound(flow)[g].kind = flow[g].kind
    BY <1>1, UnboundRecords, UnboundKinds
  <2>2. flow' = [Unbound(flow) EXCEPT ![f] = IF flow[f].kind = "auto" THEN At(f, "verifying") ELSE NoFlow]
    BY <1>7 DEF LinkFails
  <2>3. flow'[f] = NoFlow \/ flow[f].kind = "auto"
    BY <2>1, <2>2
  <2> QED BY <2>1, <2>2, <2>3, CalmNoFlow DEF Only, Running
<1>8. CASE VerifyRound(f)
  <2>1. CASE flow[f].via = "ble"
    <3> DEFINE r == [flow[f] EXCEPT !.at = "linking", !.same = TRUE]
               fl == [Unbound(flow) EXCEPT ![f] = r]
    <3>1. LinkLost(fl, page, wait)
      BY <1>8, <2>1 DEF VerifyRound
    <3>2. Unbound(flow) \in [Flows -> FlowRecords] /\ \A g \in Flows : Unbound(flow)[g].kind = flow[g].kind
      BY <1>1, UnboundRecords, UnboundKinds
    <3>3. r \in FlowRecords
      BY <1>1 DEF FlowRecords, Stages
    <3> HIDE DEF r
    <3>4. fl \in [Flows -> FlowRecords] /\ \A g \in Flows \ {f} : fl[g].kind = flow[g].kind
      BY <3>2, <3>3
    <3> HIDE DEF fl
    <3>5. f \in Running(flow)
      BY <1>3, <1>8 DEF VerifyRound
    <3> QED BY <3>1, <3>4, <3>5, LinkLostKinds DEF Only
  <2>2. CASE flow[f].via # "ble"
    <3>1. \E p : AskStatus(f, flow, p, "checking")
      BY <1>8, <2>2 DEF VerifyRound
    <3> QED BY <1>1, <1>3, <1>8, <3>1, AskStatusKinds DEF VerifyRound
  <2> QED BY <2>1, <2>2
<1>9. CASE Sent(f) \/ RebootSent(f)
  <2>1. flow'[f] = flow'[f] /\ \A g \in Flows \ {f} : flow'[g] = Advanced(flow)[g]
    BY <1>9, <1>2 DEF Sent, RebootSent, Besides
  <2>2. MyTurn(f)
    BY <1>9 DEF Sent, RebootSent
  <2> QED BY <1>2, <1>5, <2>1, <2>2 DEF Only, Besides
<1>10. CASE SendFails(f)
  BY <1>2, <1>5, <1>10, FailKinds DEF SendFails
<1>11. CASE Timeout(f)
  BY <1>1, <1>4, <1>11 DEF Timeout, Only
<1>12. CASE Closed(f) \/ Succeeded(f) \/ Rebooted(f) \/ Deadline(f) \/ FetchFails(f) \/ CloudFails(f)
            \/ CloudReady(f)
  <2>1. flow[f].at \notin {"idle", "linking"}
    BY <1>12 DEF Closed, Succeeded, Rebooted, Deadline, FetchFails, CloudFails, CloudReady
  <2>2. \/ \E r : flow' = [flow EXCEPT ![f] = r]
        \/ \E b : EndAuto(f, flow, wait, b)
        \/ Fail(f, flow, wait)
    BY <1>12 DEF Closed, Succeeded, Rebooted, Deadline, FetchFails, CloudFails, CloudReady
  <2>3. ASSUME NEW r, flow' = [flow EXCEPT ![f] = r] PROVE Only(f)
    BY <1>1, <2>3 DEF Only
  <2> QED BY <1>1, <1>3, <2>1, <2>2, <2>3, EndAutoKinds, FailKinds
<1>13. CASE StatusAnswered(f)
  <2>1. flow[f].at \notin {"idle", "linking"} /\ \E r : flow' = [flow EXCEPT ![f] = r]
    BY <1>13 DEF StatusAnswered, WizardRead, AutoRead, Rechecked, Verified, StatusChecks
  <2> QED BY <1>1, <1>3, <2>1 DEF Only
<1>14. CASE StatusUnanswered(f) \/ Attempted(f)
  <2>1. flow[f].at \notin {"idle", "linking"}
    BY <1>14 DEF StatusUnanswered, Attempted, StatusChecks
  <2>2. \/ \E r : flow' = [flow EXCEPT ![f] = r]
        \/ EndAuto(f, flow, wait, FALSE)
        \/ Fail(f, flow, wait)
        \/ \E p, at : AskStatus(f, flow, p, at)
    BY <1>14 DEF StatusUnanswered, Attempted
  <2>3. ASSUME NEW r, flow' = [flow EXCEPT ![f] = r] PROVE Only(f)
    BY <1>1, <2>3 DEF Only
  <2> QED BY <1>1, <1>3, <2>1, <2>2, <2>3, EndAutoKinds, FailKinds, AskStatusKinds
<1>15. CASE Fetched(f) \/ Settled(f) \/ Acknowledged(f)
  <2>1. flow[f].at \notin {"idle", "linking"} /\ \E n : SendNext(f, n)
    BY <1>15 DEF Fetched, Settled, Acknowledged
  <2> QED BY <1>1, <1>3, <2>1, SendNextKinds
<1>16. CASE ScriptStops(f)
  BY <1>2, <1>3, <1>16, FailKinds DEF ScriptStops
<1> QED BY <1>6, <1>7, <1>8, <1>9, <1>10, <1>11, <1>12, <1>13, <1>14, <1>15, <1>16 DEF FlowStep

\* What the user and the board do, the start of a flow aside.
Outside ==
    \/ Drop \/ UserDisconnect \/ Restart \/ Deliver \/ Confirm \/ UNCHANGED vars
    \/ \E to \in {"connect", "write"} : Go(to)
    \/ \E d \in Devices : ChooseDevice(d)

LEMMA OutsideKinds ==
    ASSUME Good, Outside
    PROVE  \A g \in Flows : flow'[g].kind = flow[g].kind
<1>1. flow \in [Flows -> FlowRecords]
  BY DEF Good, World, Typed
<1>2. Unbound(flow) \in [Flows -> FlowRecords] /\ \A g \in Flows : Unbound(flow)[g].kind = flow[g].kind
  BY <1>1, UnboundRecords, UnboundKinds
<1>3. CASE Drop \/ UserDisconnect
  BY <1>2, <1>3, LinkLostKinds DEF Drop, UserDisconnect
<1>4. CASE Restart
  BY <1>2, <1>4 DEF Restart
<1>5. CASE Deliver
  <2>1. flow' = flow \/ \E e, b : flow' = [flow EXCEPT ![wait.flow].reply = "got",
             ![wait.flow].event = e, ![wait.flow].misled = @ \/ b]
    BY <1>5 DEF Deliver
  <2>2. ASSUME NEW e, NEW b, flow' = [flow EXCEPT ![wait.flow].reply = "got",
             ![wait.flow].event = e, ![wait.flow].misled = @ \/ b]
        PROVE  \A g \in Flows : flow'[g].kind = flow[g].kind
    BY <1>1, <2>2 DEF FlowRecords
  <2> QED BY <2>1, <2>2
<1>6. CASE Confirm \/ (\E to \in {"connect", "write"} : Go(to)) \/ (\E d \in Devices : ChooseDevice(d))
           \/ UNCHANGED vars
  BY <1>6 DEF Confirm, Go, ChooseDevice, Controls, vars
<1> QED BY <1>3, <1>4, <1>5, <1>6 DEF Outside

\* While the page is busy, no flow begins to run.
LEMMA BusyStep ==
    ASSUME Good, page.busy, Next \/ UNCHANGED vars
    PROVE  Running(flow') \subseteq Running(flow)
<1>1. ASSUME NEW f \in Flows, FlowStep(f) PROVE Running(flow') \subseteq Running(flow)
  BY <1>1, StepKinds DEF Only, Running
<1>2. CASE Outside
  BY <1>2, OutsideKinds DEF Running
<1>3. CASE \E f \in Flows : StartWrite(f)
  BY <1>3 DEF StartWrite
<1>4. CASE \E f \in Flows, b \in Boards : StartWizardLink(f, b) \/ \E via \in Vias : StartAttach(f, b, via)
  <2>1. PICK f \in Flows, b \in Boards : StartWizardLink(f, b) \/ \E via \in Vias : StartAttach(f, b, via)
    BY <1>4
  <2> QED BY <2>1 DEF StartWizardLink, StartAttach
<1> QED BY <1>1, <1>2, <1>3, <1>4 DEF Next, UserStep, Outside

-----------------------------------------------------------------------------
(* The theorems.                                                            *)

LEMMA GoodStep ==
    ASSUME Good, Memory, Next \/ UNCHANGED vars
    PROVE  Good'
<1>1. CASE UNCHANGED vars
  BY <1>1 DEF vars, Good, Rest
<1>2. ASSUME NEW f \in Flows, FlowStep(f) PROVE Good'
  BY <1>2, SentGood, SendFailsGood, TimeoutGood, ClosedGood, LinkedGood, LinkFailsGood,
     StatusAnsweredGood, StatusUnansweredGood, CloudGood, AttemptedGood, ScriptBeginsGood,
     ScriptFailsGood, AcknowledgedGood, RebootSentGood, RebootingGood, VerifyRoundGood
     DEF FlowStep
<1>3. CASE UserStep
  BY <1>3, DropGood, ControlsGood, RestartGood, StartWriteGood, StartsLinkGood DEF UserStep
<1>4. CASE Drop
  BY <1>4, DropGood
<1>5. CASE Deliver
  BY <1>5, DeliverGood
<1> QED BY <1>1, <1>2, <1>3, <1>4, <1>5 DEF Next

LEMMA Starts == Init => IInv
<1> SUFFICES ASSUME Init PROVE IInv
  OBVIOUS
<1>1. /\ flow = [f \in Flows |-> NoFlow] /\ wait = NoWait /\ link = NoLink /\ inbox = <<>>
      /\ loose = {} /\ starts = 0 /\ faults = 0 /\ reported = [device |-> None, status |-> "none"]
      /\ page = [step |-> "connect", busy |-> FALSE, device |-> FirstDevice,
                 filed |-> Devices \ Unfiled, connected |-> FALSE, detected |-> None,
                 confirmed |-> FALSE, rebootSent |-> FALSE, auto |-> FALSE]
      /\ mfg = [b \in Boards |->
                  IF b \in Provisioned THEN [Erased EXCEPT !.id = Foreign] ELSE Erased]
  BY DEF Init
<1>2. \A g \in Flows : flow[g] = NoFlow
  BY <1>1
<1>3. flow \in [Flows -> FlowRecords] /\ \A g \in Flows : Shape(flow[g])
  BY <1>1, CalmNoFlow DEF Calm
<1>4. NoFlow.io = "none" /\ NoFlow.reply = "none" /\ NoFlow.kind = "none" /\ ~NoFlow.valid
      /\ NoFlow.at = "idle"
  BY DEF NoFlow
<1> HIDE DEF NoFlow
<1>5. World(flow, wait)
  <2>1. Senders(flow) = {}
    BY <1>2, <1>4 DEF Senders
  <2>2. InLine(flow)
    BY <2>1 DEF InLine
  <2>3. Awaited(flow, wait)
    BY <1>1, <1>2, <1>4, Numbers DEF Awaited, NoWait
  <2>4. OneAuto(flow) /\ OneReady(flow) /\ NoneBetween(flow)
    BY <1>2, <1>4 DEF OneAuto, OneReady, Ready, NoneBetween
  <2> QED BY <1>3, <2>2, <2>3, <2>4 DEF World, Typed
<1>6. Owned(flow, page, loose)
  <2>1. Running(flow) = {}
    BY <1>2, <1>4 DEF Running
  <2>2. ~page.busy /\ ~page.auto
    BY <1>1
  <2> QED BY <1>2, <1>4, <2>1, <2>2 DEF Owned
<1>7. Acks(flow, link, inbox, mfg)
  BY <1>1, <1>2, <1>4, LostAcks
<1>8. Rest
  <2>1. page \in Pages
    BY <1>1, BoardsOK DEF Pages, Answers
  <2>2. reported \in Reports
    BY <1>1 DEF Reports
  <2> QED BY <1>1, <2>1, <2>2, NoEvents DEF Rest
<1>9. Memory
  <2>1. Erased \in [id : Ids, parts : [Values -> Devices \cup {None}]]
    BY DEF Erased, Ids
  <2>2. [Erased EXCEPT !.id = Foreign] \in [id : Ids, parts : [Values -> Devices \cup {None}]]
    BY <2>1 DEF Ids
  <2>3. mfg \in [Boards -> [id : Ids, parts : [Values -> Devices \cup {None}]]]
    BY <1>1, <2>1, <2>2
  <2>4. 0 \in 0..MaxStarts /\ 0 \in 0..MaxFaults
    BY Numbers
  <2> QED BY <1>1, <2>3, <2>4 DEF Memory
<1> QED BY <1>5, <1>6, <1>7, <1>8, <1>9, GoodInvariant DEF Good

LEMMA InvariantStep == IInv /\ [Next]_vars => IInv'
<1> SUFFICES ASSUME IInv, [Next]_vars PROVE IInv'
  OBVIOUS
<1>1. Good /\ Memory
  BY GoodInvariant
<1>2. Good'
  BY <1>1, GoodStep
<1>3. Memory'
  BY <1>1, PagesStep, BoundsStep DEF Memory
<1>4. IInv' <=> Good' /\ Memory'
  BY GoodInvariant, PTL
<1> QED BY <1>2, <1>3, <1>4

\* The inductive invariant.
THEOREM Invariance == Spec => []IInv
BY Starts, InvariantStep, PTL DEF Spec

\* The page, its flows, the link and the boards keep their types.
THEOREM Typing == Spec => []TypeOK
<1>1. IInv => TypeOK
  BY DEF IInv
<1> QED BY <1>1, Invariance, PTL

\* The page is never left busy without a flow, and what a flow awaits is the
\* wait that a timer or an answer settles.
THEOREM PageOwned == Spec => []PageIsOwned
<1>1. IInv => PageIsOwned
  BY DEF IInv, World, Awaited, Owned, PageIsOwned
<1> QED BY <1>1, Invariance, PTL

\* A flow starts beside another only when that one has lost the page.
THEOREM StartAlone == Spec => FlowsStartAlone
<1>1. ASSUME IInv, [Next]_vars, NEW f \in Running(flow') \ Running(flow)
      PROVE  Running(flow) \subseteq loose
  <2>1. Good
    BY <1>1, GoodInvariant
  <2>2. ~page.busy => Running(flow) \subseteq loose
    BY <2>1 DEF Good, Owned
  <2>3. page.busy => Running(flow') \subseteq Running(flow)
    BY <1>1, <2>1, BusyStep
  <2> QED BY <1>1, <2>2, <2>3
<1>2. IInv /\ [Next]_vars =>
         [\A f \in Running(flow') \ Running(flow) : Running(flow) \subseteq loose]_vars
  BY <1>1
<1> QED BY <1>2, Invariance, PTL DEF Spec, FlowsStartAlone

\* A board that is given an identity holds the values of that device only, if
\* the script that gives it went by its own answers: two scripts that run on one
\* board reject each other's waits before either is finalized.
THEOREM IdentityWhole == Spec => WholeIdentity
<1>1. ASSUME IInv, [Next]_vars, NEW f \in Flows, NEW b \in Boards,
             MyTurn(f), ~flow[f].misled, mfg[b].id = Blank, mfg'[b].id # Blank
      PROVE  \A v \in Values : mfg'[b].parts[v] = mfg'[b].id
  <2>1. Good /\ Memory
    BY <1>1, GoodInvariant
  <2>2. mfg \in [Boards -> [id : Ids, parts : [Values -> Devices \cup {None}]]] /\ mfg' # mfg
    BY <1>1, <2>1 DEF Memory
  <2>3. PICK g \in Flows :
              /\ MyTurn(g) /\ flow[g].valid
              /\ mfg' = [mfg EXCEPT ![link.board] =
                           Executed(mfg[link.board], flow[g].cmd, flow[g].dev)]
                 \/ mfg' = [mfg EXCEPT ![link.board] = mfg[link.board]]
    BY <1>1, <2>2, OnlyLinesWrite
  <2>4. g = f
    <3>1. f \in Senders(flow) /\ g \in Senders(flow) /\ flow[f].ahead = 0 /\ flow[g].ahead = 0
      BY <1>1, <2>3 DEF Senders, MyTurn
    <3>2. InLine(flow)
      BY <2>1 DEF Good, World
    <3> QED BY <3>1, <3>2 DEF InLine
  <2>5. link.board # None
    BY <2>1, <2>3 DEF Good, Acks
  <2> DEFINE m == mfg[b]
             x == Executed(m, flow[f].cmd, flow[f].dev)
  <2>6. b = link.board /\ mfg'[b] = x
    BY <1>1, <2>2, <2>3, <2>4
  <2>7. flow[f] \in FlowRecords /\ Shape(flow[f])
    BY <2>1, FlowFacts
  <2>8. flow[f].cmd \in 0..Reboot /\ flow[f].dev \in Devices \cup {None}
    BY <2>7 DEF FlowRecords
  <2>9. /\ flow[f].cmd = Finalize /\ \A v \in Values : m.parts[v] # None
        /\ x = [m EXCEPT !.id = m.parts[1]]
    <3>1. m \in [id : Ids, parts : [Values -> Devices \cup {None}]]
      BY <2>2
    <3>2. m.id = Blank /\ x.id # Blank
      BY <1>1, <2>6
    <3> QED BY <2>8, <3>1, <3>2, ExecutedType
  <2>10. flow[f].at = "script" /\ flow[f].io = "send"
    BY <1>1, <2>7, <2>9, Numbers DEF Shape, MyTurn
  <2>11. Prefix(m, flow[f].dev, Finalize)
    BY <1>1, <2>1, <2>3, <2>4, <2>5, <2>6, <2>9, <2>10 DEF Good, Acks, Knows
  <2>12. \A v \in Values : SetCmd(v) < Finalize
    BY Numbers DEF SetCmd
  <2>13. \A v \in Values : m.parts[v] = flow[f].dev
    BY <1>1, <2>9, <2>11, <2>12 DEF Prefix
  <2>14. x.id = m.parts[1] /\ x.parts = m.parts
    BY <2>2, <2>9
  <2>15. 1 \in Values
    BY Numbers
  <2> HIDE DEF x, m
  <2>16. x.id = flow[f].dev /\ \A v \in Values : x.parts[v] = flow[f].dev
    BY <2>13, <2>14, <2>15
  <2> QED BY <2>6, <2>16
<1>2. IInv /\ [Next]_vars =>
         [\A f \in Flows : \A b \in Boards :
             /\ MyTurn(f) /\ ~flow[f].misled
             /\ mfg[b].id = Blank /\ mfg'[b].id # Blank
             => \A v \in Values : mfg'[b].parts[v] = mfg'[b].id]_vars
  BY <1>1
<1> QED BY <1>2, Invariance, PTL DEF Spec, WholeIdentity

-----------------------------------------------------------------------------
(* What a flow that has the page to itself knows of the board on its line.  *)

\* Flow f has the page to itself.
Alone(f) == f \in Running(flow) \ loose

\* Page m holds what the lines before line n of device d's script make of an erased
\* one, whatever has become of later lines of that device.
Written(m, d, n) ==
    /\ m.id = IF n = Reboot THEN d ELSE Blank
    /\ \A v \in Values : m.parts[v] \in {d, None} /\ (SetCmd(v) < n => m.parts[v] = d)

\* Between the lines of its script.
Scripting(r) == r.at = "settling" \/ (r.at = "script" /\ r.cmd # Erase)

\* What a flow's script has made of the page, and what more it knows if it goes by
\* its own answers.
Made(r, i, m) ==
    /\ Scripting(r) /\ m.id = Blank => \A v \in Values : m.parts[v] \in {r.dev, None}
    /\ ~r.misled =>
        /\ r.at = "settling" => Written(m, r.dev, 2)
        /\ r.at = "script" /\ r.io = "send" /\ r.cmd # Erase /\ r.valid => Written(m, r.dev, r.cmd)
        /\ r.at = "script" /\ r.io = "wait" /\ r.reply = "pending" /\ Confirmed(r, i)
              => Written(m, r.dev, r.cmd + 1)
        /\ r.at = "script" /\ r.io = "wait" /\ r.reply = "got" /\ r.event.ok
              => Written(m, r.dev, r.cmd + 1)

\* Before a flow's script has erased the board.
Early(r) ==
    \/ r.at \in {"status", "retry", "cloud", "attempting", "recheck", "fetching"}
    \/ r.at = "script" /\ r.cmd = Erase

\* Identity x was read of page m: it is m's, or m had none before the flow's script,
\* or the answer left it out.
ReadOf(r, x, m) == x \in {m.id, Nameless} \/ (x = Blank /\ ~Early(r) /\ m.id = r.dev)

\* What a flow that made its own link has read of the board, and is yet to read.
Reads(r, i, m) ==
    /\ \A k \in DOMAIN i : i[k].t = "prov" => ReadOf(r, i[k].id, m)
    /\ r.at \in StatusChecks /\ r.reply = "got" => ReadOf(r, r.event.id, m)
    /\ r.at \in {"cloud", "fetching"} \/ (r.at = "script" /\ r.cmd = Erase) => m.id = Blank

\* What the wizard knew of the board when the write was started.
Agreed(r, p, m) ==
    r.same /\ (r.at \in {"attempting", "fetching"} \/ (r.at = "script" /\ r.cmd = Erase))
        => m.id \in {Blank, p.device}

\* Since its script was fetched, a flow works for the chosen device.
Chosen(r) ==
    \/ r.at \in {"fetching", "script", "settling", "succeeding", "rebooting", "verifying", "checking"}
    \/ r.at = "linking" /\ r.kind = "auto"

Claims(r, p, l, i, pages) ==
    /\ Chosen(r) => r.dev = p.device
    /\ r.at = "linking" => l.board = None
    /\ r.at \in StatusChecks /\ r.io = "wait" /\ r.reply = "got" => l.board # None
    /\ l.board # None => /\ Made(r, i, pages[l.board])
                         /\ r.kind # "write" => Reads(r, i, pages[l.board])
                         /\ r.kind = "write" => Agreed(r, p, pages[l.board])

Claim(f) == Claims(flow[f], page, link, inbox, mfg)
AloneInv == \A f \in Flows : Alone(f) => Claim(f)

\* What the page shows of the board, if it was read by a flow that had the page to
\* itself: no loose flow is left, and only that flow has written since.
ReadAlone == link.read => Running(flow) \cap loose = {}
ReadRight ==
    link.read /\ link.board # None /\ page.detected \notin {None, Nameless}
        => mfg[link.board].id \in {Blank, page.detected, page.device}

KnownInv == AloneInv /\ ReadAlone /\ ReadRight

-----------------------------------------------------------------------------
(* What the claims allow a flow to become.                                  *)

\* Without a link.
LEMMA DarkClaims ==
    ASSUME NEW r, NEW p, NEW l, NEW i, NEW pg, l.board = None,
           Chosen(r) => r.dev = p.device,
           r.at \in StatusChecks /\ r.io = "wait" => r.reply # "got"
    PROVE  Claims(r, p, l, i, pg)
BY DEF Claims

\* At a stage where it awaits nothing of the board.
LEMMA RestingClaims ==
    ASSUME NEW r, NEW p, NEW l, NEW i, NEW pg, Claims(r, p, l, i, pg),
           NEW r2, NEW p2, NEW l2, NEW pg2,
           r2.kind = r.kind, r2.dev = r.dev, l2.board = l.board,
           r2.at \in {"attempting", "succeeding", "rebooting", "verifying", "closing"},
           Early(r2) => Early(r),
           Chosen(r2) => r2.dev = p2.device,
           r2.at = "attempting" => r.kind # "write",
           l.board # None /\ r.kind # "write" =>
              \/ pg2[l.board].id = pg[l.board].id
              \/ pg[l.board].id = Blank /\ ~Early(r2) /\ pg2[l.board].id = r.dev
    PROVE  Claims(r2, p2, l2, i, pg2)
<1>1. r2.at \notin StatusChecks \cup {"cloud", "fetching", "script", "settling", "linking"}
  BY DEF StatusChecks
<1>2. l.board # None => Made(r2, i, pg2[l.board])
  BY <1>1 DEF Made, Scripting
<1>3. ASSUME l.board # None, r.kind # "write" PROVE Reads(r2, i, pg2[l.board])
  <2>1. Reads(r, i, pg[l.board])
    BY <1>3 DEF Claims
  <2>2. \A k \in DOMAIN i : i[k].t = "prov" => ReadOf(r2, i[k].id, pg2[l.board])
    BY <1>3, <2>1 DEF Reads, ReadOf
  <2> QED BY <1>1, <2>2 DEF Reads
<1>4. r.kind = "write" => Agreed(r2, p2, pg2[l.board])
  BY <1>1 DEF Agreed
<1> QED BY <1>1, <1>2, <1>3, <1>4 DEF Claims

\* Nothing but its wait may have been settled without an answer.
LEMMA AsideClaims ==
    ASSUME NEW r, NEW p, NEW l, NEW i, NEW pg, Claims(r, p, l, i, pg),
           NEW r2, NEW p2, NEW l2,
           r2.kind = r.kind, r2.at = r.at, r2.dev = r.dev, r2.cmd = r.cmd, r2.io = r.io,
           r2.misled = r.misled, r2.event = r.event, r2.valid => r.valid, r2.same => r.same,
           r2.reply = r.reply \/ r2.reply \in {"timeout", "cancelled"},
           p2.device = p.device, l2.board = l.board
    PROVE  Claims(r2, p2, l2, i, pg)
<1>1. Confirmed(r2, i) => Confirmed(r, i)
  BY DEF Confirmed, Expects
<1>2. ASSUME l.board # None PROVE Made(r2, i, pg[l.board])
  BY <1>1, <1>2 DEF Claims, Made, Scripting
<1>3. (Early(r2) <=> Early(r)) /\ (Chosen(r2) <=> Chosen(r))
  BY DEF Early, Chosen
<1>4. ASSUME l.board # None, r.kind # "write" PROVE Reads(r2, i, pg[l.board])
  BY <1>3, <1>4 DEF Claims, Reads, ReadOf
<1>5. ASSUME l.board # None, r.kind = "write" PROVE Agreed(r2, p2, pg[l.board])
  BY <1>5 DEF Claims, Agreed
<1> QED BY <1>2, <1>3, <1>4, <1>5 DEF Claims

\* It asks the board who it is.
LEMMA AskedClaims ==
    ASSUME NEW r, NEW p, NEW l, NEW i, NEW pg, Claims(r, p, l, i, pg),
           NEW r2, NEW p2, NEW l2,
           r2.kind = r.kind, r2.dev = r.dev, l2.board = l.board, r2.at \in StatusChecks,
           r2.io = "send", r2.reply = "pending", Early(r2) => Early(r),
           Chosen(r2) => r2.dev = p2.device
    PROVE  Claims(r2, p2, l2, i, pg)
<1>1. r2.at \notin {"cloud", "attempting", "fetching", "script", "settling", "linking"}
  BY DEF StatusChecks
<1>2. l.board # None => Made(r2, i, pg[l.board])
  BY <1>1 DEF Made, Scripting
<1>3. ASSUME l.board # None, r.kind # "write" PROVE Reads(r2, i, pg[l.board])
  <2>1. Reads(r, i, pg[l.board])
    BY <1>3 DEF Claims
  <2> QED BY <1>1, <2>1 DEF Reads, ReadOf
<1>4. r.kind = "write" => Agreed(r2, p2, pg[l.board])
  BY <1>1 DEF Agreed
<1> QED BY <1>1, <1>2, <1>3, <1>4 DEF Claims

\* It hands over line n of its script.
LEMMA HandedClaims ==
    ASSUME NEW r, NEW p, NEW l, NEW i, NEW pg, Claims(r, p, l, i, pg),
           NEW r2, NEW p2, NEW l2, NEW n,
           r2.kind = r.kind, r2.dev = r.dev, r2.misled = r.misled, r2.same = r.same,
           p2.device = p.device, l2.board = l.board,
           r.at \in {"fetching", "settling", "script"},
           r2.at = "script", r2.cmd = n, r2.io = "send", r2.reply \in {"pending", "none"},
           n = Erase => r.at = "fetching",
           n # Erase => ~Early(r),
           n # Erase /\ l.board # None /\ ~r.misled => Written(pg[l.board], r.dev, n)
    PROVE  Claims(r2, p2, l2, i, pg)
<1>1. ASSUME l.board # None PROVE Made(r2, i, pg[l.board])
  <2>1. Scripting(r2) => Scripting(r)
    BY DEF Scripting, Early
  <2> QED BY <1>1, <2>1 DEF Claims, Made
<1>2. (Early(r2) => Early(r)) /\ r2.at \notin StatusChecks /\ Chosen(r)
  BY DEF Early, StatusChecks, Chosen
<1>3. ASSUME l.board # None, r.kind # "write" PROVE Reads(r2, i, pg[l.board])
  <2>1. Reads(r, i, pg[l.board])
    BY <1>3 DEF Claims
  <2> QED BY <1>2, <2>1 DEF Reads, ReadOf
<1>4. ASSUME l.board # None, r.kind = "write" PROVE Agreed(r2, p2, pg[l.board])
  BY <1>4 DEF Claims, Agreed
<1> QED BY <1>1, <1>2, <1>3, <1>4 DEF Claims

-----------------------------------------------------------------------------
(* Who is alone.                                                            *)

LEMMA AloneFacts ==
    ASSUME Good, NEW f \in Flows, Alone(f)
    PROVE  /\ page.busy
           /\ f \in Running(flow) /\ f \notin loose
           /\ flow[f].kind \in {"connect", "verify", "write", "auto"}
           /\ \A g \in Flows \ {f} : flow[g].kind \in {"none", "attach"}
                                     /\ flow[g].at \in {"idle", "linking"}
<1>1. flow[f] \in FlowRecords
  BY FlowFacts
<1>2. ASSUME NEW g \in Flows, g # f PROVE flow[g].kind \in {"none", "attach"}
  BY <1>2 DEF Good, Owned, Alone, Running
<1>3. \A g \in Flows : Shape(flow[g])
  BY FlowFacts
<1> QED BY <1>1, <1>2, <1>3 DEF Good, Owned, Alone, Running, FlowRecords, Kinds, Shape

\* A loose flow that is still running stays loose.
StayLoose == loose \cap Running(flow) \cap Running(flow') \subseteq loose'

LEMMA LinkLostLoose ==
    ASSUME NEW fl \in [Flows -> FlowRecords], NEW p, NEW w, LinkLost(fl, p, w)
    PROVE  StayLoose
<1>1. \A g \in Flows : flow'[g].kind = fl[g].kind
  BY LinkLostKinds
<1>2. Running(flow') = Running(fl)
  BY <1>1 DEF Running
<1>3. \E frees : loose' = Loosened(fl, frees)
  BY DEF LinkLost
<1> QED BY <1>2, <1>3 DEF StayLoose, Loosened

LEMMA EndAutoLoose ==
    ASSUME NEW f \in Flows, NEW fl \in [Flows -> FlowRecords], NEW w, NEW failed,
           EndAuto(f, fl, w, failed)
    PROVE  StayLoose
<1> DEFINE others == [fl EXCEPT ![f] = NoFlow]
<1>1. others \in [Flows -> FlowRecords]
  BY CalmNoFlow DEF Calm
<1> HIDE DEF others
<1>2. loose' = loose \/ \E p : LinkLost(Unbound(others), p, w)
  BY DEF EndAuto, others
<1>3. Unbound(others) \in [Flows -> FlowRecords]
  BY <1>1, UnboundRecords
<1> QED BY <1>2, <1>3, LinkLostLoose DEF StayLoose

LEMMA FailLoose ==
    ASSUME NEW f \in Flows, NEW fl \in [Flows -> FlowRecords], NEW w, Fail(f, fl, w)
    PROVE  StayLoose
<1>1. loose' = loose \/ EndAuto(f, fl, w, TRUE)
  BY DEF Fail
<1> QED BY <1>1, EndAutoLoose DEF StayLoose

\* Advancing the queue leaves flows what they are.
LEMMA AdvancedTyped ==
    ASSUME NEW fl \in [Flows -> FlowRecords]
    PROVE  Advanced(fl) \in [Flows -> FlowRecords]
<1>1. ASSUME NEW r \in FlowRecords
      PROVE  [r EXCEPT !.ahead = IF r.ahead > 0 THEN r.ahead - 1 ELSE 0] \in FlowRecords
  <2> DEFINE n == IF r.ahead > 0 THEN r.ahead - 1 ELSE 0
  <2>1. r.ahead \in 0..Cardinality(Flows)
    BY DEF FlowRecords
  <2>2. n \in 0..Cardinality(Flows)
    BY <2>1, Numbers
  <2> HIDE DEF n
  <2>3. [r EXCEPT !.ahead = n] \in FlowRecords
    BY <2>2 DEF FlowRecords
  <2> QED BY <2>3 DEF n
<1> QED BY <1>1 DEF Advanced

\* A flow that begins to make a link, and one that becomes automatic setup.
LEMMA LinkingRecord ==
    ASSUME NEW k \in Kinds, NEW b \in Boards, NEW via \in Vias
    PROVE  LET r == [NoFlow EXCEPT !.kind = k, !.at = "linking", !.board = b, !.via = via,
                                   !.same = TRUE]
           IN  r \in FlowRecords /\ r.at = "linking" /\ r.kind = k
<1>1. NoFlow \in FlowRecords /\ via \in Vias \cup {"none"} /\ b \in Boards \cup {None}
      /\ "linking" \in Stages /\ k \in Kinds \cup {"none"} /\ Vias \subseteq {"ble", "serial"}
  BY CalmNoFlow, BoardsOK DEF Calm, Stages
<1> HIDE DEF NoFlow
<1> QED BY <1>1 DEF FlowRecords

LEMMA AutoRecord ==
    ASSUME NEW r \in FlowRecords
    PROVE  [r EXCEPT !.kind = "auto"] \in FlowRecords
<1>1. "auto" \in Kinds \cup {"none"}
  BY DEF Kinds
<1> QED BY <1>1 DEF FlowRecords

LEMMA LooseStep ==
    ASSUME Good, Next \/ UNCHANGED vars
    PROVE  StayLoose
<1>1. flow \in [Flows -> FlowRecords]
  BY DEF Good, World, Typed
<1>2. Unbound(flow) \in [Flows -> FlowRecords] /\ Cancelled(flow, wait) \in [Flows -> FlowRecords]
      /\ Advanced(Cancelled(flow, wait)) \in [Flows -> FlowRecords]
  BY <1>1, UnboundRecords, CancelledKinds, AdvancedTyped
<1>3. loose' = loose => StayLoose
  BY DEF StayLoose
<1>4. CASE Drop \/ UserDisconnect
  BY <1>2, <1>4, LinkLostLoose DEF Drop, UserDisconnect
<1>5. CASE Deliver \/ Confirm \/ Restart \/ (\E to \in {"connect", "write"} : Go(to))
           \/ (\E d \in Devices : ChooseDevice(d)) \/ UNCHANGED vars
  BY <1>3, <1>5 DEF Deliver, Confirm, Restart, Go, ChooseDevice, Controls, vars
<1>6. ASSUME NEW f \in Flows, StartWrite(f) PROVE StayLoose
  BY <1>6 DEF StartWrite, Loosened, StayLoose
<1>7. ASSUME NEW f \in Flows, NEW b \in Boards,
             StartWizardLink(f, b) \/ \E via \in Vias : StartAttach(f, b, via)
      PROVE  StayLoose
  <2>1. flow[f].kind = "none"
    BY <1>7, CalmNoFlow DEF StartWizardLink, StartAttach, Start
  <2>2. PICK via \in Vias : \E k \in Kinds : \E p : Attaching(f, k, b, via, p)
    <3>1. CASE StartWizardLink(f, b)
      <4>1. page.step \in Kinds /\ "ble" \in Vias
        BY <3>1 DEF StartWizardLink, Kinds
      <4> QED BY <3>1, <4>1 DEF StartWizardLink
    <3>2. CASE \E via \in Vias : StartAttach(f, b, via)
      BY <3>2 DEF StartAttach, Kinds
    <3> QED BY <1>7, <3>1, <3>2
  <2>3. PICK k \in Kinds : \E p : Attaching(f, k, b, via, p)
    BY <2>2
  <2>4. \E r \in FlowRecords : \E p : LinkLost([Unbound(flow) EXCEPT ![f] = r], p, wait)
    <3> DEFINE r == [NoFlow EXCEPT !.kind = k, !.at = "linking", !.board = b, !.via = via, !.same = TRUE]
    <3>1. \E p : LinkLost([Unbound(flow) EXCEPT ![f] = r], p, wait)
      BY <2>3 DEF Attaching
    <3>2. r \in FlowRecords
      BY LinkingRecord
    <3> QED BY <3>1, <3>2
  <2> QED BY <1>2, <2>4, LinkLostLoose
<1>8. ASSUME NEW f \in Flows, Linked(f) PROVE StayLoose
  BY <1>8 DEF Linked, Loosened, StayLoose
<1>9. ASSUME NEW f \in Flows, VerifyRound(f) PROVE StayLoose
  <2>1. loose' = loose \/ \E r \in FlowRecords : LinkLost([Unbound(flow) EXCEPT ![f] = r], page, wait)
    <3> DEFINE r == [flow[f] EXCEPT !.at = "linking", !.same = TRUE]
    <3>1. flow[f] \in FlowRecords
      BY <1>1
    <3>2. r \in FlowRecords
      BY <3>1 DEF FlowRecords, Stages
    <3> QED BY <1>9, <3>2 DEF VerifyRound
  <2> QED BY <1>2, <1>3, <2>1, LinkLostLoose
<1>10. ASSUME NEW f \in Flows,
              SendFails(f) \/ ScriptStops(f) \/ CloudFails(f) \/ FetchFails(f) \/ Deadline(f)
              \/ StatusUnanswered(f) \/ Attempted(f) \/ Closed(f)
       PROVE  StayLoose
  <2>1. \/ loose' = loose
        \/ \E fl \in {flow, Cancelled(flow, wait), Advanced(Cancelled(flow, wait))} : \E w :
              Fail(f, fl, w) \/ \E b : EndAuto(f, fl, w, b)
    BY <1>10 DEF SendFails, ScriptStops, CloudFails, FetchFails, Deadline, StatusUnanswered,
                 Attempted, Closed
  <2> QED BY <1>1, <1>2, <1>3, <2>1, FailLoose, EndAutoLoose
<1>11. ASSUME NEW f \in Flows,
              Sent(f) \/ Timeout(f) \/ LinkFails(f) \/ StatusAnswered(f) \/ CloudReady(f)
              \/ Fetched(f) \/ Settled(f) \/ Acknowledged(f) \/ RebootSent(f) \/ Succeeded(f)
              \/ Rebooted(f)
       PROVE  StayLoose
  BY <1>3, <1>11 DEF Sent, Timeout, LinkFails, StatusAnswered, WizardRead, AutoRead, Rechecked,
       Verified, CloudReady, Fetched, Settled, Acknowledged, RebootSent, Succeeded, Rebooted
<1> QED BY <1>4, <1>5, <1>6, <1>7, <1>8, <1>9, <1>10, <1>11 DEF Next, UserStep, FlowStep

\* A flow that is alone was, or has just begun.
LEMMA WasAlone ==
    ASSUME Good, Next \/ UNCHANGED vars, NEW f \in Flows, Alone(f)', f \in Running(flow)
    PROVE  Alone(f)
<1>1. StayLoose
  BY LooseStep
<1> QED BY <1>1 DEF Alone, StayLoose

-----------------------------------------------------------------------------
(* What the shared parts of the handlers make of the flow they work for.    *)

LEMMA AskStatusFlow ==
    ASSUME NEW f \in Flows, NEW fl \in [Flows -> FlowRecords], NEW p \in Pages, NEW at,
           AskStatus(f, fl, p, at)
    PROVE  /\ flow'[f].kind = fl[f].kind /\ flow'[f].at = at /\ flow'[f].dev = fl[f].dev
           /\ flow'[f].io = "send" /\ flow'[f].reply = "pending"
           /\ page'.device = p.device
<1> DEFINE c == Superseded(fl)
           r == [fl[f] EXCEPT !.at = at, !.cmd = 0, !.io = "send", !.reply = "pending",
                        !.ahead = QueuedWrites, !.valid = link'.board # None]
<1>1. flow' = [c EXCEPT ![f] = r]
  BY DEF AskStatus
<1>2. c \in [Flows -> FlowRecords]
  BY CancelledKinds DEF Superseded
<1>3. fl[f] \in FlowRecords
  OBVIOUS
<1>4. r.kind = fl[f].kind /\ r.at = at /\ r.dev = fl[f].dev /\ r.io = "send" /\ r.reply = "pending"
  BY <1>3 DEF FlowRecords
<1>5. page'.device = p.device
  BY DEF AskStatus, Pages
<1> HIDE DEF c, r
<1>6. flow'[f] = r
  BY <1>1, <1>2
<1> QED BY <1>4, <1>5, <1>6

LEMMA SendNextFlow ==
    ASSUME NEW f \in Flows, flow \in [Flows -> FlowRecords], page \in Pages, NEW n, SendNext(f, n)
    PROVE  /\ flow'[f].kind = flow[f].kind /\ flow'[f].at = "script" /\ flow'[f].cmd = n
           /\ flow'[f].io = "send" /\ flow'[f].reply \in {"pending", "none"}
           /\ flow'[f].dev = flow[f].dev /\ flow'[f].misled = flow[f].misled
           /\ flow'[f].same = flow[f].same
           /\ page'.device = page.device
<1> DEFINE c == Superseded(flow)
           r == [flow[f] EXCEPT !.at = "script", !.cmd = n, !.io = "send",
                        !.ahead = QueuedWrites, !.valid = Up,
                        !.event = NoEvent, !.reply = IF Awaits(n) THEN "pending" ELSE "none"]
<1>1. flow' = [c EXCEPT ![f] = r] \/ flow' = [flow EXCEPT ![f] = r]
  BY DEF SendNext
<1>2. c \in [Flows -> FlowRecords]
  BY CancelledKinds DEF Superseded
<1>3. flow[f] \in FlowRecords
  OBVIOUS
<1>4. /\ r.kind = flow[f].kind /\ r.at = "script" /\ r.cmd = n /\ r.io = "send"
      /\ r.reply \in {"pending", "none"} /\ r.dev = flow[f].dev /\ r.misled = flow[f].misled
      /\ r.same = flow[f].same
  BY <1>3 DEF FlowRecords
<1>5. page'.device = page.device
  BY DEF SendNext, Pages
<1> HIDE DEF c, r
<1>6. flow'[f] = r
  BY <1>1, <1>2
<1> QED BY <1>4, <1>5, <1>6

LEMMA AtFields ==
    ASSUME NEW f \in Flows, flow[f] \in FlowRecords, NEW stage
    PROVE  /\ At(f, stage).kind = flow[f].kind /\ At(f, stage).at = stage
           /\ At(f, stage).dev = flow[f].dev
           /\ [At(f, stage) EXCEPT !.failed = TRUE].kind = flow[f].kind
           /\ [At(f, stage) EXCEPT !.failed = TRUE].at = stage
           /\ [At(f, stage) EXCEPT !.failed = TRUE].dev = flow[f].dev
           /\ Fetching(f).kind = flow[f].kind /\ Fetching(f).at = "fetching"
           /\ Fetching(f).dev = page.device /\ Fetching(f).same = flow[f].same
BY DEF At, Fetching, FlowRecords

LEMMA EndAutoEnds ==
    ASSUME NEW f \in Flows, NEW fl \in [Flows -> FlowRecords], NEW w, NEW failed,
           EndAuto(f, fl, w, failed)
    PROVE  flow'[f].kind = "none"
<1> DEFINE others == [fl EXCEPT ![f] = NoFlow]
<1>1. others \in [Flows -> FlowRecords] /\ others[f].kind = "none"
  BY CalmNoFlow DEF Calm
<1> HIDE DEF others
<1>2. \/ flow' = others \/ flow' = Unbound(others)
      \/ \E p : LinkLost(Unbound(others), p, w)
  BY DEF EndAuto, others
<1>3. Unbound(others) \in [Flows -> FlowRecords]
      /\ \A g \in Flows : Unbound(others)[g].kind = others[g].kind
  BY <1>1, UnboundRecords, UnboundKinds
<1> QED BY <1>1, <1>2, <1>3, LinkLostKinds

\* A flow that fails ends, or is about to, or tries again.
LEMMA FailFlow ==
    ASSUME NEW f \in Flows, NEW fl \in [Flows -> FlowRecords], flow[f] \in FlowRecords,
           NEW w, Fail(f, fl, w)
    PROVE  \/ flow'[f].kind = "none"
           \/ /\ flow'[f].kind = flow[f].kind /\ flow'[f].dev = flow[f].dev
              /\ \/ flow'[f].at = "closing"
                 \/ flow'[f].at = "verifying" /\ flow[f].at = "checking" /\ page' = page
              /\ link' = link /\ inbox' = inbox
<1>1. \/ flow' = [fl EXCEPT ![f] = NoFlow]
      \/ EndAuto(f, fl, w, TRUE)
      \/ /\ flow' = [fl EXCEPT ![f] = At(f, "verifying")] /\ flow[f].at = "checking" /\ page' = page
         /\ link' = link /\ inbox' = inbox
      \/ /\ flow' = [fl EXCEPT ![f] = [At(f, "closing") EXCEPT !.failed = TRUE]]
         /\ link' = link /\ inbox' = inbox
  BY DEF Fail
<1> DEFINE v == At(f, "verifying")
           x == [At(f, "closing") EXCEPT !.failed = TRUE]
<1>2. /\ v.kind = flow[f].kind /\ v.at = "verifying" /\ v.dev = flow[f].dev
      /\ x.kind = flow[f].kind /\ x.at = "closing" /\ x.dev = flow[f].dev
  BY AtFields
<1> HIDE DEF v, x
<1>3. CASE \/ /\ flow' = [fl EXCEPT ![f] = v] /\ flow[f].at = "checking" /\ page' = page
              /\ link' = link /\ inbox' = inbox
           \/ /\ flow' = [fl EXCEPT ![f] = x]
              /\ link' = link /\ inbox' = inbox
  BY <1>2, <1>3
<1>4. CASE flow' = [fl EXCEPT ![f] = NoFlow]
  BY <1>4, CalmNoFlow
<1> QED BY <1>1, <1>3, <1>4, EndAutoEnds DEF v, x

\* The flow that acts, and what is known of it.
Acts(f) ==
    /\ Good /\ Memory /\ Claim(f) /\ f \in Running(flow) /\ flow'[f].kind # "none"

LEMMA ActorFacts ==
    ASSUME NEW f \in Flows, Acts(f)
    PROVE  /\ flow \in [Flows -> FlowRecords] /\ flow[f] \in FlowRecords /\ Shape(flow[f])
           /\ page \in Pages /\ wait \in Waits /\ link \in Links /\ inbox \in Seq(Events)
           /\ World(flow, wait)
           /\ Cancelled(flow, wait) \in [Flows -> FlowRecords]
           /\ Advanced(flow) \in [Flows -> FlowRecords]
           /\ Advanced(Cancelled(flow, wait)) \in [Flows -> FlowRecords]
           /\ Claims(flow[f], page, link, inbox, mfg)
<1>1. flow \in [Flows -> FlowRecords]
  BY DEF Acts, Good, World, Typed
<1> QED BY <1>1, FlowFacts, CancelledKinds, AdvancedTyped DEF Acts, Good, Claim

\* It fails, and no page was written.
LEMMA FailClaims ==
    ASSUME NEW f \in Flows, Acts(f), NEW fl \in [Flows -> FlowRecords], NEW w, Fail(f, fl, w),
           mfg' = mfg
    PROVE  Claim(f)'
<1>1. flow[f] \in FlowRecords /\ Claims(flow[f], page, link, inbox, mfg)
  BY ActorFacts
<1>2. /\ flow'[f].kind = flow[f].kind /\ flow'[f].dev = flow[f].dev
      /\ \/ flow'[f].at = "closing"
         \/ flow'[f].at = "verifying" /\ flow[f].at = "checking" /\ page' = page
      /\ link' = link /\ inbox' = inbox
  BY <1>1, FailFlow DEF Acts
<1>3. ~Early(flow'[f]) /\ (Chosen(flow'[f]) => flow'[f].dev = page'.device)
  BY <1>1, <1>2 DEF Early, Claims, Chosen
<1>4. Claims(flow'[f], page', link', inbox, mfg')
  BY <1>1, <1>2, <1>3, RestingClaims
<1> QED BY <1>2, <1>4 DEF Claim

-----------------------------------------------------------------------------
(* The flow's own steps.                                                    *)

LEMMA RestsClaims ==
    ASSUME NEW f \in Flows, Acts(f), flow'[f].kind = flow[f].kind, flow'[f].dev = flow[f].dev,
           flow'[f].at \in {"attempting", "succeeding", "rebooting", "verifying", "closing"},
           Early(flow'[f]) => Early(flow[f]),
           Chosen(flow'[f]) => Chosen(flow[f]) /\ page'.device = page.device,
           flow'[f].at = "attempting" => flow[f].kind # "write",
           link'.board = link.board, inbox' = inbox, mfg' = mfg
    PROVE  Claim(f)'
<1>1. Claims(flow[f], page, link, inbox, mfg)
  BY ActorFacts
<1>2. Chosen(flow'[f]) => flow'[f].dev = page'.device
  BY <1>1 DEF Claims
<1>3. Claims(flow'[f], page', link', inbox, mfg')
  BY <1>1, <1>2, RestingClaims
<1> QED BY <1>3 DEF Claim

LEMMA AsksClaims ==
    ASSUME NEW f \in Flows, Acts(f), NEW p \in Pages, NEW at \in StatusChecks,
           AskStatus(f, flow, p, at),
           at = "checking" \/ Early(flow[f]),
           at = "checking" => flow[f].at = "verifying" /\ p.device = page.device,
           link' = link, inbox' = inbox, mfg' = mfg
    PROVE  Claim(f)'
<1>1. Claims(flow[f], page, link, inbox, mfg) /\ flow \in [Flows -> FlowRecords]
  BY ActorFacts
<1>2. /\ flow'[f].kind = flow[f].kind /\ flow'[f].at = at
      /\ flow'[f].io = "send" /\ flow'[f].reply = "pending" /\ flow'[f].dev = flow[f].dev
      /\ page'.device = p.device
  BY <1>1, AskStatusFlow
<1>3. (Early(flow'[f]) => Early(flow[f])) /\ (Chosen(flow'[f]) => flow'[f].dev = page'.device)
  <2>1. Early(flow'[f]) => Early(flow[f])
    BY <1>2 DEF Early, StatusChecks
  <2>2. Chosen(flow'[f]) => at = "checking"
    BY <1>2 DEF Chosen, StatusChecks
  <2> QED BY <1>1, <1>2, <2>1, <2>2 DEF Claims, Chosen
<1>4. Claims(flow'[f], page', link', inbox, mfg)
  BY <1>1, <1>2, <1>3, AskedClaims
<1> QED BY <1>4 DEF Claim

LEMMA TimeoutClaims ==
    ASSUME NEW f \in Flows, Acts(f), Timeout(f)
    PROVE  Claim(f)'
<1> DEFINE r == [flow[f] EXCEPT !.reply = "timeout"]
<1>1. /\ Claims(flow[f], page, link, inbox, mfg) /\ flow \in [Flows -> FlowRecords]
      /\ flow[f] \in FlowRecords
  BY ActorFacts
<1>2. flow' = [flow EXCEPT ![f] = r] /\ UNCHANGED <<page, link, inbox, mfg>>
  BY <1>1 DEF Timeout
<1>3. /\ r.kind = flow[f].kind /\ r.at = flow[f].at /\ r.dev = flow[f].dev /\ r.cmd = flow[f].cmd
      /\ r.io = flow[f].io /\ r.misled = flow[f].misled /\ r.event = flow[f].event
      /\ r.valid = flow[f].valid /\ r.same = flow[f].same /\ r.reply = "timeout"
  BY <1>1 DEF FlowRecords
<1> HIDE DEF r
<1>4. Claims(r, page, link, inbox, mfg)
  BY <1>1, <1>3, AsideClaims
<1>5. flow'[f] = r
  BY <1>1, <1>2
<1> QED BY <1>2, <1>4, <1>5 DEF Claim

\* A link that its flow has made: nothing has come over it.
LEMMA LinkedClaims ==
    ASSUME NEW f \in Flows, Good, Linked(f), flow'[f].kind # "none",
           flow[f].kind = "auto" => Claim(f)
    PROVE  Claim(f)'
<1> DEFINE u == Unbound(flow)
           fl == [u EXCEPT ![f] = flow[f]]
           g == [fl EXCEPT ![f].kind = "auto"]
<1>1. /\ flow \in [Flows -> FlowRecords] /\ flow[f] \in FlowRecords /\ page \in Pages
      /\ link \in Links
  BY FlowFacts DEF Good, World, Typed
<1>2. inbox' = <<>>
  BY DEF Linked, Good, Acks, Up
<1>3. u \in [Flows -> FlowRecords]
  BY <1>1, UnboundRecords
<1>4. fl \in [Flows -> FlowRecords] /\ fl[f] = flow[f]
  BY <1>1, <1>3
<1>5. \/ flow' = [fl EXCEPT ![f] = NoFlow]
      \/ AskStatus(f, g, [page EXCEPT !.connected = TRUE, !.busy = TRUE, !.auto = TRUE], "status")
      \/ AskStatus(f, fl, [page EXCEPT !.connected = TRUE], "status")
      \/ /\ flow[f].kind = "auto"
         /\ AskStatus(f, fl, [page EXCEPT !.connected = TRUE], "checking")
  BY DEF Linked
<1> HIDE DEF u
<1>6. g \in [Flows -> FlowRecords]
  <2>1. [fl[f] EXCEPT !.kind = "auto"] \in FlowRecords
    BY <1>1, <1>4, AutoRecord
  <2>2. g = [fl EXCEPT ![f] = [fl[f] EXCEPT !.kind = "auto"]]
    BY <1>4
  <2> HIDE DEF fl
  <2> QED BY <1>4, <2>1, <2>2
<1> HIDE DEF g, fl
<1>7. flow'[f] # NoFlow
  BY CalmNoFlow
<1>8. /\ [page EXCEPT !.connected = TRUE, !.busy = TRUE, !.auto = TRUE] \in Pages
      /\ [page EXCEPT !.connected = TRUE] \in Pages
      /\ [page EXCEPT !.connected = TRUE].device = page.device
  BY <1>1 DEF Pages
<1>9. flow'[f].at \in {"status", "checking"} /\ flow'[f].io = "send" /\ flow'[f].reply = "pending"
  BY <1>4, <1>5, <1>6, <1>7, <1>8, AskStatusFlow
<1>10. ASSUME NEW m
       PROVE  Made(flow'[f], <<>>, m) /\ Reads(flow'[f], <<>>, m) /\ Agreed(flow'[f], page', m)
  BY <1>9 DEF Made, Scripting, Reads, Agreed
<1>11. ASSUME Chosen(flow'[f]) PROVE flow'[f].dev = page'.device
  <2>1. flow'[f].at = "checking"
    BY <1>9, <1>11 DEF Chosen
  <2>2. AskStatus(f, fl, [page EXCEPT !.connected = TRUE], "checking") /\ flow[f].kind = "auto"
    BY <1>4, <1>5, <1>6, <1>7, <1>8, <2>1, AskStatusFlow
  <2>3. flow'[f].dev = flow[f].dev /\ page'.device = page.device
    <3> DEFINE p == [page EXCEPT !.connected = TRUE]
    <3>1. p \in Pages /\ p.device = page.device /\ AskStatus(f, fl, p, "checking")
      BY <1>8, <2>2
    <3> HIDE DEF p
    <3>2. flow'[f].dev = fl[f].dev /\ page'.device = p.device
      BY <1>4, <3>1, AskStatusFlow
    <3> QED BY <1>4, <3>1, <3>2
  <2>4. Claims(flow[f], page, link, inbox, mfg) /\ flow[f].at = "linking"
    BY <2>2 DEF Claim, Linked
  <2> QED BY <2>2, <2>3, <2>4 DEF Claims, Chosen
<1> QED BY <1>2, <1>9, <1>10, <1>11 DEF Claim, Claims

LEMMA LinkFailsClaims ==
    ASSUME NEW f \in Flows, Acts(f), LinkFails(f)
    PROVE  Claim(f)'
<1>1. Claims(flow[f], page, link, inbox, mfg) /\ flow \in [Flows -> FlowRecords]
      /\ flow[f] \in FlowRecords
  BY ActorFacts
<1>2. link'.board = None
  BY <1>1 DEF LinkFails, Claims
<1>3. Unbound(flow) \in [Flows -> FlowRecords]
  BY <1>1, UnboundRecords
<1>4. flow'[f] = NoFlow \/ flow'[f] = At(f, "verifying")
  BY <1>3 DEF LinkFails
<1>5. flow'[f].at = "verifying" /\ flow'[f].dev = flow[f].dev /\ flow[f].kind = "auto"
  <2>1. flow[f].kind # "auto" => flow'[f] = NoFlow
    BY <1>3 DEF LinkFails
  <2> QED BY <1>1, <1>4, <2>1, AtFields, CalmNoFlow DEF Acts
<1>6. flow'[f].dev = page'.device
  <2>1. page \in Pages
    BY ActorFacts
  <2>2. page'.device = page.device /\ flow[f].at = "linking"
    BY <2>1 DEF LinkFails, Pages
  <2> QED BY <1>1, <1>5, <2>2 DEF Claims, Chosen
<1>7. Claims(flow'[f], page', link', inbox', mfg')
  BY <1>2, <1>5, <1>6, DarkClaims DEF StatusChecks
<1> QED BY <1>7 DEF Claim

\* What it read of the board is the board's, and it is blank if it is to be erased.
LEMMA StatusAnsweredClaims ==
    ASSUME NEW f \in Flows, Acts(f), StatusAnswered(f)
    PROVE  Claim(f)'
<1>1. /\ Claims(flow[f], page, link, inbox, mfg) /\ flow \in [Flows -> FlowRecords]
      /\ flow[f] \in FlowRecords /\ Shape(flow[f]) /\ page \in Pages /\ link \in Links
  BY ActorFacts
<1>2. link'.board = link.board /\ inbox' = inbox /\ mfg' = mfg
  BY <1>1 DEF StatusAnswered, WizardRead, AutoRead, Rechecked, Verified, ReadHere, Links
<1>3. flow[f].io = "wait" /\ flow[f].reply = "got" /\ flow[f].at \in StatusChecks
  BY DEF StatusAnswered
<1>4. \/ flow' = [flow EXCEPT ![f] = NoFlow]
      \/ \E stage \in {"verifying", "closing"} :
            /\ stage = "verifying" => flow[f].at = "checking"
            /\ \/ flow' = [flow EXCEPT ![f] = At(f, stage)]
               \/ flow' = [flow EXCEPT ![f] = [At(f, stage) EXCEPT !.failed = TRUE]]
      \/ /\ flow[f].at \in {"status", "retry"} /\ flow[f].kind = "auto" /\ Seen(f) = Blank
         /\ flow' = [flow EXCEPT ![f] = At(f, "cloud")]
      \/ /\ flow[f].at = "recheck" /\ Seen(f) = Blank
         /\ flow' = [flow EXCEPT ![f] = Fetching(f)]
  BY DEF StatusAnswered, WizardRead, AutoRead, Rechecked, Verified
<1>5. page'.device = page.device
  BY <1>1 DEF StatusAnswered, WizardRead, AutoRead, Rechecked, Verified, Detected, Pages
<1>6. CASE flow' = [flow EXCEPT ![f] = NoFlow]
  BY <1>1, <1>6, CalmNoFlow DEF Acts
<1>7. ASSUME NEW stage \in {"verifying", "closing"},
             stage = "verifying" => flow[f].at = "checking",
             flow' = [flow EXCEPT ![f] = At(f, stage)]
             \/ flow' = [flow EXCEPT ![f] = [At(f, stage) EXCEPT !.failed = TRUE]]
      PROVE  Claim(f)'
  <2>1. flow'[f].kind = flow[f].kind /\ flow'[f].at = stage /\ flow'[f].dev = flow[f].dev
    <3> DEFINE a == At(f, stage)
               x == [At(f, stage) EXCEPT !.failed = TRUE]
    <3>1. /\ a.kind = flow[f].kind /\ a.at = stage /\ a.dev = flow[f].dev
          /\ x.kind = flow[f].kind /\ x.at = stage /\ x.dev = flow[f].dev
      BY <1>1, AtFields
    <3>2. flow' = [flow EXCEPT ![f] = a] \/ flow' = [flow EXCEPT ![f] = x]
      BY <1>7
    <3> HIDE DEF a, x
    <3> QED BY <1>1, <3>1, <3>2
  <2>2. ~Early(flow'[f]) /\ (Chosen(flow'[f]) => Chosen(flow[f]))
    BY <1>7, <2>1 DEF Early, Chosen
  <2> QED BY <1>2, <1>5, <2>1, <2>2, RestsClaims
<1>8. ASSUME NEW stage \in {"cloud", "fetching"}, flow'[f].at = stage,
             flow[f].kind = "auto", flow'[f].kind = "auto", Early(flow[f]), Seen(f) = Blank,
             stage = "fetching" => flow'[f].dev = page.device
      PROVE  Claim(f)'
  <2>1. flow'[f].at \notin StatusChecks
    BY <1>8 DEF StatusChecks
  <2>2. ASSUME link.board # None PROVE Reads(flow'[f], inbox, mfg[link.board])
    <3>1. Reads(flow[f], inbox, mfg[link.board])
      BY <1>1, <1>8, <2>2 DEF Claims
    <3>2. mfg[link.board].id = Blank
      BY <1>3, <1>8, <3>1, BoardsOK DEF Reads, ReadOf, Seen
    <3> QED BY <1>8, <2>1, <3>1, <3>2 DEF Reads, ReadOf
  <2>3. \A m : Made(flow'[f], inbox, m)
    BY <1>8 DEF Made, Scripting
  <2>4. Chosen(flow'[f]) => flow'[f].dev = page'.device
    BY <1>5, <1>8 DEF Chosen
  <2>5. Claims(flow'[f], page', link', inbox, mfg)
    BY <1>2, <1>8, <2>1, <2>2, <2>3, <2>4 DEF Claims
  <2> QED BY <1>2, <2>5 DEF Claim
<1>9. CASE /\ flow[f].at \in {"status", "retry"} /\ flow[f].kind = "auto" /\ Seen(f) = Blank
           /\ flow' = [flow EXCEPT ![f] = At(f, "cloud")]
  BY <1>1, <1>8, <1>9, AtFields DEF Early
<1>10. CASE /\ flow[f].at = "recheck" /\ Seen(f) = Blank
            /\ flow' = [flow EXCEPT ![f] = Fetching(f)]
  <2>1. flow[f].kind = "auto"
    BY <1>1, <1>10 DEF Shape, FlowRecords, Kinds
  <2> QED BY <1>1, <1>8, <1>10, <2>1, AtFields DEF Early
<1> QED BY <1>4, <1>6, <1>7, <1>9, <1>10

LEMMA StatusUnansweredClaims ==
    ASSUME NEW f \in Flows, Acts(f), StatusUnanswered(f)
    PROVE  Claim(f)'
<1>1. flow \in [Flows -> FlowRecords] /\ page \in Pages
  BY ActorFacts
<1>2. mfg' = mfg
  BY DEF StatusUnanswered
<1>3. \/ flow[f].at = "status" /\ link' = link /\ inbox' = inbox /\ AskStatus(f, flow, page, "retry")
      \/ EndAuto(f, flow, wait, FALSE)
      \/ Fail(f, flow, wait)
  BY DEF StatusUnanswered
<1>4. flow[f].at = "status" => Early(flow[f])
  BY DEF Early
<1>5. "retry" \in StatusChecks
  BY DEF StatusChecks
<1>6. ~EndAuto(f, flow, wait, FALSE)
  BY <1>1, EndAutoEnds DEF Acts
<1> QED BY <1>1, <1>2, <1>3, <1>4, <1>5, <1>6, AsksClaims, FailClaims

LEMMA CloudClaims ==
    ASSUME NEW f \in Flows, Acts(f), CloudReady(f) \/ Succeeded(f) \/ Rebooted(f) \/ RebootSent(f)
    PROVE  Claim(f)'
<1>1. /\ flow \in [Flows -> FlowRecords] /\ flow[f] \in FlowRecords /\ Shape(flow[f])
      /\ Advanced(flow) \in [Flows -> FlowRecords] /\ page \in Pages
  BY ActorFacts
<1>2. link' = link /\ inbox' = inbox /\ mfg' = mfg
  BY DEF CloudReady, Succeeded, Rebooted, RebootSent
<1>3. CASE CloudReady(f)
  <2>1. flow[f].at = "cloud" /\ flow'[f] = At(f, "attempting")
    BY <1>1, <1>3 DEF CloudReady
  <2>2. flow[f].kind # "write"
    BY <1>1, <2>1 DEF Shape
  <2>3. /\ flow'[f].kind = flow[f].kind /\ flow'[f].at = "attempting"
        /\ flow'[f].dev = flow[f].dev
    BY <1>1, <2>1, AtFields
  <2> QED BY <1>2, <2>1, <2>2, <2>3, RestsClaims DEF Early, Chosen
<1>4. CASE Succeeded(f) \/ Rebooted(f) \/ RebootSent(f)
  <2>1. \E stage \in {"rebooting", "verifying", "closing", "succeeding"} : flow'[f] = At(f, stage)
    BY <1>1, <1>4 DEF Succeeded, Rebooted, RebootSent
  <2>2. PICK stage \in {"rebooting", "verifying", "closing", "succeeding"} : flow'[f] = At(f, stage)
    BY <2>1
  <2>3. flow'[f].kind = flow[f].kind /\ flow'[f].at = stage /\ flow'[f].dev = flow[f].dev
    BY <1>1, <2>2, AtFields
  <2>4. page'.device = page.device
    BY <1>1, <1>4 DEF Succeeded, Rebooted, RebootSent, Pages
  <2>5. Chosen(flow[f])
    <3>1. CASE Succeeded(f) \/ Rebooted(f)
      BY <3>1 DEF Succeeded, Rebooted, Chosen
    <3>2. CASE RebootSent(f)
      <4>1. flow[f].io = "send" /\ flow[f].cmd = Reboot /\ Reboot # 0
        BY <3>2, Numbers DEF RebootSent, MyTurn
      <4> QED BY <1>1, <4>1 DEF Shape, Chosen
    <3> QED BY <1>4, <3>1, <3>2
  <2> QED BY <1>2, <2>3, <2>4, <2>5, RestsClaims DEF Early
<1> QED BY <1>3, <1>4

LEMMA FailsClaims ==
    ASSUME NEW f \in Flows, Acts(f),
           CloudFails(f) \/ FetchFails(f) \/ Deadline(f) \/ ScriptStops(f)
    PROVE  Claim(f)'
<1>1. flow \in [Flows -> FlowRecords] /\ Cancelled(flow, wait) \in [Flows -> FlowRecords]
  BY ActorFacts
<1>2. mfg' = mfg
  BY DEF CloudFails, FetchFails, Deadline, ScriptStops
<1>3. Fail(f, flow, wait) \/ Fail(f, Cancelled(flow, wait), NoWait)
  BY DEF CloudFails, FetchFails, Deadline, ScriptStops
<1> QED BY <1>1, <1>2, <1>3, FailClaims

LEMMA AttemptedClaims ==
    ASSUME NEW f \in Flows, Acts(f), Attempted(f)
    PROVE  Claim(f)'
<1>1. /\ flow \in [Flows -> FlowRecords] /\ page \in Pages /\ flow[f] \in FlowRecords
      /\ Claims(flow[f], page, link, inbox, mfg)
  BY ActorFacts
<1>2. mfg' = mfg /\ flow[f].at = "attempting" /\ Early(flow[f]) /\ "recheck" \in StatusChecks
  BY DEF Attempted, Early, StatusChecks
<1>3. \/ /\ flow[f].kind = "write" /\ flow' = [flow EXCEPT ![f] = Fetching(f)]
         /\ UNCHANGED <<page, link, inbox>>
      \/ link' = link /\ inbox' = inbox /\ AskStatus(f, flow, page, "recheck")
      \/ Fail(f, flow, wait)
  BY DEF Attempted
<1>4. CASE /\ flow[f].kind = "write" /\ flow' = [flow EXCEPT ![f] = Fetching(f)]
           /\ UNCHANGED <<page, link, inbox>>
  <2>1. /\ flow'[f].kind = "write" /\ flow'[f].at = "fetching" /\ flow'[f].dev = page'.device
        /\ flow'[f].same = flow[f].same
    BY <1>1, <1>4, AtFields
  <2>2. \A m : Made(flow'[f], inbox', m)
    BY <2>1 DEF Made, Scripting
  <2>3. ASSUME link.board # None PROVE Agreed(flow'[f], page, mfg[link.board])
    BY <1>1, <1>2, <1>4, <2>1, <2>3 DEF Claims, Agreed
  <2> QED BY <1>2, <1>4, <2>1, <2>2, <2>3 DEF Claim, Claims, StatusChecks
<1> QED BY <1>1, <1>2, <1>3, <1>4, AsksClaims, FailClaims

LEMMA HandsClaims ==
    ASSUME NEW f \in Flows, Acts(f), Fetched(f) \/ Settled(f) \/ Acknowledged(f)
    PROVE  Claim(f)'
<1> DEFINE r == flow[f]
<1>1. /\ flow \in [Flows -> FlowRecords] /\ page \in Pages /\ flow[f] \in FlowRecords /\ Shape(r)
      /\ Claims(r, page, link, inbox, mfg)
  BY ActorFacts
<1>2. link' = link /\ inbox' = inbox /\ mfg' = mfg
  BY DEF Fetched, Settled, Acknowledged
<1>3. PICK n : /\ SendNext(f, n)
               /\ \/ r.at = "fetching" /\ n = Erase
                  \/ r.at = "settling" /\ n = Erase + 1
                  \/ /\ r.at = "script" /\ r.io = "wait" /\ r.reply = "got" /\ r.event.ok
                     /\ n = r.cmd + 1
  BY DEF Fetched, Settled, Acknowledged
<1>4. r.at = "script" /\ r.io = "wait" => r.cmd \in 2..Reboot
  <2>1. r.at = "script" /\ r.io = "wait" => r.cmd \in Erase..Reboot /\ r.cmd # Erase
    BY <1>1 DEF Shape
  <2> QED BY <2>1, Numbers
<1>5. /\ flow'[f].kind = r.kind /\ flow'[f].at = "script" /\ flow'[f].cmd = n
      /\ flow'[f].io = "send" /\ flow'[f].reply \in {"pending", "none"}
      /\ flow'[f].dev = r.dev /\ flow'[f].misled = r.misled /\ flow'[f].same = r.same
      /\ page'.device = page.device
  BY <1>1, <1>3, SendNextFlow
<1> HIDE DEF r
<1>6. (n = Erase => r.at = "fetching") /\ (n # Erase => ~Early(r))
      /\ r.at \in {"fetching", "settling", "script"}
  <2>1. Erase = 1
    BY Numbers
  <2>2. CASE r.at \in {"fetching", "settling"}
    BY <1>3, <2>1, <2>2 DEF Early
  <2>3. CASE r.at = "script"
    <3>1. r.cmd \in Int /\ r.cmd >= 2 /\ n = r.cmd + 1
      BY <1>3, <1>4, <2>3, Numbers
    <3>2. n # Erase /\ r.cmd # Erase
      BY <2>1, <3>1
    <3> QED BY <2>3, <3>2 DEF Early
  <2> QED BY <1>3, <2>2, <2>3
<1>7. n # Erase /\ link.board # None /\ ~r.misled => Written(mfg[link.board], r.dev, n)
  <2>1. Erase + 1 = 2
    BY Numbers
  <2> QED BY <1>1, <1>3, <2>1 DEF Claims, Made
<1>8. Claims(flow'[f], page', link', inbox, mfg)
  BY <1>1, <1>2, <1>5, <1>6, <1>7, HandedClaims
<1> QED BY <1>2, <1>8 DEF Claim

LEMMA VerifyRoundClaims ==
    ASSUME NEW f \in Flows, Acts(f), VerifyRound(f)
    PROVE  Claim(f)'
<1>1. /\ flow \in [Flows -> FlowRecords] /\ page \in Pages /\ flow[f] \in FlowRecords
      /\ Claims(flow[f], page, link, inbox, mfg)
  BY ActorFacts
<1>2. mfg' = mfg /\ flow[f].at = "verifying"
  BY DEF VerifyRound
<1>3. CASE flow[f].via = "ble"
  <2> DEFINE r == [flow[f] EXCEPT !.at = "linking", !.same = TRUE]
             fl == [Unbound(flow) EXCEPT ![f] = r]
  <2>1. LinkLost(fl, page, wait)
    BY <1>3 DEF VerifyRound
  <2>2. r.at = "linking" /\ r.dev = flow[f].dev /\ r \in FlowRecords
    BY <1>1 DEF FlowRecords, Stages
  <2>3. Unbound(flow) \in [Flows -> FlowRecords]
    BY <1>1, UnboundRecords
  <2> HIDE DEF r
  <2>4. fl[f].at = "linking" /\ fl[f].dev = flow[f].dev /\ fl \in [Flows -> FlowRecords]
    BY <2>2, <2>3
  <2> HIDE DEF fl
  <2>5. flow'[f].at = "linking" /\ flow'[f].dev = flow[f].dev
    <3>1. flow' = Cancelled(fl, wait) \/ flow' = fl
      BY <2>1 DEF LinkLost
    <3>2. Cancelled(fl, wait)[f].at = "linking" /\ Cancelled(fl, wait)[f].dev = flow[f].dev
      BY <2>4 DEF Cancelled, FlowRecords
    <3> QED BY <2>4, <3>1, <3>2
  <2>6. link'.board = None
    BY <2>1 DEF LinkLost, NoLink
  <2>7. page'.device = page.device
    BY <1>1, <2>1 DEF LinkLost, Pages
  <2>8. flow'[f].dev = page'.device
    BY <1>1, <1>2, <2>5, <2>7 DEF Claims, Chosen
  <2>9. Claims(flow'[f], page', link', inbox', mfg')
    BY <2>5, <2>6, <2>8, DarkClaims DEF StatusChecks
  <2> QED BY <2>9 DEF Claim
<1>4. CASE flow[f].via # "ble"
  <2>1. /\ AskStatus(f, flow, [page EXCEPT !.connected = TRUE], "checking")
        /\ link' = link /\ inbox' = inbox
    BY <1>4 DEF VerifyRound
  <2>2. /\ [page EXCEPT !.connected = TRUE] \in Pages /\ "checking" \in StatusChecks
        /\ [page EXCEPT !.connected = TRUE].device = page.device
    BY <1>1 DEF Pages, StatusChecks
  <2> QED BY <1>2, <2>1, <2>2, AsksClaims
<1> QED BY <1>3, <1>4

-----------------------------------------------------------------------------
(* Its lines, and what the board answers.                                   *)

\* What a line does to the identity of a page.
LEMMA ExecutedId ==
    ASSUME NEW m \in [id : Ids, parts : [Values -> Devices \cup {None}]], NEW n \in 0..Reboot,
           NEW d \in Devices \cup {None}
    PROVE  \/ Executed(m, n, d).id = m.id
           \/ /\ n = Finalize /\ m.id = Blank /\ m.parts[1] # None
              /\ Executed(m, n, d).id = m.parts[1]
           \/ n = Erase /\ Executed(m, n, d).id = Blank
<1> DEFINE x == Executed(m, n, d)
<1>1. /\ NumValues \in Nat /\ NumValues > 0 /\ n \in Int
      /\ Erase = 1 /\ Finalize = NumValues + 2 /\ Reboot = NumValues + 3
  BY Numbers
<1> HIDE DEF x
<1>3. CASE n = Erase
  BY <1>3, ExecutedPage DEF x, Erased
<1>4. CASE n \in {0, Reboot} \/ (n # Erase /\ m.id # Blank)
  BY <1>4, ExecutedPage DEF x
<1>5. CASE n \in 2..(NumValues + 1) /\ m.id = Blank
  <2>1. x = [m EXCEPT !.parts[n - 1] = d]
    BY <1>5, ExecutedPage DEF x
  <2>2. x.id = m.id
    BY <2>1
  <2> QED BY <2>2 DEF x
<1>6. CASE n = Finalize /\ m.id = Blank
  <2>1. CASE \A v \in Values : m.parts[v] # None
    <3>1. x = [m EXCEPT !.id = m.parts[1]]
      BY <1>6, <2>1, ExecutedPage DEF x
    <3>2. x.id = m.parts[1] /\ 1 \in Values
      BY <3>1, Numbers
    <3> QED BY <1>6, <2>1, <3>2 DEF x
  <2>2. CASE ~(\A v \in Values : m.parts[v] # None)
    BY <1>6, <2>2, ExecutedPage DEF x
  <2> QED BY <2>1, <2>2
<1>8. n \in {0, Reboot} \/ n = Erase \/ n \in 2..(NumValues + 1) \/ n = Finalize
  BY <1>1
<1> QED BY <1>3, <1>4, <1>5, <1>6, <1>8 DEF x

LEMMA ErasedWritten == \A d : Written(Erased, d, 2)
<1>1. Reboot # 2 /\ \A v \in Values : ~(SetCmd(v) < 2)
  BY Numbers DEF SetCmd
<1> QED BY <1>1 DEF Written, Erased

\* A line of the script on a page that holds what the lines before it make.
LEMMA OwnWritten ==
    ASSUME NEW m \in [id : Ids, parts : [Values -> Devices \cup {None}]], NEW n \in 2..Finalize,
           NEW d \in Devices, Written(m, d, n)
    PROVE  Written(Executed(m, n, d), d, n + 1)
<1> DEFINE x == Executed(m, n, d)
<1>1. /\ Erase = 1 /\ Finalize = NumValues + 2 /\ Reboot = NumValues + 3 /\ NumValues \in Nat
      /\ NumValues > 0 /\ n \in Int /\ n >= 2 /\ n <= NumValues + 2 /\ Values = 1..NumValues
  BY Numbers
<1>2. n \in 0..Reboot /\ n # Erase /\ n # Reboot /\ d \in Devices \cup {None}
  BY <1>1
<1>3. m.id = Blank
  BY <1>2 DEF Written
<1>4. CASE n # Finalize
  <2>1. n - 1 \in Values /\ n \in 2..(NumValues + 1) /\ n + 1 # Reboot
    BY <1>1, <1>4
  <2>2. x = [m EXCEPT !.parts[n - 1] = d]
    BY <1>2, <1>3, <2>1, ExecutedPage
  <2> HIDE DEF x
  <2>3. x.id = m.id /\ x.parts[n - 1] = d /\ \A v \in Values \ {n - 1} : x.parts[v] = m.parts[v]
    BY <2>1, <2>2
  <2>4. ASSUME NEW v \in Values
        PROVE  x.parts[v] \in {d, None} /\ (SetCmd(v) < n + 1 => x.parts[v] = d)
    <3>1. SetCmd(v) < n + 1 => v = n - 1 \/ SetCmd(v) < n
      BY <1>1, <2>4 DEF SetCmd
    <3> QED BY <2>3, <3>1 DEF Written
  <2>5. Written(x, d, n + 1)
    BY <1>3, <2>1, <2>3, <2>4 DEF Written
  <2> QED BY <2>5 DEF x
<1>5. CASE n = Finalize
  <2>1. 1 \in Values /\ n + 1 = Reboot /\ \A v \in Values : SetCmd(v) < n
    BY <1>1, <1>5 DEF SetCmd
  <2>2. \A v \in Values : m.parts[v] = d
    BY <2>1 DEF Written
  <2>3. d # None
    BY BoardsOK
  <2>4. x = [m EXCEPT !.id = m.parts[1]]
    BY <1>2, <1>3, <1>5, <2>2, <2>3, ExecutedPage
  <2> HIDE DEF x
  <2>5. x.id = d /\ x.parts = m.parts
    BY <2>1, <2>2, <2>4
  <2>6. Written(x, d, n + 1)
    BY <2>1, <2>2, <2>5 DEF Written
  <2> QED BY <2>6 DEF x
<1> QED BY <1>4, <1>5

\* A board without an identity keeps to the values of one device.
LEMMA OwnParts ==
    ASSUME NEW m \in [id : Ids, parts : [Values -> Devices \cup {None}]], NEW n \in 0..Reboot \ {Erase},
           NEW d \in Devices \cup {None},
           m.id = Blank => \A v \in Values : m.parts[v] \in {d, None},
           Executed(m, n, d).id = Blank
    PROVE  \A v \in Values : Executed(m, n, d).parts[v] \in {d, None}
<1> DEFINE x == Executed(m, n, d)
<1>1. /\ Erase = 1 /\ Finalize = NumValues + 2 /\ Reboot = NumValues + 3 /\ NumValues \in Nat
      /\ NumValues > 0 /\ n \in Int /\ n # Erase /\ n >= 0 /\ n <= Reboot
  BY Numbers
<1>2. n \in 0..Reboot
  OBVIOUS
<1> HIDE DEF x
<1>3. x = m \/ m.id = Blank
  BY <1>1, <1>2, ExecutedPage DEF x
<1>4. CASE m.id = Blank /\ n \in 2..(NumValues + 1)
  <2>1. x = [m EXCEPT !.parts[n - 1] = d]
    BY <1>2, <1>4, ExecutedPage DEF x
  <2>2. \A v \in Values : x.parts[v] \in {d, m.parts[v]}
    BY <2>1
  <2> QED BY <1>4, <2>2 DEF x
<1>5. CASE m.id = Blank /\ n = Finalize
  <2>1. x = [m EXCEPT !.id = m.parts[1]] \/ x = m
    BY <1>2, <1>5, ExecutedPage DEF x
  <2>2. x.parts = m.parts
    BY <2>1
  <2> QED BY <1>5, <2>2 DEF x
<1>6. CASE n \in {0, Reboot}
  BY <1>2, <1>6, ExecutedPage DEF x
<1>7. n \in {0, Reboot} \/ n \in 2..(NumValues + 1) \/ n = Finalize
  BY <1>1
<1> QED BY <1>3, <1>4, <1>5, <1>6, <1>7 DEF x

\* Only the answer to "prov status" says who the board is.
LEMMA AnswerSays ==
    ASSUME NEW m \in [id : Ids, parts : [Values -> Devices \cup {None}]], NEW n \in 0..Reboot
    PROVE  \A k \in DOMAIN Answered(m, n) :
              Answered(m, n)[k].t = "prov" => n = 0 /\ Answered(m, n)[k].id = m.id
<1>1. {SetCmd(v) : v \in Values} = 2..(NumValues + 1)
  <2>1. \A v \in Values : SetCmd(v) \in 2..(NumValues + 1)
    BY Numbers DEF SetCmd
  <2>2. \A k \in 2..(NumValues + 1) : k - 1 \in Values /\ SetCmd(k - 1) = k
    BY Numbers DEF SetCmd
  <2> QED BY <2>1, <2>2
<1>2. /\ Finalize = NumValues + 2 /\ Reboot = NumValues + 3 /\ NumValues \in Nat /\ n \in Int
  BY Numbers
<1> DEFINE q == m.id = Blank
           z == m.id = Blank /\ \A v \in Values : m.parts[v] # None
           a == [NoEvent EXCEPT !.t = "prov", !.ok = TRUE, !.id = m.id]
           b == [NoEvent EXCEPT !.t = "provwr", !.n = n - 1, !.ok = q]
           c == [NoEvent EXCEPT !.t = "provdone", !.ok = z]
<1>3. /\ n = 0 => Answered(m, n) = <<a>>
      /\ n \in 2..(NumValues + 1) => Answered(m, n) = <<b>>
      /\ n = Finalize => Answered(m, n) = <<c>>
      /\ n \in {1, Reboot} => Answered(m, n) = <<>>
  BY <1>1, <1>2 DEF Answered
<1> HIDE DEF q, z
<1>4. a.id = m.id /\ b.t = "provwr" /\ c.t = "provdone"
  BY DEF NoEvent
<1> HIDE DEF a, b, c
<1>5. n \in {1, Reboot} \/ n = 0 \/ n \in 2..(NumValues + 1) \/ n = Finalize
  BY <1>2
<1>6. \A e : DOMAIN <<e>> = {1} /\ <<e>>[1] = e
  OBVIOUS
<1> QED BY <1>3, <1>4, <1>5, <1>6

\* What a flow knows of the board stays true when its own line changes the page.
LEMMA WritesReads ==
    ASSUME NEW r, NEW i, NEW m \in [id : Ids, parts : [Values -> Devices \cup {None}]],
           Reads(r, i, m), Made(r, i, m), r.cmd \in 0..Reboot, r.dev \in Devices \cup {None},
           r.at \in StatusChecks => r.cmd = 0,
           r.at = "script" \/ r.at \in StatusChecks,
           NEW x, ReadOf(r, x, m)
    PROVE  ReadOf(r, x, Executed(m, r.cmd, r.dev))
<1> DEFINE y == Executed(m, r.cmd, r.dev)
<1>1. 0 # Erase /\ 0 # Finalize /\ Finalize # Erase /\ 1 \in Values
  BY Numbers
<1>2. \/ y.id = m.id
      \/ /\ r.cmd = Finalize /\ m.id = Blank /\ m.parts[1] # None
         /\ y.id = m.parts[1]
      \/ r.cmd = Erase /\ y.id = Blank
  BY ExecutedId
<1> HIDE DEF y
<1>3. CASE y.id = m.id
  BY <1>3 DEF ReadOf, y
<1>4. CASE /\ r.cmd = Finalize /\ m.id = Blank /\ m.parts[1] # None
           /\ y.id = m.parts[1]
  <2>1. r.at = "script" /\ r.at \notin StatusChecks
    BY <1>1, <1>4 DEF StatusChecks
  <2>2. ~Early(r) /\ Scripting(r)
    BY <1>1, <1>4, <2>1 DEF Early, Scripting
  <2>3. m.parts[1] \in {r.dev, None}
    BY <1>1, <1>4, <2>2 DEF Made
  <2>4. y.id = r.dev
    BY <1>4, <2>3
  <2> QED BY <1>4, <2>2, <2>4 DEF ReadOf, y
<1>5. CASE r.cmd = Erase /\ y.id = Blank
  <2>1. r.at = "script"
    BY <1>1, <1>5
  <2>2. m.id = Blank /\ Early(r)
    BY <1>5, <2>1 DEF Reads, Early
  <2> QED BY <1>5, <2>2 DEF ReadOf, y
<1> QED BY <1>2, <1>3, <1>4, <1>5

LEMMA SentFields ==
    ASSUME Good, NEW f \in Flows, Sent(f)
    PROVE  /\ flow'[f].kind = flow[f].kind /\ flow'[f].cmd = flow[f].cmd
           /\ flow'[f].reply = flow[f].reply /\ flow'[f].misled = flow[f].misled
           /\ flow'[f].dev = flow[f].dev /\ flow'[f].event = flow[f].event
           /\ flow'[f].io = IF Awaits(flow[f].cmd) THEN "wait" ELSE "none"
           /\ flow'[f].at = IF flow[f].cmd = Erase THEN "settling" ELSE flow[f].at
<1> DEFINE n == flow[f].cmd
           io == IF Awaits(n) THEN "wait" ELSE "none"
           at == IF n = Erase THEN "settling" ELSE flow[f].at
           r == [flow[f] EXCEPT !.io = io, !.at = at]
<1>1. /\ flow'[f] = r /\ r.kind = flow[f].kind /\ r.cmd = n /\ r.reply = flow[f].reply
      /\ r.misled = flow[f].misled /\ r.dev = flow[f].dev /\ r.event = flow[f].event
      /\ r.io = io /\ r.at = at
  BY SentFlow
<1> HIDE DEF r
<1> QED BY <1>1

LEMMA SentClaims ==
    ASSUME NEW f \in Flows, Acts(f), Sent(f)
    PROVE  Claim(f)'
<1> DEFINE q == flow[f]
           n == q.cmd
           m == mfg[link.board]
           x == Executed(m, n, q.dev)
           r == flow'[f]
<1>1. /\ q \in FlowRecords /\ Shape(q) /\ link \in Links /\ inbox \in Seq(Events) /\ page \in Pages
      /\ Claims(q, page, link, inbox, mfg)
  BY ActorFacts
<1>2. /\ q.valid /\ n # Reboot /\ q.io = "send" /\ page' = page /\ link'.board = link.board
  BY <1>1 DEF Sent, MyTurn, Links
<1>3. link.board # None /\ link.board \in Boards
  BY <1>1, <1>2 DEF Acts, Good, Acks, Links
<1>4. /\ mfg \in [Boards -> [id : Ids, parts : [Values -> Devices \cup {None}]]]
      /\ m \in [id : Ids, parts : [Values -> Devices \cup {None}]]
  BY <1>3 DEF Acts, Memory
<1>5. n \in 0..Reboot /\ q.dev \in Devices \cup {None}
  BY <1>1 DEF FlowRecords
<1>6. Made(q, inbox, m) /\ (q.kind # "write" => Reads(q, inbox, m))
  BY <1>1, <1>3 DEF Claims
<1>7. /\ r.kind = q.kind /\ r.cmd = n /\ r.reply = q.reply /\ r.misled = q.misled
      /\ r.dev = q.dev /\ r.event = q.event
      /\ r.io = IF Awaits(n) THEN "wait" ELSE "none"
      /\ r.at = IF n = Erase THEN "settling" ELSE q.at
  BY SentFields DEF Acts
<1>8. Awaits(n) <=> n # Erase
  BY <1>2 DEF Awaits
<1>9. n = Erase => q.at = "script"
  BY <1>1, <1>2, Numbers DEF Shape
<1>10. q.at = "script" \/ (q.at \in StatusChecks /\ n = 0)
  BY <1>1, <1>2 DEF Shape
<1>11. \/ mfg'[link.board] = x /\ inbox' = inbox \o Answered(m, n)
       \/ mfg'[link.board] = x /\ inbox' = inbox /\ n # Erase
       \/ n \in Erase + 1 .. Finalize /\ mfg'[link.board] = m /\ inbox' = inbox \o Refused(m, n)
       \/ n = 0 /\ mfg'[link.board] = m /\ inbox' = inbox \o Unnamed(m)
  BY <1>3, <1>4, <1>8 DEF Sent
<1> HIDE DEF q, n, m, x, r
<1>12. /\ Chosen(r) => r.dev = page'.device
       /\ r.at \notin {"linking", "attempting", "cloud", "fetching"}
  <2>1. Chosen(r) => Chosen(q)
    BY <1>7, <1>9 DEF Chosen
  <2> QED BY <1>1, <1>2, <1>7, <1>9, <1>10, <2>1 DEF Claims, StatusChecks
<1>13. ASSUME Scripting(r), mfg'[link.board].id = Blank
       PROVE  \A v \in Values : mfg'[link.board].parts[v] \in {r.dev, None}
  <2>1. CASE n = Erase
    <3>1. mfg'[link.board] = Erased
      <4>1. x = Erased
        BY <1>4, <1>5, <2>1, ExecutedPage DEF x
      <4>2. n \notin Erase + 1 .. Finalize /\ n # 0
        BY <2>1, Numbers
      <4> QED BY <1>11, <4>1, <4>2
    <3> QED BY <3>1 DEF Erased
  <2>2. CASE n # Erase
    <3>1. Scripting(q)
      BY <1>7, <1>13, <2>2 DEF Scripting, n
    <3>2. m.id = Blank => \A v \in Values : m.parts[v] \in {q.dev, None}
      BY <1>6, <3>1 DEF Made
    <3>3. CASE mfg'[link.board] = m
      BY <1>7, <1>13, <3>2, <3>3
    <3>4. CASE mfg'[link.board] = x
      <4>1. n \in 0..Reboot \ {Erase}
        BY <1>5, <2>2
      <4> QED BY <1>4, <1>5, <1>7, <1>13, <3>2, <3>4, <4>1, OwnParts DEF x
    <3> QED BY <1>11, <3>3, <3>4
  <2> QED BY <2>1, <2>2
<1>14. Made(r, inbox', mfg'[link.board])
  <2> SUFFICES ASSUME ~r.misled PROVE Made(r, inbox', mfg'[link.board])
    BY <1>13 DEF Made
  <2>1. CASE n = Erase
    <3>1. mfg'[link.board] = Erased
      <4>1. x = Erased
        BY <1>4, <1>5, <2>1, ExecutedPage DEF x
      <4>2. n \notin Erase + 1 .. Finalize /\ n # 0
        BY <2>1, Numbers
      <4> QED BY <1>11, <4>1, <4>2
    <3> QED BY <1>7, <1>13, <2>1, <3>1, ErasedWritten DEF Made
  <2>2. CASE n # Erase /\ q.at = "script"
    <3>1. n \in 2..Finalize
      <4>1. n \in Erase..Reboot
        BY <1>1, <2>2 DEF Shape, n
      <4> QED BY <1>2, <2>2, <4>1, Numbers
    <3>2. Written(m, q.dev, n)
      BY <1>2, <1>6, <1>7, <2>2 DEF Made, n
    <3>3. q.dev \in Devices
      BY <1>1, <2>2 DEF Claims, Chosen, Pages
    <3>4. r.io = "wait" /\ r.at = "script"
      BY <1>7, <1>8, <2>2
    <3>5. q.reply # "got"
      BY <1>1, <1>2, <1>7 DEF Shape
    <3>6. Confirmed(r, inbox') => Written(mfg'[link.board], q.dev, n + 1)
      <4>1. CASE mfg'[link.board] = x
        BY <1>4, <3>1, <3>2, <3>3, <4>1, OwnWritten DEF x
      <4>2. CASE inbox' = inbox \o Refused(m, n)
        <5>1. PICK e \in Events :
                 /\ Refused(m, n) = <<e>> /\ ~e.ok
                 /\ <<e.t, e.n>> = IF n = Finalize THEN <<"provdone", 0>> ELSE <<"provwr", n - 1>>
          BY <1>4, <1>5, <3>1, AnswerShape
        <5>2. <<e.t, e.n>> = Expects(r)
          BY <1>7, <3>4, <5>1 DEF Expects
        <5> QED BY <1>1, <4>2, <5>1, <5>2, RefusedNotConfirmed
      <4>3. n # 0
        BY <3>1, Numbers
      <4> QED BY <1>11, <4>1, <4>2, <4>3
    <3> QED BY <1>7, <1>13, <3>4, <3>5, <3>6 DEF Made
  <2>3. CASE q.at \in StatusChecks
    <3>1. r.at \in StatusChecks
      BY <1>7, <1>9, <2>3 DEF StatusChecks
    <3> QED BY <1>13, <3>1 DEF Made, StatusChecks
  <2> QED BY <1>10, <2>1, <2>2, <2>3
<1>15. ASSUME r.kind # "write" PROVE Reads(r, inbox', mfg'[link.board])
  <2> DEFINE y == mfg'[link.board]
  <2>0. Reads(q, inbox, m)
    BY <1>6, <1>7, <1>15
  <2>1. Early(r) => Early(q) /\ n # Erase
    BY <1>7 DEF Early
  <2>2. y \in {x, m}
    BY <1>11
  <2> HIDE DEF y
  <2>3. ASSUME NEW z, ReadOf(q, z, m) PROVE ReadOf(r, z, y)
    <3>1. ReadOf(q, z, x)
      <4>1. /\ q.at \in StatusChecks => q.cmd = 0
            /\ q.at = "script" \/ q.at \in StatusChecks
            /\ q.cmd \in 0..Reboot
        BY <1>1, <1>5, <1>10 DEF Shape, n
      <4> QED BY <1>4, <1>5, <1>6, <2>0, <2>3, <4>1, WritesReads DEF x, n
    <3> QED BY <1>7, <2>1, <2>2, <2>3, <3>1 DEF ReadOf
  <2>4. ASSUME NEW k \in DOMAIN inbox', inbox'[k].t = "prov" PROVE ReadOf(r, inbox'[k].id, y)
    <3>1. ASSUME k \in DOMAIN inbox, inbox'[k] = inbox[k] PROVE ReadOf(r, inbox'[k].id, y)
      <4>1. ReadOf(q, inbox[k].id, m)
        BY <2>0, <2>4, <3>1 DEF Reads
      <4> QED BY <2>3, <3>1, <4>1
    <3>2. ASSUME NEW s \in Seq(Events), inbox' = inbox \o s
          PROVE  (k \in DOMAIN inbox /\ inbox'[k] = inbox[k]) \/ \E j \in DOMAIN s : inbox'[k] = s[j]
      <4>1. DOMAIN inbox = 1..Len(inbox) /\ DOMAIN s = 1..Len(s) /\ DOMAIN inbox' = 1..(Len(inbox) + Len(s))
            /\ Len(inbox) \in Nat /\ Len(s) \in Nat
        BY <1>1, <3>2
      <4>2. CASE k <= Len(inbox)
        BY <1>1, <2>4, <3>2, <4>1, <4>2
      <4>3. CASE k > Len(inbox)
        <5>1. k - Len(inbox) \in DOMAIN s /\ inbox'[k] = s[k - Len(inbox)]
          BY <1>1, <2>4, <3>2, <4>1, <4>3
        <5> QED BY <5>1
      <4> QED BY <2>4, <4>1, <4>2, <4>3
    <3>3. CASE inbox' = inbox \o Answered(m, n) /\ y = x
      <4>1. Answered(m, n) \in Seq(Events)
        BY <1>4, <1>5, AnswerShape
      <4>2. ASSUME NEW j \in DOMAIN Answered(m, n), inbox'[k] = Answered(m, n)[j]
            PROVE  ReadOf(r, inbox'[k].id, y)
        <5>1. n = 0 /\ inbox'[k].id = m.id
          BY <1>4, <1>5, <2>4, <4>2, AnswerSays
        <5>2. x = m
          BY <1>4, <1>5, <5>1, ExecutedPage DEF x
        <5> QED BY <3>3, <5>1, <5>2 DEF ReadOf
      <4> QED BY <3>1, <3>2, <3>3, <4>1, <4>2
    <3>4. CASE inbox' = inbox
      BY <2>4, <3>1, <3>4
    <3>5. CASE n \in Erase + 1 .. Finalize /\ inbox' = inbox \o Refused(m, n)
      <4>1. n \in 2..Finalize
        BY <3>5, Numbers
      <4>2. PICK e \in Events :
               /\ Refused(m, n) = <<e>> /\ ~e.ok
               /\ <<e.t, e.n>> = IF n = Finalize THEN <<"provdone", 0>> ELSE <<"provwr", n - 1>>
        BY <1>4, <1>5, <4>1, AnswerShape
      <4>3. e.t # "prov" /\ \A j \in DOMAIN <<e>> : <<e>>[j] = e
        BY <4>2
      <4>4. <<e>> \in Seq(Events)
        BY EventSequences
      <4> QED BY <2>4, <3>1, <3>2, <3>5, <4>2, <4>3, <4>4
    <3>6. CASE inbox' = inbox \o Unnamed(m)
      <4>1. PICK e \in Events : Unnamed(m) = <<e>> /\ e.id = Nameless
        BY <1>4, UnnamedShape
      <4>2. <<e>> \in Seq(Events) /\ \A j \in DOMAIN <<e>> : <<e>>[j] = e
        BY EventSequences
      <4>3. inbox'[k] = e => ReadOf(r, inbox'[k].id, y)
        BY <4>1 DEF ReadOf
      <4> QED BY <3>1, <3>2, <3>6, <4>1, <4>2, <4>3
    <3> QED BY <1>11, <3>3, <3>4, <3>5, <3>6 DEF y
  <2>5. ASSUME r.at \in StatusChecks, r.reply = "got" PROVE ReadOf(r, r.event.id, y)
    <3>1. q.at \in StatusChecks /\ q.reply = "got"
      BY <1>7, <2>5 DEF StatusChecks
    <3>2. ReadOf(q, q.event.id, m)
      BY <2>0, <3>1 DEF Reads
    <3> QED BY <1>7, <2>3, <3>2
  <2>6. ~(r.at \in {"cloud", "fetching"} \/ (r.at = "script" /\ r.cmd = Erase))
    BY <1>7, <1>12
  <2>7. Reads(r, inbox', y)
    BY <2>4, <2>5, <2>6 DEF Reads
  <2> QED BY <2>7 DEF y
<1>16. Agreed(r, page', mfg'[link.board])
  BY <1>7, <1>12 DEF Agreed
<1>17. Claims(r, page', link', inbox', mfg')
  BY <1>2, <1>3, <1>12, <1>14, <1>15, <1>16 DEF Claims
<1> QED BY <1>17 DEF r, Claim

LEMMA SendFailsClaims ==
    ASSUME NEW f \in Flows, Acts(f), SendFails(f)
    PROVE  Claim(f)'
<1> DEFINE q == flow[f]
           m == mfg[link.board]
           x == Executed(m, q.cmd, q.dev)
           r == flow'[f]
<1>1. /\ q \in FlowRecords /\ Shape(q) /\ link \in Links
      /\ Claims(q, page, link, inbox, mfg)
      /\ Advanced(Cancelled(flow, wait)) \in [Flows -> FlowRecords]
  BY ActorFacts
<1>2. MyTurn(f) /\ Fail(f, Advanced(Cancelled(flow, wait)), NoWait)
  BY DEF SendFails
<1>3. q.io = "send"
  BY <1>2 DEF MyTurn
<1>4. /\ r.kind = q.kind /\ r.dev = q.dev
      /\ r.at = "closing" \/ (r.at = "verifying" /\ q.at = "checking" /\ page' = page)
      /\ link' = link /\ inbox' = inbox
  BY <1>1, <1>2, FailFlow DEF Acts
<1>5. ~Early(r) /\ (Chosen(r) => r.dev = page'.device)
  BY <1>1, <1>4 DEF Early, Claims, Chosen
<1>6. ASSUME link.board # None, q.kind # "write"
      PROVE  mfg'[link.board].id = m.id
             \/ (m.id = Blank /\ ~Early(r) /\ mfg'[link.board].id = q.dev)
  <2>1. link.board \in Boards
    BY <1>1, <1>6 DEF Links
  <2>2. m \in [id : Ids, parts : [Values -> Devices \cup {None}]]
        /\ mfg \in [Boards -> [id : Ids, parts : [Values -> Devices \cup {None}]]]
    BY <2>1 DEF Acts, Memory
  <2>3. mfg'[link.board] \in {m, x}
    BY <2>1, <2>2 DEF SendFails
  <2>4. q.cmd \in 0..Reboot /\ q.dev \in Devices \cup {None}
    BY <1>1 DEF FlowRecords
  <2>5. q.cmd = Erase => m.id = Blank
    <3>1. q.cmd = Erase => q.at = "script"
      BY <1>1, <1>3, Numbers DEF Shape
    <3> QED BY <1>1, <1>6, <3>1 DEF Claims, Reads
  <2>6. q.cmd = Finalize /\ m.id = Blank => m.parts[1] \in {q.dev, None}
    <3>1. 1 \in Values /\ Finalize # 0 /\ Finalize # Erase
      BY Numbers
    <3>2. q.cmd = Finalize => Scripting(q)
      BY <1>1, <1>3, <3>1 DEF Shape, Scripting
    <3>3. q.cmd = Finalize /\ m.id = Blank => m.parts[1] \in {q.dev, None}
      BY <1>1, <1>6, <3>1, <3>2 DEF Claims, Made
    <3> QED BY <3>3
  <2>7. x.id = m.id \/ (m.id = Blank /\ x.id = q.dev)
    BY <2>2, <2>4, <2>5, <2>6, ExecutedId
  <2> QED BY <1>5, <2>3, <2>7
<1> HIDE DEF q, m, r
<1>7. Claims(r, page', link', inbox, mfg')
  BY <1>1, <1>4, <1>5, <1>6, RestingClaims DEF m
<1> QED BY <1>4, <1>7 DEF r, Claim

\* The board's answers, in their order.
LEMMA DeliverClaims ==
    ASSUME Good, Memory, Deliver, NEW f \in Flows, Claim(f)
    PROVE  Claim(f)'
<1> DEFINE e == Head(inbox)
           m == mfg[link.board]
<1>1. /\ inbox # <<>> /\ inbox' = Tail(inbox) /\ inbox \in Seq(Events) /\ link.board # None
      /\ UNCHANGED <<page, link, mfg>>
      /\ Claims(flow[f], page, link, inbox, mfg)
  BY DEF Deliver, Good, Rest, Acks, Claim
<1>2. /\ e = inbox[1] /\ Len(inbox) \in Nat /\ DOMAIN inbox = 1..Len(inbox) /\ 1 \in DOMAIN inbox
      /\ \A k \in DOMAIN inbox' : k + 1 \in DOMAIN inbox /\ inbox'[k] = inbox[k + 1]
  BY <1>1
<1> HIDE DEF e
<1>3. Confirmed(flow[f], inbox') => Confirmed(flow[f], inbox)
  BY <1>1, TailConfirmed
<1>4. /\ Made(flow[f], inbox, m)
      /\ flow[f].kind # "write" => Reads(flow[f], inbox, m)
      /\ flow[f].kind = "write" => Agreed(flow[f], page, m)
  BY <1>1 DEF Claims
<1>5. CASE flow'[f] = flow[f]
  <2>1. Made(flow[f], inbox', m)
    BY <1>3, <1>4 DEF Made
  <2>2. flow[f].kind # "write" => Reads(flow[f], inbox', m)
    BY <1>2, <1>4 DEF Reads
  <2>3. Claims(flow[f], page, link, inbox', mfg)
    BY <1>1, <1>4, <2>1, <2>2 DEF Claims
  <2> QED BY <1>1, <1>5, <2>3 DEF Claim
<1>6. CASE Settles(e) /\ f = wait.flow
  <2> DEFINE b == flow[f].misled \/ Misleading
             r == [flow[f] EXCEPT !.reply = "got", !.event = e, !.misled = b]
  <2>1. /\ wait.t = e.t /\ wait.n = e.n /\ flow[f].reply = "pending" /\ Shape(flow[f])
        /\ <<wait.t, wait.n>> = Expects(flow[f])
        /\ flow[f].io = "send" => b
        /\ flow'[f] = r /\ r.kind = flow[f].kind /\ r.at = flow[f].at
        /\ r.cmd = flow[f].cmd /\ r.io = flow[f].io
        /\ r.reply = "got" /\ r.misled = b /\ r.valid = flow[f].valid
        /\ r.dev = flow[f].dev /\ r.event = e
    BY <1>6, SettlesFlow DEF e
  <2>2. ~b => ~flow[f].misled /\ ~Misleading /\ flow[f].io # "send"
    BY <2>1
  <2> HIDE DEF b, r
  <2>3. ASSUME ~Misleading, e.ok PROVE Confirmed(flow[f], inbox)
    <3>1. <<inbox[1].t, inbox[1].n>> = Expects(flow[f]) /\ inbox[1].ok
      BY <1>2, <2>1, <2>3
    <3>2. ASSUME NEW j \in DOMAIN inbox, j > 1 PROVE <<inbox[j].t, inbox[j].n>> # Expects(flow[f])
      <4>1. j \in 2..Len(inbox)
        BY <1>2, <3>2
      <4>2. ~Settles(inbox[j])
        BY <2>3, <4>1 DEF Misleading
      <4>3. wait # NoWait
        BY <1>6 DEF Settles
      <4> QED BY <2>1, <4>2, <4>3 DEF Settles
    <3> QED BY <1>2, <3>1, <3>2 DEF Confirmed
  <2>4. Made(r, inbox', m)
    <3>1. ~r.misled => Made(flow[f], inbox, m) /\ ~flow[f].misled /\ r.io # "send"
      BY <1>4, <2>1, <2>2
    <3>2. ~r.misled /\ r.at = "settling" => Written(m, r.dev, 2)
      BY <2>1, <3>1 DEF Made
    <3>3. ASSUME ~r.misled, r.at = "script", r.io = "wait", r.event.ok
          PROVE  Written(m, r.dev, r.cmd + 1)
      <4>1. ~Misleading /\ e.ok
        BY <2>1, <2>2, <3>3
      <4> QED BY <2>1, <2>3, <3>1, <3>3, <4>1 DEF Made
    <3>4. (Scripting(r) <=> Scripting(flow[f])) /\ r.dev = flow[f].dev
      BY <2>1 DEF Scripting
    <3> QED BY <1>4, <2>1, <3>1, <3>2, <3>3, <3>4 DEF Made
  <2>5. ASSUME r.kind # "write" PROVE Reads(r, inbox', m)
    <3>1. Reads(flow[f], inbox, m) /\ (Early(r) <=> Early(flow[f]))
      BY <1>4, <2>1, <2>5 DEF Early
    <3>2. ASSUME r.at \in StatusChecks PROVE ReadOf(flow[f], e.id, m)
      <4>1. e.t = "prov"
        BY <2>1, <3>2 DEF Expects, StatusChecks
      <4> QED BY <1>2, <3>1, <4>1 DEF Reads
    <3> QED BY <1>2, <2>1, <3>1, <3>2 DEF Reads, ReadOf
  <2>6. Agreed(r, page, m)
    <3>1. r.at \notin {"attempting", "fetching"} /\ (r.at = "script" => r.cmd # Erase)
      BY <2>1 DEF Shape, StatusChecks
    <3> QED BY <3>1 DEF Agreed
  <2>7. Chosen(r) <=> Chosen(flow[f])
    BY <2>1 DEF Chosen
  <2>8. Claims(r, page, link, inbox', mfg)
    BY <1>1, <2>1, <2>4, <2>5, <2>6, <2>7 DEF Claims
  <2> QED BY <1>1, <2>1, <2>8 DEF Claim
<1>7. flow'[f] = flow[f] \/ (Settles(e) /\ f = wait.flow)
  <2>1. CASE Settles(e)
    BY <2>1, SettlesFlow DEF e
  <2>2. CASE ~Settles(e)
    BY <2>2 DEF Deliver, e
  <2> QED BY <2>1, <2>2
<1> QED BY <1>5, <1>6, <1>7

-----------------------------------------------------------------------------
(* What the others do.                                                      *)

\* The links and the queue of other flows.
LEMMA SetAsideClaims ==
    ASSUME Good, NEW f \in Flows, Claim(f), Quiet,
           flow'[f] \in {flow[f], Unbound(flow)[f]} \/
              \E w : flow' = Cancelled(Unbound(flow), w),
           page'.device = page.device, mfg' = mfg,
           link'.board = None \/ (link'.board = link.board /\ inbox' = inbox)
    PROVE  Claim(f)'
<1> DEFINE u == Unbound(flow)
           r == flow'[f]
           s == [u[f] EXCEPT !.reply = "cancelled"]
<1>1. /\ flow \in [Flows -> FlowRecords] /\ flow[f] \in FlowRecords
      /\ Claims(flow[f], page, link, inbox, mfg)
  BY FlowFacts DEF Good, World, Typed, Claim
<1>2. u \in [Flows -> FlowRecords] /\ u[f] = [flow[f] EXCEPT !.valid = FALSE, !.same = FALSE]
  BY <1>1, UnboundRecords DEF Unbound
<1> HIDE DEF u
<1>3. r \in {flow[f], u[f], s}
  <2>1. ASSUME NEW w, flow' = Cancelled(u, w) PROVE r \in {u[f], s}
    <3>1. Cancelled(u, w) = u \/ Cancelled(u, w) = [u EXCEPT ![w.flow].reply = "cancelled"]
      BY DEF Cancelled
    <3> QED BY <1>2, <2>1, <3>1
  <2> QED BY <2>1 DEF u
<1> DEFINE Same(a) ==
        /\ a.kind = flow[f].kind /\ a.at = flow[f].at /\ a.dev = flow[f].dev /\ a.cmd = flow[f].cmd
        /\ a.io = flow[f].io /\ a.misled = flow[f].misled /\ a.event = flow[f].event
        /\ (a.valid => flow[f].valid) /\ (a.same => flow[f].same)
        /\ (a.reply = flow[f].reply \/ a.reply = "cancelled")
<1>4. Same(flow[f]) /\ Same(u[f]) /\ Same(s)
  BY <1>1, <1>2 DEF FlowRecords
<1> HIDE DEF s
<1>5. Same(r)
  BY <1>3, <1>4
<1> HIDE DEF r
<1>6. CASE link'.board = link.board /\ inbox' = inbox
  <2>1. Claims(r, page', link', inbox, mfg)
    BY <1>1, <1>5, <1>6, AsideClaims
  <2> QED BY <1>6, <2>1 DEF Claim, r
<1>7. CASE link'.board = None
  <2>1. r.io = "wait" => r.reply # "got"
    BY <1>5 DEF Quiet
  <2>2. Chosen(r) => r.dev = page'.device
    BY <1>1, <1>5 DEF Claims, Chosen
  <2>3. Claims(r, page', link', inbox', mfg')
    BY <1>7, <2>1, <2>2, DarkClaims
  <2> QED BY <2>3 DEF Claim, r
<1> QED BY <1>6, <1>7

LEMMA OutsideClaims ==
    ASSUME Good, Memory, Outside, NEW f \in Flows, Alone(f), Claim(f)
    PROVE  Claim(f)'
<1>1. page.busy /\ page \in Pages
  BY AloneFacts DEF Good, Rest
<1>2. CASE Drop \/ UserDisconnect
  <2>1. LinkLost(Unbound(flow), page, wait) /\ Quiet /\ mfg' = mfg
    BY <1>2 DEF Drop, UserDisconnect
  <2>2. /\ link'.board = None
        /\ flow' = Cancelled(Unbound(flow), wait) \/ flow' = Unbound(flow)
    BY <2>1 DEF LinkLost, NoLink
  <2>3. page'.device = page.device
    BY <1>1, <2>1 DEF LinkLost, Pages
  <2> QED BY <2>1, <2>2, <2>3, SetAsideClaims
<1>3. CASE Restart
  <2>1. /\ Quiet /\ mfg' = mfg
        /\ \/ link' = NoLink /\ flow' = Unbound(flow)
           \/ link' = link /\ inbox' = inbox /\ flow' = flow
    BY <1>3 DEF Restart
  <2>2. page'.device = page.device
    BY <1>1, <1>3 DEF Restart, Pages
  <2>3. link' = NoLink => link'.board = None
    BY DEF NoLink
  <2> QED BY <2>1, <2>2, <2>3, SetAsideClaims
<1>4. CASE Confirm \/ \E to \in {"connect", "write"} : Go(to)
  <2>1. Quiet /\ mfg' = mfg /\ link' = link /\ inbox' = inbox /\ flow' = flow
    BY <1>4 DEF Confirm, Go, Controls
  <2>2. page'.device = page.device
    BY <1>1, <1>4 DEF Confirm, Go, Pages
  <2> QED BY <2>1, <2>2, SetAsideClaims
<1>5. CASE \E d \in Devices : ChooseDevice(d)
  BY <1>1, <1>5 DEF ChooseDevice
<1>6. CASE Deliver
  BY <1>6, DeliverClaims
<1>7. CASE UNCHANGED vars
  BY <1>7 DEF vars, Claim
<1> QED BY <1>2, <1>3, <1>4, <1>5, <1>6, <1>7 DEF Outside

\* While a flow is alone, others only attach boards.
LEMMA OnlyAttached ==
    ASSUME Good, NEW f \in Flows, Alone(f), NEW g \in Flows, g # f, FlowStep(g)
    PROVE  Linked(g) \/ LinkFails(g)
<1>1. flow[g].kind \in {"none", "attach"} /\ flow[g].at \in {"idle", "linking"}
  BY AloneFacts
<1>2. Shape(flow[g])
  BY FlowFacts
<1>3. flow[g].io = "none" /\ flow[g].reply = "none"
  BY <1>1, <1>2 DEF Shape, StatusChecks
<1>4. wait.flow # g
  <2>1. flow[g].reply = "pending" <=> wait.flow = g
    BY WorldFacts DEF Good
  <2> QED BY <1>3, <2>1
<1> QED BY <1>1, <1>3, <1>4 DEF FlowStep, Sent, SendFails, RebootSent, MyTurn, Timeout, Closed,
       StatusAnswered, StatusUnanswered, CloudReady, CloudFails, Attempted, Fetched, FetchFails,
       Settled, Acknowledged, ScriptStops, Succeeded, Rebooted, VerifyRound, Deadline, StatusChecks

\* One that attaches a board takes the page from it.
LEMMA OthersClaims ==
    ASSUME Good, NEW f \in Flows, Alone(f), Alone(f)', Claim(f),
           NEW g \in Flows, g # f, FlowStep(g)
    PROVE  Claim(f)'
<1>1. f \in Running(flow)
  BY AloneFacts
<1>2. flow \in [Flows -> FlowRecords] /\ page \in Pages
  BY FlowFacts DEF Good, World, Typed
<1>5. Linked(g) \/ LinkFails(g)
  BY OnlyAttached
<1>6. CASE Linked(g)
  <2>1. Running(flow) \ {g} # {} /\ loose' = Loosened(flow', Running(flow) \ {g} # {})
    BY <1>1, <1>6 DEF Linked
  <2>2. loose' = Running(flow')
    BY <2>1 DEF Loosened
  <2> QED BY <2>2 DEF Alone
<1>7. CASE LinkFails(g)
  <2>1. Unbound(flow) \in [Flows -> FlowRecords]
    BY <1>2, UnboundRecords
  <2>2. /\ Quiet /\ mfg' = mfg /\ link' = link /\ inbox' = inbox
        /\ flow'[f] = Unbound(flow)[f]
    BY <1>7, <2>1 DEF LinkFails
  <2>3. page'.device = page.device
    BY <1>2, <1>7 DEF LinkFails, Pages
  <2> QED BY <2>2, <2>3, SetAsideClaims
<1> QED BY <1>5, <1>6, <1>7

LEMMA OwnClaims ==
    ASSUME NEW f \in Flows, Acts(f), FlowStep(f)
    PROVE  Claim(f)'
<1>1. flow \in [Flows -> FlowRecords]
  BY ActorFacts
<1>2. ~Closed(f)
  <2>1. Closed(f) => (\E b : EndAuto(f, flow, wait, b)) \/ flow' = [flow EXCEPT ![f] = NoFlow]
    BY DEF Closed
  <2> QED BY <1>1, <2>1, EndAutoEnds, CalmNoFlow DEF Acts
<1>3. Linked(f) => Claim(f)'
  BY LinkedClaims DEF Acts
<1> QED BY <1>2, <1>3, SentClaims, SendFailsClaims, TimeoutClaims, LinkFailsClaims,
       StatusAnsweredClaims, StatusUnansweredClaims, CloudClaims, FailsClaims, AttemptedClaims,
       HandsClaims, VerifyRoundClaims DEF FlowStep

\* A flow that begins to run has the page, or has just been given it.
LEMMA BegunClaims ==
    ASSUME Good, Memory, Next \/ UNCHANGED vars, NEW f \in Flows,
           f \notin Running(flow), f \in Running(flow'), ReadRight
    PROVE  Claim(f)'
<1>1. flow \in [Flows -> FlowRecords]
  BY DEF Good, World, Typed
<1>2. flow'[f].kind \notin {"none", "attach"} /\ flow'[f].kind # flow[f].kind
  BY DEF Running
<1>3. ASSUME NEW g \in Flows, FlowStep(g) PROVE Claim(f)'
  <2>1. g = f
    BY <1>2, <1>3, StepKinds DEF Only
  <2>2. Linked(f)
    BY <1>2, <1>3, <2>1, StepKinds
  <2>3. flow[f].kind # "auto"
    BY DEF Running
  <2> QED BY <1>2, <2>2, <2>3, LinkedClaims
<1>4. ~Outside
  BY <1>2, OutsideKinds
<1>5. ASSUME NEW g \in Flows, StartWrite(g) PROVE Claim(f)'
  <2> DEFINE r == [NoFlow EXCEPT !.kind = "write", !.at = "attempting",
                    !.same = link.read /\ Readable /\ ~page.confirmed]
  <2>1. flow' = [flow EXCEPT ![g] = r]
    BY <1>5 DEF StartWrite
  <2>2. /\ r.kind = "write" /\ r.at = "attempting"
        /\ r.same = (link.read /\ Readable /\ ~page.confirmed)
    BY DEF NoFlow
  <2> HIDE DEF r
  <2>3. g = f /\ flow'[f] = r
    BY <1>1, <1>2, <2>1
  <2>4. \A i, m : Made(r, i, m)
    BY <2>2 DEF Made, Scripting
  <2>5. page \in Pages /\ ~Chosen(r)
    BY <2>2 DEF Good, Rest, Chosen
  <2>6. page'.device = page.device /\ link' = link /\ mfg' = mfg
        /\ (HazardMismatch => page.confirmed)
    BY <1>5, <2>5 DEF StartWrite, Pages
  <2>7. ASSUME link.board # None PROVE Agreed(r, page', mfg[link.board])
    BY <2>2, <2>6, <2>7, BoardsOK
       DEF Agreed, HazardMismatch, Mismatch, Readable, Comparable, ReadRight
  <2> QED BY <2>2, <2>3, <2>4, <2>5, <2>6, <2>7 DEF Claim, Claims, StatusChecks
<1>6. ASSUME NEW g \in Flows, NEW k \in {"attach", "connect", "verify"}, NEW b \in Boards,
             NEW via \in Vias, NEW p, Attaching(g, k, b, via, p)
      PROVE  Claim(f)'
  <2> DEFINE r == [NoFlow EXCEPT !.kind = k, !.at = "linking", !.board = b, !.via = via, !.same = TRUE]
             fl == [Unbound(flow) EXCEPT ![g] = r]
  <2>1. LinkLost(fl, p, wait)
    BY <1>6 DEF Attaching
  <2>2. k \in Kinds
    BY DEF Kinds
  <2>3. r \in FlowRecords /\ r.at = "linking" /\ r.kind = k
    BY <2>2, LinkingRecord
  <2>4. Unbound(flow) \in [Flows -> FlowRecords] /\ \A h \in Flows : Unbound(flow)[h].kind = flow[h].kind
    BY <1>1, UnboundRecords, UnboundKinds
  <2> HIDE DEF r
  <2>5. fl \in [Flows -> FlowRecords] /\ fl[g].at = "linking" /\ fl[g].kind = k
        /\ \A h \in Flows \ {g} : fl[h].kind = flow[h].kind
    BY <2>3, <2>4
  <2> HIDE DEF fl
  <2>6. g = f /\ flow'[f].kind \notin {"write", "auto"}
    BY <1>2, <2>1, <2>3, <2>5, LinkLostKinds
  <2>7. flow'[f].at = "linking"
    <3>1. flow' = Cancelled(fl, wait) \/ flow' = fl
      BY <2>1 DEF LinkLost
    <3>2. Cancelled(fl, wait)[f].at = "linking"
      BY <2>5, <2>6 DEF Cancelled, FlowRecords
    <3> QED BY <2>5, <2>6, <3>1, <3>2
  <2>8. link'.board = None
    BY <2>1 DEF LinkLost, NoLink
  <2>9. Claims(flow'[f], page', link', inbox', mfg')
    BY <2>6, <2>7, <2>8, DarkClaims DEF StatusChecks, Chosen
  <2> QED BY <2>9 DEF Claim
<1>7. ASSUME NEW g \in Flows, NEW b \in Boards,
             StartWizardLink(g, b) \/ \E via \in Vias : StartAttach(g, b, via)
      PROVE  Claim(f)'
  <2>1. CASE StartWizardLink(g, b)
    BY <1>6, <2>1 DEF StartWizardLink
  <2>2. CASE \E via \in Vias : StartAttach(g, b, via)
    BY <1>6, <2>2 DEF StartAttach
  <2> QED BY <1>7, <2>1, <2>2
<1> QED BY <1>3, <1>4, <1>5, <1>7 DEF Next, UserStep, Outside

-----------------------------------------------------------------------------
(* Who moves a flow on.                                                     *)

LEMMA CancelledStages ==
    ASSUME NEW fl \in [Flows -> FlowRecords], NEW w
    PROVE  \A g \in Flows : Cancelled(fl, w)[g].at = fl[g].at
<1>1. CASE w = NoWait \/ w.flow \notin Flows
  BY <1>1 DEF Cancelled
<1>2. CASE w # NoWait /\ w.flow \in Flows
  <2> DEFINE r == [fl[w.flow] EXCEPT !.reply = "cancelled"]
  <2>1. Cancelled(fl, w) = [fl EXCEPT ![w.flow] = r]
    BY <1>2 DEF Cancelled
  <2>2. r.at = fl[w.flow].at
    BY <1>2 DEF FlowRecords
  <2> HIDE DEF r
  <2> QED BY <1>2, <2>1, <2>2
<1> QED BY <1>1, <1>2

LEMMA UnboundStages ==
    ASSUME NEW fl \in [Flows -> FlowRecords]
    PROVE  \A g \in Flows : Unbound(fl)[g].at = fl[g].at
<1>1. ASSUME NEW r \in FlowRecords PROVE [r EXCEPT !.valid = FALSE, !.same = FALSE].at = r.at
  BY DEF FlowRecords
<1>2. \A g \in Flows : fl[g] \in FlowRecords
  OBVIOUS
<1> QED BY <1>1, <1>2 DEF Unbound

\* What is attached beside flow f, or is not, does not move f.
LEMMA OthersStages ==
    ASSUME Good, NEW f \in Flows, NEW g \in Flows, g # f, Linked(g) \/ LinkFails(g)
    PROVE  flow'[f].at = flow[f].at
<1> DEFINE u == Unbound(flow)
           fl == [u EXCEPT ![g] = flow[g]]
           a == [fl EXCEPT ![g].kind = "auto"]
<1>1. flow \in [Flows -> FlowRecords] /\ flow[g] \in FlowRecords
  BY FlowFacts DEF Good, World, Typed
<1>2. u \in [Flows -> FlowRecords] /\ u[f].at = flow[f].at
  BY <1>1, UnboundRecords, UnboundStages
<1>3. \/ \E r : flow' = [u EXCEPT ![g] = r]
      \/ flow' = [fl EXCEPT ![g] = NoFlow]
      \/ \E p, at : AskStatus(g, a, p, at) \/ AskStatus(g, fl, p, at)
  BY DEF Linked, LinkFails
<1> HIDE DEF u
<1>4. fl \in [Flows -> FlowRecords] /\ fl[f].at = flow[f].at /\ fl[g] = flow[g]
  BY <1>1, <1>2
<1>5. a \in [Flows -> FlowRecords] /\ a[f].at = flow[f].at
  <2>1. [fl[g] EXCEPT !.kind = "auto"] \in FlowRecords
    BY <1>1, <1>4, AutoRecord
  <2>2. a = [fl EXCEPT ![g] = [fl[g] EXCEPT !.kind = "auto"]]
    BY <1>4
  <2> HIDE DEF fl
  <2> QED BY <1>4, <2>1, <2>2
<1> HIDE DEF a, fl
<1>6. ASSUME NEW b \in [Flows -> FlowRecords], b[f].at = flow[f].at, NEW p, NEW at, AskStatus(g, b, p, at)
      PROVE  flow'[f].at = flow[f].at
  <2>1. \E r : flow' = [Superseded(b) EXCEPT ![g] = r]
    BY <1>6 DEF AskStatus
  <2>2. Superseded(b) \in [Flows -> FlowRecords] /\ Superseded(b)[f].at = flow[f].at
    BY <1>6, CancelledKinds, CancelledStages DEF Superseded
  <2> QED BY <2>1, <2>2
<1> QED BY <1>2, <1>3, <1>4, <1>5, <1>6

LEMMA OutsideStages ==
    ASSUME Good, Outside, NEW f \in Flows
    PROVE  flow'[f].at = flow[f].at
<1>1. flow \in [Flows -> FlowRecords]
  BY DEF Good, World, Typed
<1>2. Unbound(flow) \in [Flows -> FlowRecords] /\ Unbound(flow)[f].at = flow[f].at
  BY <1>1, UnboundRecords, UnboundStages
<1>3. CASE Drop \/ UserDisconnect
  <2>1. flow' = Cancelled(Unbound(flow), wait) \/ flow' = Unbound(flow)
    BY <1>3 DEF Drop, UserDisconnect, LinkLost
  <2> QED BY <1>2, <2>1, CancelledStages
<1>4. CASE Deliver
  <2>1. CASE Settles(Head(inbox))
    BY <1>4, <2>1, SettlesFlow
  <2>2. CASE ~Settles(Head(inbox))
    BY <1>4, <2>2 DEF Deliver
  <2> QED BY <2>1, <2>2
<1>5. CASE Restart \/ Confirm \/ (\E to \in {"connect", "write"} : Go(to))
           \/ (\E d \in Devices : ChooseDevice(d)) \/ UNCHANGED vars
  BY <1>2, <1>5 DEF Restart, Confirm, Go, ChooseDevice, Controls, vars
<1> QED BY <1>3, <1>4, <1>5 DEF Outside

\* The answer names the chosen device, or the wizard had nothing to compare.
Vouched(f) == Seen(f) = page.device \/ (flow[f].kind = "verify" /\ ~Comparable(Seen(f)))

\* Who says "verified" has the answer of the board.
LEMMA OnlyAnswersVerify ==
    ASSUME Good, Good', NEW f \in Flows, FlowStep(f),
           flow[f].at \in {"status", "checking"}, flow'[f].at = "closing",
           reported' = Told(page.device, "verified")
    PROVE  StatusAnswered(f) /\ Vouched(f)
<1>1. flow \in [Flows -> FlowRecords] /\ flow[f] \in FlowRecords /\ Shape(flow[f]) /\ page \in Pages
  BY FlowFacts DEF Good, World, Typed
<1>2. /\ Cancelled(flow, wait) \in [Flows -> FlowRecords]
      /\ Advanced(Cancelled(flow, wait)) \in [Flows -> FlowRecords]
  BY <1>1, CancelledKinds, AdvancedTyped
<1>3. flow'[f].kind # "none"
  <2>1. Shape(flow'[f])
    BY DEF Good, World, Typed
  <2> QED BY <2>1 DEF Shape
<1>4. Told(page.device, "failed") # Told(page.device, "verified")
  BY DEF Told
<1>5. ASSUME NEW fl \in [Flows -> FlowRecords], NEW w, Fail(f, fl, w) PROVE FALSE
  <2>1. \/ flow' = [fl EXCEPT ![f] = NoFlow]
        \/ EndAuto(f, fl, w, TRUE)
        \/ flow' = [fl EXCEPT ![f] = At(f, "verifying")]
        \/ reported' = Told(page.device, "failed")
    BY <1>5 DEF Fail, Report
  <2>2. At(f, "verifying").at # "closing"
    BY <1>1, AtFields
  <2> QED BY <1>3, <1>4, <1>5, <2>1, <2>2, EndAutoEnds, CalmNoFlow
<1>6. flow[f].cmd = 0 /\ Reboot # 0 /\ Erase # 0 /\ flow[f].at \in StatusChecks
  BY <1>1, Numbers DEF Shape, StatusChecks
<1>7. ~Sent(f) /\ ~RebootSent(f)
  <2>1. Sent(f) => flow'[f].at = flow[f].at
    BY <1>6, SentFields
  <2> QED BY <1>6, <2>1 DEF RebootSent
<1>8. ~SendFails(f)
  BY <1>2, <1>5 DEF SendFails
<1>9. ~Timeout(f)
  <2>1. Timeout(f) => flow'[f] = [flow[f] EXCEPT !.reply = "timeout"]
    BY <1>1 DEF Timeout
  <2> QED BY <1>1, <2>1 DEF FlowRecords
<1>10. ~StatusUnanswered(f)
  <2>1. StatusUnanswered(f) => \/ AskStatus(f, flow, page, "retry")
                              \/ EndAuto(f, flow, wait, FALSE)
                              \/ Fail(f, flow, wait)
    BY DEF StatusUnanswered
  <2>2. ~AskStatus(f, flow, page, "retry")
    BY <1>1, AskStatusFlow
  <2>3. ~EndAuto(f, flow, wait, FALSE) /\ ~Fail(f, flow, wait)
    BY <1>1, <1>3, <1>5, EndAutoEnds
  <2> QED BY <2>1, <2>2, <2>3
<1>11. StatusAnswered(f)
  BY <1>7, <1>8, <1>9, <1>10 DEF FlowStep, Closed, Linked, LinkFails, CloudReady, CloudFails,
     Attempted, Fetched, FetchFails, Settled, Acknowledged, ScriptStops, Succeeded, Rebooted,
     VerifyRound, Deadline
<1>12. Vouched(f)
  <2>1. CASE WizardRead(f)
    <3>1. flow' = [flow EXCEPT ![f] = NoFlow]
          \/ Vouched(f) \/ reported' = Told(page.device, "failed")
      BY <2>1 DEF WizardRead, Report, Vouched, Mismatch
    <3> QED BY <1>1, <1>3, <1>4, <3>1, CalmNoFlow
  <2>2. CASE AutoRead(f)
    <3>1. flow' = [flow EXCEPT ![f] = NoFlow] \/ flow' = [flow EXCEPT ![f] = At(f, "cloud")]
      BY <2>2 DEF AutoRead
    <3>2. At(f, "cloud").at # "closing"
      BY <1>1, AtFields
    <3> QED BY <1>1, <1>3, <3>1, <3>2, CalmNoFlow
  <2>3. CASE Rechecked(f)
    BY <2>3 DEF Rechecked
  <2>4. CASE Verified(f)
    <3>1. Vouched(f) \/ flow' = [flow EXCEPT ![f] = At(f, "verifying")]
      BY <2>4 DEF Verified, Vouched
    <3>2. At(f, "verifying").at # "closing"
      BY <1>1, AtFields
    <3> QED BY <1>1, <3>1, <3>2
  <2> QED BY <1>11, <2>1, <2>2, <2>3, <2>4 DEF StatusAnswered
<1> QED BY <1>11, <1>12

-----------------------------------------------------------------------------
(* What the page has read of the board.                                     *)

\* The link, and what the page shows of the board on it, are left alone.
SameReading ==
    /\ link' = link /\ loose' = loose
    /\ page'.detected = page.detected /\ page'.device = page.device

LEMMA LinkLostReading ==
    ASSUME NEW fl, NEW p, NEW w, LinkLost(fl, p, w)
    PROVE  ~link'.read
BY DEF LinkLost, NoLink

LEMMA EndAutoReading ==
    ASSUME page \in Pages, NEW f \in Flows, NEW fl, NEW w, NEW failed, EndAuto(f, fl, w, failed)
    PROVE  ~link'.read \/ SameReading
<1> DEFINE p == [page EXCEPT !.busy = FALSE, !.auto = FALSE]
           others == [fl EXCEPT ![f] = NoFlow]
<1>1. p.device = page.device /\ p.detected = page.detected
  BY DEF Pages
<1> HIDE DEF p, others
<1>2. LinkLost(Unbound(others), p, w) \/ (page' = p /\ UNCHANGED <<link, loose>>)
  BY DEF EndAuto, p, others
<1> QED BY <1>1, <1>2, LinkLostReading DEF SameReading

LEMMA FailReading ==
    ASSUME page \in Pages, NEW f \in Flows, NEW fl, NEW w, Fail(f, fl, w)
    PROVE  ~link'.read \/ SameReading
<1>1. \/ page' = [page EXCEPT !.busy = FALSE] /\ UNCHANGED <<link, loose>>
      \/ UNCHANGED <<page, link, loose>>
      \/ EndAuto(f, fl, w, TRUE)
  BY DEF Fail
<1>2. [page EXCEPT !.busy = FALSE].device = page.device
      /\ [page EXCEPT !.busy = FALSE].detected = page.detected
  BY DEF Pages
<1> QED BY <1>1, <1>2, EndAutoReading DEF SameReading

\* What can become of the reading in a step.
LEMMA ReadingStep ==
    ASSUME Good, Next \/ UNCHANGED vars
    PROVE  \/ ~link'.read
           \/ SameReading
           \/ link' = link /\ loose' = loose /\ page'.detected = None
           \/ \E f \in Flows : CloudReady(f) \/ StatusAnswered(f) \/ StartWrite(f)
<1> DEFINE Forgets == link' = link /\ loose' = loose /\ page'.detected = None
           Goal == ~link'.read \/ SameReading \/ Forgets
<1>1. page \in Pages
  BY DEF Good, Rest
<1>2. ASSUME NEW f \in Flows, NEW fl, NEW p \in Pages, NEW at, AskStatus(f, fl, p, at)
      PROVE  page'.detected = None
  BY <1>2 DEF AskStatus, Pages
<1>3. CASE Drop \/ UserDisconnect
  BY <1>3, LinkLostReading DEF Drop, UserDisconnect
<1>4. CASE Restart
  BY <1>1, <1>4 DEF Restart, NoLink, Pages
<1>5. CASE Deliver \/ UNCHANGED vars
  BY <1>5 DEF Deliver, vars, SameReading
<1>6. CASE Confirm \/ \E to \in {"connect", "write"} : Go(to)
  BY <1>1, <1>6 DEF Confirm, Go, Controls, SameReading, Pages
<1>7. CASE \E d \in Devices : ChooseDevice(d)
  BY <1>1, <1>7 DEF ChooseDevice, Controls, Pages
<1>8. ASSUME NEW f \in Flows, NEW b \in Boards,
             StartWizardLink(f, b) \/ \E via \in Vias : StartAttach(f, b, via)
      PROVE  ~link'.read
  BY <1>8, LinkLostReading DEF StartWizardLink, StartAttach, Attaching
<1>9. ASSUME NEW f \in Flows, Linked(f) PROVE ~link'.read
  BY <1>9 DEF Linked
<1>10. ASSUME NEW f \in Flows,
              SendFails(f) \/ ScriptStops(f) \/ CloudFails(f) \/ FetchFails(f) \/ Deadline(f)
       PROVE  ~link'.read \/ SameReading
  BY <1>1, <1>10, FailReading DEF SendFails, ScriptStops, CloudFails, FetchFails, Deadline
<1>11. ASSUME NEW f \in Flows, StatusUnanswered(f) \/ Attempted(f) \/ VerifyRound(f) \/ Closed(f)
       PROVE  Goal
  <2>1. [page EXCEPT !.connected = TRUE] \in Pages
    BY <1>1 DEF Pages
  <2>2. \/ link' = link /\ loose' = loose
            /\ \E p \in {page, [page EXCEPT !.connected = TRUE]} : \E at : AskStatus(f, flow, p, at)
        \/ UNCHANGED <<link, loose>> /\ page' \in {page, [page EXCEPT !.busy = FALSE]}
        \/ \E fl, p : LinkLost(fl, p, wait)
        \/ \E b : EndAuto(f, flow, wait, b)
        \/ Fail(f, flow, wait)
    BY <1>11 DEF StatusUnanswered, Attempted, VerifyRound, Closed
  <2>3. [page EXCEPT !.busy = FALSE].device = page.device
        /\ [page EXCEPT !.busy = FALSE].detected = page.detected
    BY <1>1 DEF Pages
  <2> QED BY <1>1, <1>2, <2>1, <2>2, <2>3, FailReading, EndAutoReading, LinkLostReading DEF SameReading
<1>12. ASSUME NEW f \in Flows, Fetched(f) \/ Settled(f) \/ Acknowledged(f)
       PROVE  SameReading
  <2>1. \E n : SendNext(f, n)
    BY <1>12 DEF Fetched, Settled, Acknowledged
  <2>2. page'.device = page.device /\ page'.detected = page.detected
    BY <1>1, <2>1 DEF SendNext, Pages
  <2> QED BY <1>12, <2>2 DEF Fetched, Settled, Acknowledged, SameReading
<1>13. ASSUME NEW f \in Flows,
              Sent(f) \/ Timeout(f) \/ LinkFails(f) \/ RebootSent(f) \/ Succeeded(f) \/ Rebooted(f)
       PROVE  SameReading \/ Forgets
  BY <1>1, <1>13 DEF Sent, Timeout, LinkFails, RebootSent, Succeeded, Rebooted, SameReading, Pages
<1> QED BY <1>3, <1>4, <1>5, <1>6, <1>7, <1>8, <1>9, <1>10, <1>11, <1>12, <1>13
        DEF Next, UserStep, FlowStep

\* Who runs on an unchanged link ran before, or has just started to write.
LEMMA RunningStep ==
    ASSUME Good, Next \/ UNCHANGED vars, link'.read
    PROVE  Running(flow') \subseteq Running(flow) \/ \E f \in Flows : StartWrite(f)
<1>1. ASSUME NEW f \in Flows, FlowStep(f) PROVE Running(flow') \subseteq Running(flow)
  <2>1. ~Linked(f)
    BY DEF Linked
  <2> QED BY <1>1, <2>1, StepKinds DEF Only, Running
<1>2. CASE Outside
  BY <1>2, OutsideKinds DEF Running
<1>3. ASSUME NEW f \in Flows, NEW b \in Boards,
             StartWizardLink(f, b) \/ \E via \in Vias : StartAttach(f, b, via)
      PROVE  FALSE
  BY <1>3, LinkLostReading DEF StartWizardLink, StartAttach, Attaching
<1> QED BY <1>1, <1>2, <1>3 DEF Next, UserStep, Outside

\* The reading stays that of a flow alone on the page.
LEMMA ReadAloneStep ==
    ASSUME IInv, ReadAlone, Next \/ UNCHANGED vars
    PROVE  ReadAlone'
<1>1. Good /\ flow \in [Flows -> FlowRecords]
  BY GoodInvariant DEF Good, World, Typed
<1> SUFFICES ASSUME link'.read PROVE Running(flow') \cap loose' = {}
  BY DEF ReadAlone
<1>2. CASE \E f \in Flows : StartWrite(f)
  <2>1. PICK f \in Flows : StartWrite(f)
    BY <1>2
  <2>2. link.read /\ ~page.busy /\ loose' = Loosened(flow', FALSE)
    BY <2>1 DEF StartWrite
  <2>3. Running(flow) = {}
    BY <1>1, <2>2 DEF Good, Owned, ReadAlone
  <2>4. \A g \in Flows \ {f} : flow'[g] = flow[g]
    BY <1>1, <2>1 DEF StartWrite
  <2>5. Running(flow') \subseteq {f}
    BY <2>3, <2>4 DEF Running
  <2>6. loose' = {}
    BY <2>2, <2>3, <2>5 DEF Loosened
  <2> QED BY <2>6
<1>3. CASE Running(flow') \subseteq Running(flow) /\ \E f \in Flows : StatusAnswered(f)
  <2>1. PICK f \in Flows : StatusAnswered(f)
    BY <1>3
  <2>2. loose' = loose /\ ReadHere(f) /\ flow[f].at \in StatusChecks
    BY <2>1 DEF StatusAnswered, WizardRead, AutoRead, Rechecked, Verified
  <2>3. f \notin loose
    BY <1>1, <2>2 DEF ReadHere, Good, Rest, Links
  <2>4. flow[f].kind \notin {"none", "attach"}
    BY <1>1, <2>2, FlowFacts DEF Shape, StatusChecks
  <2>5. Running(flow) \subseteq {f}
    BY <1>1, <2>3, <2>4 DEF Good, Owned, Running
  <2> QED BY <1>3, <2>2, <2>3, <2>5
<1>4. CASE Running(flow') \subseteq Running(flow) /\ link' = link /\ loose' = loose
  BY <1>4 DEF ReadAlone
<1>5. ASSUME NEW f \in Flows, CloudReady(f) PROVE link' = link /\ loose' = loose
  BY <1>5 DEF CloudReady
<1>6. Running(flow') \subseteq Running(flow) \/ \E f \in Flows : StartWrite(f)
  BY <1>1, RunningStep
<1> QED BY <1>1, <1>2, <1>3, <1>4, <1>5, <1>6, ReadingStep DEF SameReading

\* A flow alone on the page writes nothing to the board but the chosen device.
LEMMA AloneWrites ==
    ASSUME Good, Memory, NEW f \in Flows, Claim(f), MyTurn(f), flow[f].valid,
           link.board \in Boards
    PROVE  LET m == mfg[link.board] IN
           Executed(m, flow[f].cmd, flow[f].dev).id \in {m.id, Blank, page.device}
<1> DEFINE q == flow[f]
           m == mfg[link.board]
           x == Executed(m, q.cmd, q.dev)
<1>1. q \in FlowRecords /\ Shape(q) /\ Claims(q, page, link, inbox, mfg) /\ q.io = "send"
  BY FlowFacts DEF Claim, MyTurn
<1>2. /\ m \in [id : Ids, parts : [Values -> Devices \cup {None}]]
      /\ q.cmd \in 0..Reboot /\ q.dev \in Devices \cup {None} /\ link.board # None
  BY <1>1, BoardsOK DEF Memory, FlowRecords
<1> HIDE DEF q, m
<1>3. \/ x.id = m.id
      \/ q.cmd = Finalize /\ m.id = Blank /\ m.parts[1] # None /\ x.id = m.parts[1]
      \/ x.id = Blank
  BY <1>2, ExecutedId
<1> HIDE DEF x
<1>4. CASE q.cmd = Finalize /\ m.id = Blank /\ m.parts[1] # None /\ x.id = m.parts[1]
  <2>1. 1 \in Values /\ Finalize # 0 /\ Finalize # Erase
    BY Numbers
  <2>2. q.at = "script" /\ q.cmd # Erase
    BY <1>1, <1>4, <2>1 DEF Shape
  <2>3. m.parts[1] \in {q.dev, None} /\ q.dev = page.device
    BY <1>1, <1>2, <1>4, <2>1, <2>2 DEF Claims, Made, Scripting, Chosen, m
  <2> QED BY <1>4, <2>3 DEF q, m, x
<1> QED BY <1>3, <1>4 DEF q, m, x

LEMMA ReadRightStep ==
    ASSUME IInv, KnownInv, Next \/ UNCHANGED vars
    PROVE  ReadRight'
<1>1. Good /\ Memory /\ page \in Pages /\ link \in Links
  BY GoodInvariant DEF Good, Rest
<1> SUFFICES ASSUME link'.read, link'.board # None, page'.detected \notin {None, Nameless}
             PROVE  mfg'[link'.board].id \in {Blank, page'.detected, page'.device}
  BY DEF ReadRight
<1>2. ASSUME NEW f \in Flows, f \in Running(flow), link.read
      PROVE  Claim(f)
  BY <1>2 DEF KnownInv, AloneInv, ReadAlone, Alone
<1>3. ASSUME NEW f \in Flows, CloudReady(f)
      PROVE  mfg'[link'.board].id \in {Blank, page'.detected, page'.device}
  <2>1. link' = link /\ mfg' = mfg /\ flow[f].at = "cloud"
    BY <1>3 DEF CloudReady
  <2>2. flow[f].kind \notin {"none", "attach", "write"}
    BY <1>1, <2>1, FlowFacts DEF Shape
  <2>3. Claim(f)
    BY <1>2, <2>1, <2>2 DEF Running
  <2> QED BY <2>1, <2>2, <2>3 DEF Claim, Claims, Reads
<1>4. ASSUME NEW f \in Flows, StatusAnswered(f)
      PROVE  mfg'[link'.board].id \in {Blank, page'.detected, page'.device}
  <2>1. /\ mfg' = mfg /\ link'.board = link.board /\ ReadHere(f)
        /\ page'.device = page.device /\ page'.detected = Seen(f)
    BY <1>1, <1>4 DEF StatusAnswered, WizardRead, AutoRead, Rechecked, Verified, ReadHere,
       Detected, Links, Pages
  <2>2. f \notin loose
    BY <1>1, <2>1 DEF ReadHere, Links
  <2>3. flow[f].at \in StatusChecks /\ flow[f].io = "wait" /\ flow[f].reply = "got"
    BY <1>4 DEF StatusAnswered
  <2>4. flow[f].kind \notin {"none", "attach", "write"}
    BY <1>1, <2>3, FlowFacts DEF Shape, StatusChecks
  <2>5. Claims(flow[f], page, link, inbox, mfg)
    BY <2>2, <2>4 DEF KnownInv, AloneInv, Alone, Running, Claim
  <2>6. ReadOf(flow[f], Seen(f), mfg[link.board])
    BY <2>1, <2>3, <2>4, <2>5 DEF Claims, Reads, Seen
  <2>7. Early(flow[f]) \/ flow[f].dev = page.device
    BY <2>3, <2>5 DEF Claims, Early, Chosen, StatusChecks
  <2> QED BY <2>1, <2>6, <2>7 DEF ReadOf
<1>5. ASSUME SameReading \/ (\E f \in Flows : StartWrite(f))
      PROVE  mfg'[link'.board].id \in {Blank, page'.detected, page'.device}
  <2>1. link' = link /\ page'.detected = page.detected /\ page'.device = page.device
    BY <1>1, <1>5 DEF SameReading, StartWrite, Pages
  <2>2. mfg[link.board].id \in {Blank, page.detected, page.device} /\ link.board \in Boards
    BY <1>1, <2>1 DEF KnownInv, ReadRight, Links
  <2>3. CASE mfg' # mfg
    <3>1. PICK f \in Flows :
             /\ MyTurn(f) /\ flow[f].valid
             /\ mfg' = [mfg EXCEPT ![link.board] =
                          Executed(mfg[link.board], flow[f].cmd, flow[f].dev)]
                \/ mfg' = [mfg EXCEPT ![link.board] = mfg[link.board]]
      BY <2>3, OnlyLinesWrite
    <3>2. flow[f].kind \notin {"none", "attach"}
      BY <1>1, <3>1, FlowFacts DEF Shape, MyTurn, StatusChecks
    <3>3. Claim(f)
      BY <1>2, <2>1, <3>2 DEF Running
    <3>4. Executed(mfg[link.board], flow[f].cmd, flow[f].dev).id
             \in {mfg[link.board].id, Blank, page.device}
      BY <1>1, <2>2, <3>1, <3>3, AloneWrites
    <3>5. mfg'[link.board].id \in {mfg[link.board].id, Blank, page.device}
      BY <1>1, <2>2, <3>1, <3>4 DEF Memory
    <3> QED BY <2>1, <2>2, <3>5
  <2>4. CASE mfg' = mfg
    BY <2>1, <2>2, <2>4
  <2> QED BY <2>3, <2>4
<1> QED BY <1>1, <1>3, <1>4, <1>5, ReadingStep

-----------------------------------------------------------------------------
(* The theorems.                                                            *)

LEMMA AloneStep ==
    ASSUME IInv, KnownInv, Next \/ UNCHANGED vars
    PROVE  AloneInv'
<1>1. Good /\ Memory
  BY GoodInvariant
<1>2. SUFFICES ASSUME NEW f \in Flows, Alone(f)' PROVE Claim(f)'
  BY DEF AloneInv
<1>3. f \in Running(flow') /\ flow'[f].kind # "none"
  BY <1>2 DEF Alone, Running
<1>4. CASE f \notin Running(flow)
  BY <1>1, <1>3, <1>4, BegunClaims DEF KnownInv
<1>5. CASE f \in Running(flow)
  <2>1. Alone(f) /\ Claim(f)
    BY <1>1, <1>2, <1>5, WasAlone DEF KnownInv, AloneInv
  <2>2. page.busy
    BY <1>1, <2>1, AloneFacts
  <2>3. ASSUME NEW g \in Flows, FlowStep(g) PROVE Claim(f)'
    <3>1. Acts(f)
      BY <1>1, <1>3, <1>5, <2>1 DEF Acts
    <3> QED BY <1>1, <1>2, <2>1, <2>3, <3>1, OwnClaims, OthersClaims
  <2>4. CASE Outside
    BY <1>1, <2>1, <2>4, OutsideClaims
  <2>5. CASE UserStep /\ ~Outside
    BY <2>2, <2>5 DEF UserStep, Outside, StartWrite, StartWizardLink, StartAttach
  <2> QED BY <2>3, <2>4, <2>5 DEF Next, Outside
<1> QED BY <1>4, <1>5

\* A flow that has the page to itself (none has taken it from the flow since) knows
\* the board: startWrite and autoProvisionConnected of provisioning.js go by what
\* they were answered on the link they hold.
THEOREM KnownInvariance == Spec => []KnownInv
<1>1. Init => KnownInv
  BY CalmNoFlow DEF Init, KnownInv, AloneInv, ReadAlone, ReadRight, Alone, Running, NoLink
<1>2. IInv /\ KnownInv /\ [Next]_vars => KnownInv'
  BY AloneStep, ReadAloneStep, ReadRightStep DEF KnownInv
<1> QED BY <1>1, <1>2, Invariance, PTL DEF Spec

\* When "succeeded" is about to be reported by a flow that has the page to itself and
\* went by its own answers, the board holds the identity that it is reported for.
THEOREM SuccessEarned == Spec => []SuccessIsEarned
<1>1. IInv /\ KnownInv => SuccessIsEarned
  <2> SUFFICES ASSUME IInv, KnownInv, NEW f \in Flows \ loose,
                      flow[f].at = "script", flow[f].cmd = Reboot, flow[f].valid, ~flow[f].misled
               PROVE  mfg[link.board].id = flow[f].dev /\ page.device = flow[f].dev
    BY DEF SuccessIsEarned
  <2>1. Good /\ Shape(flow[f]) /\ flow[f] \in FlowRecords
    BY GoodInvariant, FlowFacts
  <2>2. Alone(f)
    BY <2>1 DEF Alone, Running, Shape
  <2>3. Claims(flow[f], page, link, inbox, mfg) /\ link.board # None
    BY <2>1, <2>2 DEF KnownInv, AloneInv, Claim, Good, Acks
  <2>4. flow[f].io = "send"
    BY <2>1 DEF Shape, FlowRecords
  <2>5. Reboot # Erase
    BY Numbers
  <2>6. Written(mfg[link.board], flow[f].dev, Reboot)
    BY <2>3, <2>4, <2>5 DEF Claims, Made
  <2> QED BY <2>3, <2>6 DEF Claims, Chosen, Written
<1> QED BY <1>1, Invariance, KnownInvariance, PTL

\* "verified" is reported by a flow that has the page to itself only for the device
\* whose identity the board on the line holds, unless the wizard was without one of
\* the two SMSNs.
THEOREM VerifiedTrue == Spec => VerifiedIsTrue
<1>1. IInv /\ KnownInv /\ [Next]_vars =>
        [\A f \in Flows \ loose :
            /\ flow[f].at \in {"status", "checking"} /\ flow'[f].at = "closing"
            /\ reported' = Told(page.device, "verified")
            => \/ mfg[link.board].id = page.device
               \/ flow[f].kind = "verify" /\ ~Comparable(Seen(f))]_vars
  <2> SUFFICES ASSUME IInv, KnownInv, Next, NEW f \in Flows \ loose,
                      flow[f].at \in {"status", "checking"}, flow'[f].at = "closing",
                      reported' = Told(page.device, "verified"),
                      ~(flow[f].kind = "verify" /\ ~Comparable(Seen(f)))
               PROVE  mfg[link.board].id = page.device
    OBVIOUS
  <2>1. Good /\ Shape(flow[f]) /\ flow[f] \in FlowRecords /\ flow \in [Flows -> FlowRecords] /\ page \in Pages
    BY GoodInvariant, FlowFacts DEF Good, World, Typed
  <2>2. Alone(f)
    BY <2>1 DEF Alone, Running, Shape
  <2>3. Claims(flow[f], page, link, inbox, mfg)
    BY <2>2 DEF KnownInv, AloneInv, Claim
  <2>4. FlowStep(f)
    <3>1. page.busy
      BY <2>1, <2>2, AloneFacts
    <3>2. ~Outside
      BY <2>1, OutsideStages
    <3>3. ASSUME NEW g \in Flows, g # f, FlowStep(g) PROVE FALSE
      <4>1. Linked(g) \/ LinkFails(g)
        BY <2>1, <2>2, <3>3, OnlyAttached
      <4> QED BY <2>1, <3>3, <4>1, OthersStages
    <3> QED BY <3>1, <3>2, <3>3 DEF Next, UserStep, Outside, StartWrite, StartWizardLink, StartAttach
  <2>5. StatusAnswered(f) /\ Seen(f) = page.device
    <3>1. Good'
      BY GoodInvariant, GoodStep
    <3> QED BY <2>1, <2>4, <3>1, OnlyAnswersVerify DEF Vouched
  <2>6. /\ flow[f].at \in StatusChecks /\ flow[f].io = "wait" /\ flow[f].reply = "got"
        /\ flow[f].kind # "write"
    BY <2>1, <2>5 DEF StatusAnswered, Shape, StatusChecks
  <2>7. ReadOf(flow[f], Seen(f), mfg[link.board])
    BY <2>3, <2>6 DEF Claims, Reads, Seen
  <2>8. page.device \notin {Blank, Nameless}
    BY <2>1, BoardsOK DEF Pages
  <2> QED BY <2>5, <2>7, <2>8 DEF ReadOf
<1> QED BY <1>1, Invariance, KnownInvariance, PTL DEF Spec, VerifiedIsTrue

\* A board that a flow alone on the page read on its link loses the identity of another
\* device only if the box was ticked or an SMSN was missing, and automatic setup erases blank boards only.
THEOREM ErasesAgreed == Spec => []ErasesOnlyAsAgreed
<1>1. IInv /\ KnownInv => ErasesOnlyAsAgreed
  <2> SUFFICES ASSUME IInv, KnownInv, NEW f \in Flows \ loose, Erasing(f)
               PROVE  /\ flow[f].kind = "write" /\ flow[f].same
                            => mfg[link.board].id \in {Blank, flow[f].dev}
                      /\ flow[f].kind = "auto" => mfg[link.board].id = Blank
    BY DEF ErasesOnlyAsAgreed
  <2>1. Good /\ Shape(flow[f])
    BY GoodInvariant, FlowFacts
  <2>2. flow[f].at = "script" /\ flow[f].cmd = Erase /\ flow[f].valid
    BY DEF Erasing
  <2>3. Alone(f)
    BY <2>1, <2>2 DEF Alone, Running, Shape
  <2>4. Claims(flow[f], page, link, inbox, mfg) /\ link.board # None
    BY <2>1, <2>2, <2>3 DEF KnownInv, AloneInv, Claim, Good, Acks
  <2>5. flow[f].dev = page.device
    BY <2>2, <2>4 DEF Claims, Chosen
  <2>6. CASE flow[f].kind = "write"
    BY <2>2, <2>4, <2>5, <2>6 DEF Claims, Agreed
  <2>7. CASE flow[f].kind = "auto"
    BY <2>2, <2>4, <2>7 DEF Claims, Reads
  <2> QED BY <2>6, <2>7
<1> QED BY <1>1, Invariance, KnownInvariance, PTL
=============================================================================
