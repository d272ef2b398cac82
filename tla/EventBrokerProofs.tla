--------------------------- MODULE EventBrokerProofs ---------------------------
(***************************************************************************)
(* What EventBroker guarantees for any publishers, pages, devices and      *)
(* sizes, and any number of events, restarts and broken connections.       *)
(*                                                                         *)
(* An event travels to a page through the replay or the queue and the      *)
(* wire, unless a publisher has still to put it.  InLine says in which     *)
(* order events travel, Behind how they compare with what the page has     *)
(* rendered, and Complete that none is missing; the three hold each other  *)
(* up, because a page's cursor stands for what it has rendered.            *)
(***************************************************************************)
EXTENDS EventBroker, TLAPS

-----------------------------------------------------------------------------
(* The inductive invariant.                                                 *)

\* The events publish() calls have still to put into the queue of page v, and
\* all that are on their way to it.
PendingIds(v) == {pub[p].id : p \in {p \in Publishers : v \in Waiting(pub[p])}}
OnWay(v) == Items(wire[v]) \cup Items(replay[v]) \cup Items(queue[v]) \cup PendingIds(v)

\* A publish() call serves one listener with a full queue at a time, and is over
\* when nobody waits; no two have the same event.
Proper(c) ==
    /\ Waiting(c) = {} => c = Done
    /\ \A v, w \in c.full \cup c.again : v = w
    /\ c.full = {} \/ c.again = {}
    /\ c.to \cap (c.full \cup c.again) = {}

CallsAgree ==
    /\ Len(log) <= total
    /\ \A p \in Publishers : Proper(pub[p]) /\ (pub[p] # Done => pub[p].id \in Published)
    /\ \A p, q \in Publishers : pub[p] # Done /\ pub[q].id = pub[p].id => q = p

\* Nothing travels on a stream that is closed.
Idle(v) ==
    stream[v] = "closed" =>
        replay[v] = <<>> /\ queue[v] = <<>> /\ wire[v] = <<>> /\ PendingIds(v) = {}

\* Event y comes after event x: it is another one, and greater unless overtaken.
Follows(P, x, y) == x < y \/ (x > y /\ y \in P)
AllFollow(P, S, T) == \A x \in S, y \in T : Follows(P, x, y)
Sorted(P, s) == \A m, n \in DOMAIN s : m < n => Follows(P, s[m], s[n])

\* The wire w goes before the replay r, that before the queue q, and the queue
\* before the events C that are still to be put.
Line(P, w, r, q, C) ==
    /\ Sorted(P, w) /\ Sorted(P, r) /\ Sorted(P, q)
    /\ AllFollow(P, Items(w), Items(r) \cup Items(q) \cup C)
    /\ AllFollow(P, Items(r), Items(q) \cup C)
    /\ AllFollow(P, Items(q), C)

InLine(v) == Line(passed[v], wire[v], replay[v], queue[v], PendingIds(v))

\* The page rendered event shown[v][m] after a greater one of an earlier process.
Reset(v, m) == \E k \in 1..m : shown[v][k].epoch < shown[v][m].epoch /\ shown[v][k].id > shown[v][m].id

\* How event y compares with those the page has rendered of this process.
NotYet(v, y) ==
    \A m \in DOMAIN shown[v] : shown[v][m].epoch = epoch =>
        \/ shown[v][m].id < y
        \/ shown[v][m].id > y /\ (y \in passed[v] \/ StaleCursor(v, y))
        \/ shown[v][m].id = y /\ Reset(v, m)

Behind(v) == \A y \in OnWay(v) : NotYet(v, y)

\* What the page knows of what it has rendered.
Rendered(v) ==
    /\ \A m \in DOMAIN shown[v] :
          /\ shown[v][m].id <= cursor[v] /\ shown[v][m].epoch <= epoch
          /\ shown[v][m].epoch = epoch => shown[v][m].id \in Published
    /\ \A m, n \in DOMAIN shown[v] : m < n => shown[v][m].epoch <= shown[v][n].epoch
    /\ cursor[v] # 0 => \E m \in DOMAIN shown[v] : shown[v][m].id = cursor[v]

\* No event of the selected device is missing, but for the four reasons; a page
\* without a stream will ask for what is beyond its cursor.
Complete(v) ==
    \A i \in Published : Visible(v, i) =>
        i \in ShownIds(v) \cup OnWay(v) \/ Excused(v, i) \/ (stream[v] = "closed" /\ i > cursor[v])

\* The two other properties, page by page.
RepeatedAfterReset(v) ==
    \A m, n \in DOMAIN shown[v] : m < n /\ shown[v][m] = shown[v][n] => Reset(v, m)

RenderedInOrder(v) ==
    \A m, n \in DOMAIN shown[v] :
        m < n /\ shown[v][m].epoch = epoch /\ shown[v][n].epoch = epoch /\ shown[v][m].id > shown[v][n].id
        => shown[v][n].id \in passed[v] \/ StaleCursor(v, shown[v][n].id)

PageInv(v) ==
    /\ Idle(v) /\ InLine(v) /\ Behind(v) /\ Rendered(v) /\ Complete(v)
    /\ RepeatedAfterReset(v) /\ RenderedInOrder(v)

IInv == TypeOK /\ CallsAgree /\ \A v \in Viewers : PageInv(v)


-----------------------------------------------------------------------------
(* Sequences of events, and the lines they stand in.                        *)

\* An event put at the end.
LEMMA PutLast ==
    ASSUME NEW P, NEW s \in Seq(Nat), NEW x \in Nat
    PROVE  /\ Append(s, x) \in Seq(Nat)
           /\ Items(Append(s, x)) = Items(s) \cup {x}
           /\ Sorted(P, s) /\ AllFollow(P, Items(s), {x}) => Sorted(P, Append(s, x))
<1> DEFINE t == Append(s, x)
<1>1. t \in Seq(Nat) /\ Len(t) = Len(s) + 1 /\ Len(s) \in Nat /\ t[Len(s) + 1] = x
      /\ \A n \in 1..Len(s) : t[n] = s[n]
  OBVIOUS
<1>2. DOMAIN s = 1..Len(s) /\ DOMAIN t = 1..Len(s) + 1
  BY <1>1
<1>3. Items(t) = Items(s) \cup {x}
  <2> HIDE DEF t
  <2>1. \A n \in DOMAIN t : n \in DOMAIN s \/ n = Len(s) + 1
    BY <1>1, <1>2
  <2>2. \A n \in DOMAIN s : n \in DOMAIN t /\ t[n] = s[n]
    BY <1>1, <1>2
  <2>3. Len(s) + 1 \in DOMAIN t /\ t[Len(s) + 1] = x
    BY <1>1, <1>2
  <2> QED BY <2>1, <2>2, <2>3 DEF Items
<1>4. ASSUME Sorted(P, s), AllFollow(P, Items(s), {x}), NEW m \in DOMAIN t, NEW n \in DOMAIN t, m < n
      PROVE  Follows(P, t[m], t[n])
  <2> HIDE DEF t
  <2>1. m \in DOMAIN s /\ t[m] = s[m] /\ s[m] \in Items(s)
    BY <1>1, <1>2, <1>4 DEF Items
  <2>2. CASE n \in DOMAIN s
    BY <2>1, <2>2, <1>1, <1>2, <1>4 DEF Sorted
  <2>3. CASE n = Len(s) + 1
    BY <2>1, <2>3, <1>1, <1>4 DEF AllFollow
  <2> QED BY <2>2, <2>3, <1>1, <1>2
<1> QED BY <1>1, <1>3, <1>4 DEF Sorted

\* The first event taken away.
LEMMA TakeFirst ==
    ASSUME NEW P, NEW s \in Seq(Nat), s # <<>>
    PROVE  /\ Head(s) \in Nat /\ Tail(s) \in Seq(Nat)
           /\ Items(s) = Items(Tail(s)) \cup {Head(s)}
           /\ Sorted(P, s) => Sorted(P, Tail(s)) /\ AllFollow(P, {Head(s)}, Items(Tail(s)))
<1> DEFINE t == Tail(s)
<1>1. t \in Seq(Nat) /\ Head(s) = s[1] /\ Head(s) \in Nat /\ Len(s) \in Nat /\ Len(s) >= 1
      /\ Len(t) = Len(s) - 1 /\ \A n \in 1..Len(s) - 1 : t[n] = s[n + 1]
  OBVIOUS
<1>2. DOMAIN s = 1..Len(s) /\ DOMAIN t = 1..Len(s) - 1
  BY <1>1
<1> HIDE DEF t
<1>3. \A n \in DOMAIN t : n + 1 \in DOMAIN s /\ n + 1 > 1 /\ n \in Nat /\ t[n] = s[n + 1]
  BY <1>1, <1>2
<1>4. \A n \in DOMAIN s : n = 1 \/ \E m \in DOMAIN t : t[m] = s[n]
  <2> SUFFICES ASSUME NEW n \in DOMAIN s, n # 1 PROVE \E m \in DOMAIN t : t[m] = s[n]
    OBVIOUS
  <2>1. n \in Nat /\ n - 1 \in 1..Len(s) - 1 /\ (n - 1) + 1 = n
    BY <1>1, <1>2
  <2>2. t[n - 1] = s[(n - 1) + 1]
    BY <2>1, <1>1
  <2> QED BY <2>1, <2>2, <1>2
<1>5. 1 \in DOMAIN s
  BY <1>1, <1>2
<1>6. Items(s) = Items(t) \cup {Head(s)}
  <2>1. \A x \in Items(s) : x \in Items(t) \cup {Head(s)}
    <3> SUFFICES ASSUME NEW n \in DOMAIN s PROVE s[n] \in Items(t) \/ s[n] = Head(s)
      BY DEF Items
    <3>1. CASE n = 1
      BY <3>1, <1>1
    <3>2. CASE \E m \in DOMAIN t : t[m] = s[n]
      BY <3>2 DEF Items
    <3> QED BY <3>1, <3>2, <1>4
  <2>2. \A x \in Items(t) \cup {Head(s)} : x \in Items(s)
    BY <1>1, <1>3, <1>5 DEF Items
  <2> QED BY <2>1, <2>2
<1>7. ASSUME Sorted(P, s) PROVE Sorted(P, t)
  BY <1>3, <1>7 DEF Sorted
<1>8. ASSUME Sorted(P, s) PROVE AllFollow(P, {Head(s)}, Items(t))
  BY <1>1, <1>3, <1>5, <1>8 DEF Sorted, AllFollow, Items
<1> QED BY <1>1, <1>6, <1>7, <1>8 DEF t

\* More may be known to be overtaken, and less still to be put.
LEMMA LineGrows ==
    ASSUME NEW P, NEW Q, P \subseteq Q, NEW C, NEW D, D \subseteq C,
           NEW w, NEW r, NEW q, Line(P, w, r, q, C)
    PROVE  Line(Q, w, r, q, D)
BY DEF Line, Sorted, AllFollow, Follows

\* An event is put into the queue: those still to be put after it are other ones,
\* and the lower ones among them are overtaken.
LEMMA LinePut ==
    ASSUME NEW P, NEW Q, P \subseteq Q, NEW C \in SUBSET Nat, NEW D, NEW x \in C, D \subseteq C \ {x},
           \A y \in D : y < x => y \in Q,
           NEW w, NEW r, NEW q \in Seq(Nat), Line(P, w, r, q, C)
    PROVE  Line(Q, w, r, Append(q, x), D)
<1>1. Line(Q, w, r, q, C)
  BY LineGrows
<1>2. x \in Nat /\ AllFollow(Q, Items(q), {x}) /\ Sorted(Q, q)
  BY <1>1 DEF Line, AllFollow
<1>3. Items(Append(q, x)) = Items(q) \cup {x} /\ Sorted(Q, Append(q, x))
  BY <1>2, PutLast
<1>4. \A y \in D : Follows(Q, x, y)
  BY <1>2 DEF Follows
<1> QED BY <1>1, <1>3, <1>4 DEF Line, AllFollow

\* The queue loses its oldest event.
LEMMA LineEvict ==
    ASSUME NEW P, NEW C, NEW w, NEW r, NEW q \in Seq(Nat), q # <<>>, Line(P, w, r, q, C)
    PROVE  Line(P, w, r, Tail(q), C)
<1>1. Items(q) = Items(Tail(q)) \cup {Head(q)} /\ Sorted(P, Tail(q))
  BY TakeFirst DEF Line
<1> QED BY <1>1 DEF Line, AllFollow

\* The first event of the replay goes onto the wire, or is passed over.
LEMMA LineHistory ==
    ASSUME NEW P, NEW C, NEW w \in Seq(Nat), NEW r \in Seq(Nat), NEW q, r # <<>>, Line(P, w, r, q, C)
    PROVE  Line(P, w, Tail(r), q, C) /\ Line(P, Append(w, Head(r)), Tail(r), q, C)
<1>1. /\ Items(r) = Items(Tail(r)) \cup {Head(r)} /\ Sorted(P, Tail(r))
      /\ AllFollow(P, {Head(r)}, Items(Tail(r))) /\ Head(r) \in Nat
  BY TakeFirst DEF Line
<1>2. Sorted(P, w) /\ AllFollow(P, Items(w), {Head(r)})
  BY <1>1 DEF Line, AllFollow
<1>3. Items(Append(w, Head(r))) = Items(w) \cup {Head(r)} /\ Sorted(P, Append(w, Head(r)))
  BY <1>1, <1>2, PutLast
<1> QED BY <1>1, <1>3 DEF Line, AllFollow

\* The first event of the queue goes onto the wire, or is passed over.
LEMMA LineLive ==
    ASSUME NEW P, NEW C, NEW w \in Seq(Nat), NEW q \in Seq(Nat), q # <<>>, Line(P, w, <<>>, q, C)
    PROVE  Line(P, w, <<>>, Tail(q), C) /\ Line(P, Append(w, Head(q)), <<>>, Tail(q), C)
<1>1. /\ Items(q) = Items(Tail(q)) \cup {Head(q)} /\ Sorted(P, Tail(q))
      /\ AllFollow(P, {Head(q)}, Items(Tail(q))) /\ Head(q) \in Nat
  BY TakeFirst DEF Line
<1>2. Sorted(P, w) /\ AllFollow(P, Items(w), {Head(q)})
  BY <1>1 DEF Line, AllFollow
<1>3. Items(Append(w, Head(q))) = Items(w) \cup {Head(q)} /\ Sorted(P, Append(w, Head(q)))
  BY <1>1, <1>2, PutLast
<1>4. Items(<<>>) = {}
  BY DEF Items
<1> QED BY <1>1, <1>3, <1>4 DEF Line, AllFollow

\* The first event of the wire arrives; every other one comes after it.
LEMMA LineReceive ==
    ASSUME NEW P, NEW C, NEW w \in Seq(Nat), NEW r, NEW q, w # <<>>, Line(P, w, r, q, C)
    PROVE  /\ Line(P, Tail(w), r, q, C)
           /\ AllFollow(P, {Head(w)}, Items(Tail(w)) \cup Items(r) \cup Items(q) \cup C)
<1>1. /\ Items(w) = Items(Tail(w)) \cup {Head(w)} /\ Sorted(P, Tail(w))
      /\ AllFollow(P, {Head(w)}, Items(Tail(w)))
  BY TakeFirst DEF Line
<1> QED BY <1>1 DEF Line, AllFollow

\* A new event is greater than all others.
LEMMA LinePublish ==
    ASSUME NEW P, NEW C, NEW w, NEW r, NEW q, NEW x, Line(P, w, r, q, C),
           \A y \in Items(w) \cup Items(r) \cup Items(q) \cup C : y < x
    PROVE  Line(P, w, r, q, C \cup {x})
BY DEF Line, AllFollow, Follows

\* A line in which only a replay stands.
LEMMA LineOpen ==
    ASSUME NEW P, NEW r, Sorted(P, r)
    PROVE  Line(P, <<>>, r, <<>>, {})
<1>1. Items(<<>>) = {} /\ Sorted(P, <<>>)
  BY DEF Items, Sorted
<1> QED BY <1>1 DEF Line, AllFollow

-----------------------------------------------------------------------------
(* What the types say, and the publish() calls.                             *)

LEMMA Facts ==
    ASSUME TypeOK
    PROVE  /\ Len(log) \in Nat /\ Published \subseteq Ids /\ Published \subseteq Nat
           /\ log \in Seq(Devices \cup {NoDevice}) /\ Len(log) <= MaxEvents
           /\ pub \in [Publishers -> Calls]
           /\ replay \in [Viewers -> Seq(Published)] /\ queue \in [Viewers -> Seq(Published)]
           /\ wire \in [Viewers -> Seq(Published)]
           /\ \A v \in Viewers : replay[v] \in Seq(Nat) /\ queue[v] \in Seq(Nat) /\ wire[v] \in Seq(Nat)
           /\ \A v \in Viewers : Items(replay[v]) \cup Items(queue[v]) \cup Items(wire[v]) \subseteq Published
           /\ QueueSize \in Nat /\ QueueSize > 0 /\ Backlog \in Nat /\ MaxEvents \in Nat /\ MaxRestarts \in Nat
<1>1. log \in Seq(Devices \cup {NoDevice}) /\ Len(log) <= MaxEvents /\ pub \in [Publishers -> Calls]
      /\ replay \in [Viewers -> Seq(Published)] /\ queue \in [Viewers -> Seq(Published)]
      /\ wire \in [Viewers -> Seq(Published)]
  BY DEF TypeOK
<1>2. Len(log) \in Nat
  BY <1>1
<1>3. QueueSize \in Nat /\ QueueSize > 0 /\ Backlog \in Nat /\ MaxEvents \in Nat /\ MaxRestarts \in Nat
  BY ParametersOK
<1>4. Published \subseteq Ids /\ Published \subseteq Nat
  BY <1>1, <1>2, <1>3 DEF Published, Ids
<1>5. \A s \in Seq(Published) : s \in Seq(Nat) /\ Items(s) \subseteq Published
  <2> SUFFICES ASSUME NEW s \in Seq(Published) PROVE s \in Seq(Nat) /\ Items(s) \subseteq Published
    OBVIOUS
  <2>1. s \in [1..Len(s) -> Published] /\ Len(s) \in Nat
    OBVIOUS
  <2>2. s \in [1..Len(s) -> Nat]
    BY <2>1, <1>4
  <2>3. Items(s) \subseteq Published
    BY <2>1 DEF Items
  <2> QED BY <2>1, <2>2, <2>3
<1>6. \A v \in Viewers : replay[v] \in Seq(Published) /\ queue[v] \in Seq(Published) /\ wire[v] \in Seq(Published)
  BY <1>1
<1> QED BY <1>1, <1>2, <1>3, <1>4, <1>5, <1>6

\* A publish() call in which nobody waits is over.
LEMMA Trimmed ==
    ASSUME NEW c \in Calls
    PROVE  /\ Trim(c) \in Calls /\ Waiting(Trim(c)) = Waiting(c)
           /\ Waiting(c) = {} => Trim(c) = Done
           /\ Waiting(c) # {} => Trim(c) = c
           /\ Done \in Calls /\ Waiting(Done) = {} /\ Proper(Done) /\ Done.id = 0
<1>1. 0 \in 0..MaxEvents
  BY ParametersOK
<1>2. Done \in Calls /\ Waiting(Done) = {} /\ Done.id = 0 /\ Proper(Done)
  BY <1>1 DEF Done, Calls, Waiting, Proper
<1> QED BY <1>2 DEF Trim

\* The events still to be put are published, and what waits belongs to a call.
LEMMA PendingFacts ==
    ASSUME TypeOK, CallsAgree, NEW v \in Viewers
    PROVE  /\ PendingIds(v) \subseteq Published
           /\ \A p \in Publishers : v \in Waiting(pub[p]) => pub[p] # Done /\ pub[p].id \in PendingIds(v)
<1>1. \A p \in Publishers : v \in Waiting(pub[p]) => pub[p] # Done
  BY DEF Waiting, Done
<1> QED BY <1>1 DEF PendingIds, CallsAgree

\* A call goes on: another listener is served, or the same one in another way.
LEMMA CallGoesOn ==
    ASSUME TypeOK, CallsAgree, UNCHANGED <<log, total>>,
           NEW p \in Publishers, pub[p] # Done, NEW c \in Calls, c.id = pub[p].id,
           Waiting(c) \subseteq Waiting(pub[p]),
           \A v, w \in c.full \cup c.again : v = w,
           c.full = {} \/ c.again = {},
           c.to \cap (c.full \cup c.again) = {},
           pub' = [pub EXCEPT ![p] = Trim(c)]
    PROVE  /\ pub' \in [Publishers -> Calls] /\ CallsAgree'
           /\ \A w \in Viewers : (w \in Waiting(c) <=> w \in Waiting(pub[p])) => PendingIds(w)' = PendingIds(w)
           /\ \A w \in Viewers : w \notin Waiting(c) =>
                 /\ PendingIds(w)' \subseteq PendingIds(w) \ {pub[p].id}
                 /\ PendingIds(w) \subseteq PendingIds(w)' \cup {pub[p].id}
<1> DEFINE t == Trim(c)
<1>1. /\ t \in Calls /\ Waiting(t) = Waiting(c)
      /\ t = Done \/ t = c
      /\ Waiting(c) = {} => t = Done
      /\ Done \in Calls /\ Proper(Done) /\ Waiting(Done) = {} /\ Done.id = 0
  BY Trimmed
<1>2. Proper(t)
  <2>1. CASE Waiting(c) = {}
    BY <2>1, <1>1
  <2>2. CASE Waiting(c) # {}
    <3>1. t = c
      BY <2>2, Trimmed
    <3> QED BY <3>1, <2>2 DEF Proper
  <2> QED BY <2>1, <2>2
<1> HIDE DEF t
<1>3. pub \in [Publishers -> Calls]
  BY Facts
<1>4. pub' = [pub EXCEPT ![p] = t]
  BY DEF t
<1>5. pub' \in [Publishers -> Calls] /\ pub'[p] = t /\ \A q \in Publishers : q # p => pub'[q] = pub[q]
  BY <1>1, <1>3, <1>4
<1>6. CallsAgree'
  <2>1. (Len(log) <= total)' /\ log' = log /\ Published' = Published
    BY DEF CallsAgree, Published
  <2>2. pub[p].id \in Published /\ pub[p].id # 0
    BY Facts DEF CallsAgree, Published
  <2>3. \A q \in Publishers : Proper(pub'[q]) /\ (pub'[q] # Done => pub'[q].id \in Published)
    <3> SUFFICES ASSUME NEW q \in Publishers
                 PROVE  Proper(pub'[q]) /\ (pub'[q] # Done => pub'[q].id \in Published)
      OBVIOUS
    <3>1. CASE q = p
      BY <3>1, <1>1, <1>2, <1>5, <2>2
    <3>2. CASE q # p
      BY <3>2, <1>5 DEF CallsAgree
    <3> QED BY <3>1, <3>2
  <2>4. \A q \in Publishers : pub'[q] # Done => pub[q] # Done /\ pub'[q].id = pub[q].id
    BY <1>1, <1>5
  <2>5. \A q \in Publishers : pub'[q].id = pub[q].id \/ pub'[q].id = 0
    BY <1>1, <1>5
  <2>6. \A q \in Publishers : pub[q] # Done => pub[q].id # 0
    BY Facts DEF CallsAgree, Published
  <2>7. \A q, r \in Publishers : pub[q] # Done /\ pub[r].id = pub[q].id => r = q
    BY DEF CallsAgree
  <2>8. \A q, r \in Publishers : pub'[q] # Done /\ pub'[r].id = pub'[q].id => r = q
    BY <2>4, <2>5, <2>6, <2>7
  <2> QED BY <2>1, <2>3, <2>8 DEF CallsAgree, Proper, Done, Waiting
<1>7. ASSUME NEW w \in Viewers, w \in Waiting(c) <=> w \in Waiting(pub[p])
      PROVE  PendingIds(w)' = PendingIds(w)
  <2>1. \A q \in Publishers : w \in Waiting(pub'[q]) <=> w \in Waiting(pub[q])
    BY <1>1, <1>5, <1>7
  <2>2. \A q \in Publishers : w \in Waiting(pub'[q]) => pub'[q].id = pub[q].id
    BY <1>1, <1>5
  <2>3. PendingIds(w)' = {pub'[q].id : q \in {q \in Publishers : w \in Waiting(pub'[q])}}
    BY DEF PendingIds, Waiting
  <2> QED BY <2>1, <2>2, <2>3 DEF PendingIds
<1>8. ASSUME NEW w \in Viewers, w \notin Waiting(c)
      PROVE  /\ PendingIds(w)' \subseteq PendingIds(w) \ {pub[p].id}
             /\ PendingIds(w) \subseteq PendingIds(w)' \cup {pub[p].id}
  <2>1. w \notin Waiting(pub'[p]) /\ \A q \in Publishers : q # p => pub'[q] = pub[q]
    BY <1>1, <1>5, <1>8
  <2>2. PendingIds(w)' = {pub'[q].id : q \in {q \in Publishers : w \in Waiting(pub'[q])}}
    BY DEF PendingIds, Waiting
  <2>3. \A q \in Publishers : q # p => pub[q].id # pub[p].id
    BY DEF CallsAgree
  <2> QED BY <2>1, <2>2, <2>3 DEF PendingIds
<1> QED BY <1>5, <1>6, <1>7, <1>8

\* The stream of page v is over, and no call puts to it any more.
LEMMA CallsForget ==
    ASSUME TypeOK, CallsAgree, UNCHANGED <<log, total>>, NEW v \in Viewers, Forget(v)
    PROVE  /\ pub' \in [Publishers -> Calls] /\ CallsAgree' /\ PendingIds(v)' = {}
           /\ \A w \in Viewers : w # v => PendingIds(w)' = PendingIds(w)
<1> DEFINE c(p) == [pub[p] EXCEPT !.to = @ \ {v}, !.full = @ \ {v}, !.again = @ \ {v}]
<1>1. pub \in [Publishers -> Calls]
  BY Facts
<1>2. \A p \in Publishers : /\ c(p) \in Calls /\ c(p).id = pub[p].id
                            /\ c(p).to = pub[p].to \ {v} /\ c(p).full = pub[p].full \ {v}
                            /\ c(p).again = pub[p].again \ {v}
  BY <1>1 DEF Calls
<1>3. pub' = [p \in Publishers |-> Trim(c(p))]
  BY DEF Forget
<1> HIDE DEF c
<1>4. \A p \in Publishers : Waiting(c(p)) = Waiting(pub[p]) \ {v}
  BY <1>2 DEF Waiting
<1>5. \A p \in Publishers : /\ pub'[p] \in Calls /\ Waiting(pub'[p]) = Waiting(pub[p]) \ {v}
                            /\ pub'[p] = Done \/ (pub'[p] = c(p) /\ Waiting(c(p)) # {})
  BY <1>2, <1>3, <1>4, Trimmed
<1>6. pub' \in [Publishers -> Calls]
  BY <1>3, <1>5
<1>7. \A p \in Publishers : Waiting(pub[p]) # {} => pub[p] # Done
  BY DEF Waiting, Done
<1>8. \A p \in Publishers : pub'[p] # Done => pub[p] # Done /\ pub'[p].id = pub[p].id
  BY <1>2, <1>4, <1>5, <1>7
<1>9. CallsAgree'
  <2>1. (Len(log) <= total)' /\ Published' = Published
    BY DEF CallsAgree, Published
  <2>2. \A p \in Publishers : Proper(pub'[p])
    <3> SUFFICES ASSUME NEW p \in Publishers PROVE Proper(pub'[p])
      OBVIOUS
    <3>1. CASE pub'[p] = Done
      BY <3>1, <1>5, Trimmed
    <3>2. CASE pub'[p] = c(p) /\ Waiting(c(p)) # {}
      <4>1. Proper(pub[p])
        BY DEF CallsAgree
      <4> QED BY <3>2, <4>1, <1>2 DEF Proper
    <3> QED BY <3>1, <3>2, <1>5
  <2>3. \A p \in Publishers : pub'[p] # Done => pub'[p].id \in Published
    BY <1>8 DEF CallsAgree
  <2>4. Done.id = 0 /\ \A p \in Publishers : pub[p] # Done => pub[p].id # 0
    BY Facts DEF CallsAgree, Published, Done
  <2>5. \A p, q \in Publishers : pub'[p] # Done /\ pub'[q].id = pub'[p].id => q = p
    BY <1>8, <2>4 DEF CallsAgree
  <2> QED BY <2>1, <2>2, <2>3, <2>5 DEF CallsAgree, Proper, Done, Waiting
<1>10. \A w \in Viewers : PendingIds(w)' = {pub'[q].id : q \in {q \in Publishers : w \in Waiting(pub'[q])}}
  BY DEF PendingIds, Waiting
<1>11. PendingIds(v)' = {}
  BY <1>5, <1>10
<1>12. ASSUME NEW w \in Viewers, w # v PROVE PendingIds(w)' = PendingIds(w)
  <2>1. \A q \in Publishers : w \in Waiting(pub'[q]) <=> w \in Waiting(pub[q])
    BY <1>5, <1>12
  <2>2. \A q \in Publishers : w \in Waiting(pub'[q]) => pub'[q] # Done
    BY DEF Waiting, Done
  <2> QED BY <1>8, <1>10, <2>1, <2>2 DEF PendingIds
<1> QED BY <1>6, <1>9, <1>11, <1>12

\* No call goes on.
LEMMA CallsRest ==
    ASSUME CallsAgree, UNCHANGED <<log, pub, total>>
    PROVE  CallsAgree' /\ Published' = Published /\ \A w \in Viewers : PendingIds(w)' = PendingIds(w)
<1>1. CallsAgree'
  BY DEF CallsAgree, Proper, Published, Waiting, Done
<1>2. Published' = Published
  BY DEF Published
<1>3. \A w \in Viewers : PendingIds(w)' = PendingIds(w)
  BY DEF PendingIds, Waiting
<1> QED BY <1>1, <1>2, <1>3

-----------------------------------------------------------------------------
(* What a page has, kept by the steps that only move events on.             *)

\* What is known of a rendered event stays known when more is overtaken.
LEMMA NotYetKept ==
    ASSUME NEW v \in Viewers, NEW y, NotYet(v, y),
           epoch' = epoch, shown'[v] = shown[v], passed[v] \subseteq passed'[v]
    PROVE  NotYet(v, y)'
<1>1. \A i : StaleCursor(v, i)' <=> StaleCursor(v, i)
  BY DEF StaleCursor
<1>2. \A m : Reset(v, m)' <=> Reset(v, m)
  BY DEF Reset
<1> QED BY <1>1, <1>2 DEF NotYet

\* Events travel on: what leaves is dropped or is not for this page.
LEMMA TravelStep ==
    ASSUME NEW v \in Viewers, PageInv(v), epoch' = epoch, log' = log,
           shown'[v] = shown[v], cursor'[v] = cursor[v], selected'[v] = selected[v],
           stream'[v] = stream[v], lapsed'[v] = lapsed[v],
           passed[v] \subseteq passed'[v], dropped[v] \subseteq dropped'[v],
           OnWay(v)' \subseteq OnWay(v),
           \A i \in OnWay(v) : i \in OnWay(v)' \/ i \in dropped'[v] \/ ~Visible(v, i),
           Idle(v)', InLine(v)'
    PROVE  PageInv(v)'
<1>1. Behind(v)'
  BY NotYetKept DEF PageInv, Behind
<1>2. /\ \A i : StaleCursor(v, i)' <=> StaleCursor(v, i)
      /\ \A m : Reset(v, m)' <=> Reset(v, m)
      /\ ShownIds(v)' = ShownIds(v)
      /\ \A i : Visible(v, i)' <=> Visible(v, i)
      /\ Published' = Published
  BY DEF StaleCursor, Reset, ShownIds, Visible, Published
<1>3. Rendered(v)'
  BY <1>2 DEF PageInv, Rendered
<1>4. \A i : Excused(v, i) => Excused(v, i)'
  BY <1>2 DEF Excused
<1>5. \A i \in OnWay(v) : Visible(v, i) => i \in OnWay(v)' \/ Excused(v, i)'
  BY DEF Excused
<1>6. Complete(v)'
  <2>1. \A i \in Published : Visible(v, i) =>
           i \in ShownIds(v) \cup OnWay(v) \/ Excused(v, i) \/ (stream[v] = "closed" /\ i > cursor[v])
    BY DEF PageInv, Complete
  <2>2. \A i \in Published : Visible(v, i) =>
           i \in ShownIds(v) \cup OnWay(v)' \/ Excused(v, i)' \/ (stream[v] = "closed" /\ i > cursor[v])
    BY ONLY <2>1, <1>4, <1>5
  <2> QED BY <2>2, <1>2 DEF Complete
<1>7. RepeatedAfterReset(v)' /\ RenderedInOrder(v)'
  <2>1. RepeatedAfterReset(v) /\ RenderedInOrder(v)
    BY DEF PageInv
  <2>2. RepeatedAfterReset(v)'
    BY <2>1, <1>2 DEF RepeatedAfterReset
  <2>3. RenderedInOrder(v)'
    BY <2>1, <1>2 DEF RenderedInOrder
  <2> QED BY <2>2, <2>3
<1> QED BY <1>1, <1>3, <1>6, <1>7 DEF PageInv

\* The step of another page, or of a call that does not serve this one.
LEMMA Untouched ==
    ASSUME NEW v \in Viewers, PageInv(v), epoch' = epoch, log' = log,
           shown'[v] = shown[v], cursor'[v] = cursor[v], selected'[v] = selected[v],
           stream'[v] = stream[v], replay'[v] = replay[v], queue'[v] = queue[v], wire'[v] = wire[v],
           lapsed'[v] = lapsed[v], dropped'[v] = dropped[v], passed'[v] = passed[v],
           PendingIds(v)' = PendingIds(v)
    PROVE  PageInv(v)'
<1>1. OnWay(v)' = OnWay(v)
  BY DEF OnWay
<1>2. Idle(v)' /\ InLine(v)'
  BY DEF PageInv, Idle, InLine
<1> QED BY <1>1, <1>2, TravelStep

-----------------------------------------------------------------------------
(* The steps of a publish() call after the lock.                            *)

\* The event of call p reaches the queue of page v; the call goes on as c.
LEMMA ReachesStep ==
    ASSUME IInv, NEW p \in Publishers, NEW v \in Viewers, NEW c \in Calls,
           v \in Waiting(pub[p]), Reaches(p, v), v \notin Waiting(c),
           \A w \in Viewers : w # v => PendingIds(w)' = PendingIds(w),
           PendingIds(v)' \subseteq PendingIds(v) \ {pub[p].id},
           PendingIds(v) \subseteq PendingIds(v)' \cup {pub[p].id},
           UNCHANGED <<epoch, log, stream, replay, wire, page, lapsed, dropped>>
    PROVE  /\ \A w \in Viewers : PageInv(w)'
           /\ Len(queue[v]) < QueueSize => (\A w \in Viewers : Len(queue'[w]) <= QueueSize)
           /\ queue' \in [Viewers -> Seq(Published)] /\ passed' \in [Viewers -> SUBSET Ids]
<1> DEFINE x == pub[p].id
           overtaken == {i \in Ids : \E q \in Publishers :
                            v \in Waiting(pub[q]) /\ pub[q].id = i /\ i < pub[p].id}
<1>1. TypeOK /\ CallsAgree /\ PageInv(v) /\ queue \in [Viewers -> Seq(Published)]
      /\ passed \in [Viewers -> SUBSET Ids] /\ \A w \in Viewers : queue[w] \in Seq(Nat)
      /\ Published \subseteq Ids /\ Published \subseteq Nat /\ QueueSize \in Nat
  BY Facts DEF IInv, TypeOK
<1>2. x \in PendingIds(v) /\ PendingIds(v) \subseteq Published
  BY <1>1, PendingFacts
<1>3. queue' = [queue EXCEPT ![v] = Append(queue[v], x)]
      /\ passed' = [passed EXCEPT ![v] = passed[v] \cup overtaken]
  BY DEF Reaches
<1>4. overtaken \in SUBSET Ids /\ \A y \in PendingIds(v) : y < x => y \in overtaken
  BY <1>1, <1>2 DEF PendingIds
<1> HIDE DEF x, overtaken
<1>5. Append(queue[v], x) \in Seq(Published) /\ passed[v] \cup overtaken \in SUBSET Ids
  BY <1>1, <1>2, <1>4
<1>6. queue'[v] = Append(queue[v], x) /\ passed'[v] = passed[v] \cup overtaken
      /\ \A w \in Viewers : w # v => queue'[w] = queue[w] /\ passed'[w] = passed[w]
  BY <1>1, <1>3
<1>7. queue' \in [Viewers -> Seq(Published)] /\ passed' \in [Viewers -> SUBSET Ids]
  BY <1>1, <1>3, <1>5
<1>8. ASSUME Len(queue[v]) < QueueSize, NEW w \in Viewers PROVE Len(queue'[w]) <= QueueSize
  <2>1. Len(Append(queue[v], x)) = Len(queue[v]) + 1 /\ Len(queue[v]) \in Nat
    BY <1>1, <1>2
  <2>2. Len(queue[w]) <= QueueSize
    BY <1>1 DEF TypeOK
  <2>3. Len(Append(queue[v], x)) <= QueueSize
    BY <2>1, <1>1, <1>8
  <2> QED BY <2>2, <2>3, <1>6
<1>9. PageInv(v)'
  <2>1. InLine(v)'
    <3>1. Line(passed[v], wire[v], replay[v], queue[v], PendingIds(v))
      BY <1>1 DEF PageInv, InLine
    <3>2. /\ passed[v] \subseteq passed'[v] /\ PendingIds(v) \in SUBSET Nat
          /\ PendingIds(v)' \subseteq PendingIds(v) \ {x}
          /\ \A y \in PendingIds(v)' : y < x => y \in passed'[v]
      BY <1>1, <1>2, <1>4, <1>6 DEF x
    <3>3. queue[v] \in Seq(Nat)
      BY <1>1
    <3>4. Line(passed'[v], wire[v], replay[v], Append(queue[v], x), PendingIds(v)')
      BY ONLY <3>1, <3>2, <3>3, <1>2, LinePut
    <3> QED BY <3>4, <1>6 DEF InLine
  <2>2. Idle(v)'
    <3>1. stream[v] # "closed"
      BY <1>1, <1>2 DEF PageInv, Idle
    <3> QED BY <3>1 DEF Idle
  <2>3. Items(queue'[v]) = Items(queue[v]) \cup {x}
    <3>1. queue[v] \in Seq(Nat) /\ x \in Nat
      BY <1>1, <1>2
    <3> QED BY <3>1, <1>6, PutLast
  <2>4. OnWay(v)' = Items(wire[v]) \cup Items(replay[v]) \cup Items(queue'[v]) \cup PendingIds(v)'
    BY DEF OnWay
  <2>5. OnWay(v)' = OnWay(v)
    BY <2>3, <2>4, <1>2 DEF OnWay, x
  <2> QED BY <1>1, <1>6, <2>1, <2>2, <2>5, TravelStep DEF page
<1>10. ASSUME NEW w \in Viewers, w # v PROVE PageInv(w)'
  <2>1. PageInv(w)
    BY DEF IInv
  <2> QED BY <2>1, <1>6, <1>10, Untouched DEF page
<1> QED BY <1>7, <1>8, <1>9, <1>10

\* The types hold when only calls, queues and what is lost of them change.
LEMMA CallTypes ==
    ASSUME TypeOK, UNCHANGED <<epoch, log, stream, replay, wire, page, total, cuts, lapsed>>,
           pub' \in [Publishers -> Calls], queue' \in [Viewers -> Seq(Published)],
           \A w \in Viewers : Len(queue'[w]) <= QueueSize,
           passed' \in [Viewers -> SUBSET Ids], dropped' \in [Viewers -> SUBSET Ids]
    PROVE  TypeOK'
<1>1. Published' = Published
  BY DEF Published
<1> QED BY <1>1 DEF TypeOK, page

\* put_nowait.
LEMMA PutStep ==
    ASSUME IInv, NEW p \in Publishers, NEW v \in Viewers, Put(p, v)
    PROVE  IInv'
<1> DEFINE c == [pub[p] EXCEPT !.to = pub[p].to \ {v}]
<1>1. /\ TypeOK /\ CallsAgree /\ pub \in [Publishers -> Calls]
  BY Facts DEF IInv
<1>2. /\ c \in Calls /\ c.id = pub[p].id /\ c.to = pub[p].to \ {v}
      /\ c.full = pub[p].full /\ c.again = pub[p].again
  BY <1>1 DEF Calls
<1>3. /\ v \in pub[p].to /\ pub[p].full = {} /\ pub[p].again = {} /\ Len(queue[v]) < QueueSize
      /\ Reaches(p, v) /\ pub' = [pub EXCEPT ![p] = Trim(c)]
      /\ UNCHANGED <<epoch, log, stream, replay, wire, page, total, cuts, lapsed, dropped>>
  BY DEF Put
<1> HIDE DEF c
<1>4. /\ Waiting(c) = Waiting(pub[p]) \ {v} /\ v \in Waiting(pub[p])
  BY <1>2, <1>3 DEF Waiting
<1>5. pub[p] # Done
  BY <1>1, <1>4, PendingFacts
<1>6. /\ \A u, w \in c.full \cup c.again : u = w
      /\ (c.full = {} \/ c.again = {}) /\ c.to \cap (c.full \cup c.again) = {}
  BY <1>2, <1>3
<1>7. /\ pub' \in [Publishers -> Calls] /\ CallsAgree'
      /\ \A w \in Viewers : w # v => PendingIds(w)' = PendingIds(w)
      /\ PendingIds(v)' \subseteq PendingIds(v) \ {pub[p].id}
      /\ PendingIds(v) \subseteq PendingIds(v)' \cup {pub[p].id}
  BY <1>1, <1>2, <1>3, <1>4, <1>5, <1>6, CallGoesOn
<1>8. /\ \A w \in Viewers : PageInv(w)'
      /\ Len(queue[v]) < QueueSize => (\A w \in Viewers : Len(queue'[w]) <= QueueSize)
      /\ queue' \in [Viewers -> Seq(Published)] /\ passed' \in [Viewers -> SUBSET Ids]
  BY <1>2, <1>3, <1>4, <1>7, ReachesStep
<1>9. TypeOK'
  <2>1. dropped' \in [Viewers -> SUBSET Ids]
    BY <1>1, <1>3 DEF TypeOK
  <2> QED BY <1>1, <1>3, <1>7, <1>8, <2>1, CallTypes
<1> QED BY <1>7, <1>8, <1>9 DEF IInv

\* queue.Full.
LEMMA PutFullStep ==
    ASSUME IInv, NEW p \in Publishers, NEW v \in Viewers, PutFull(p, v)
    PROVE  IInv'
<1> DEFINE c == [pub[p] EXCEPT !.to = pub[p].to \ {v}, !.full = {v}]
<1>1. TypeOK /\ CallsAgree /\ pub \in [Publishers -> Calls]
  BY Facts DEF IInv
<1>2. /\ c \in Calls /\ c.id = pub[p].id /\ c.to = pub[p].to \ {v}
      /\ c.full = {v} /\ c.again = pub[p].again
  BY <1>1 DEF Calls
<1>3. /\ v \in pub[p].to /\ pub[p].full = {} /\ pub[p].again = {}
      /\ pub' = [pub EXCEPT ![p] = c]
      /\ UNCHANGED <<epoch, log, streams, page, history>>
  BY <1>1 DEF PutFull
<1> HIDE DEF c
<1>4. /\ Waiting(c) = Waiting(pub[p]) /\ v \in Waiting(pub[p])
      /\ Waiting(c) \subseteq Waiting(pub[p]) /\ \A w : w \in Waiting(c) <=> w \in Waiting(pub[p])
  BY <1>2, <1>3 DEF Waiting
<1>5. pub[p] # Done /\ Trim(c) = c
  BY <1>1, <1>2, <1>4, PendingFacts, Trimmed
<1>p. pub' = [pub EXCEPT ![p] = Trim(c)] /\ UNCHANGED <<log, total>>
  BY <1>3, <1>5 DEF history
<1>6. /\ \A u, w \in c.full \cup c.again : u = w
      /\ c.full = {} \/ c.again = {}
      /\ c.to \cap (c.full \cup c.again) = {}
  BY <1>2, <1>3
<1>7. /\ pub' \in [Publishers -> Calls] /\ CallsAgree'
      /\ \A w \in Viewers : PendingIds(w)' = PendingIds(w)
  BY <1>1, <1>2, <1>4, <1>5, <1>p, <1>6, CallGoesOn
<1>8. ASSUME NEW w \in Viewers PROVE PageInv(w)'
  <2>1. PageInv(w)
    BY DEF IInv
  <2> QED BY <2>1, <1>3, <1>7, Untouched DEF streams, page, history
<1>9. TypeOK'
  <2>1. /\ queue' \in [Viewers -> Seq(Published)] /\ \A w \in Viewers : Len(queue'[w]) <= QueueSize
        /\ passed' \in [Viewers -> SUBSET Ids] /\ dropped' \in [Viewers -> SUBSET Ids]
    BY <1>1, <1>3, Facts DEF TypeOK, streams, history
  <2> QED BY <1>1, <1>3, <1>7, <2>1, CallTypes DEF streams, page, history
<1> QED BY <1>7, <1>8, <1>9 DEF IInv

\* The queue is the same, or has lost its oldest event.
LEMMA EvictStep ==
    ASSUME IInv, NEW p \in Publishers, NEW v \in Viewers, Evict(p, v)
    PROVE  IInv'
<1> DEFINE c == [pub[p] EXCEPT !.full = {}, !.again = {v}]
<1>1. TypeOK /\ CallsAgree /\ PageInv(v) /\ pub \in [Publishers -> Calls] /\ queue \in [Viewers -> Seq(Published)]
      /\ queue[v] \in Seq(Nat) /\ Published \subseteq Ids /\ dropped \in [Viewers -> SUBSET Ids]
      /\ \A w \in Viewers : Len(queue[w]) <= QueueSize
  BY Facts DEF IInv, TypeOK
<1>2. c \in Calls /\ c.id = pub[p].id /\ c.to = pub[p].to /\ c.full = {} /\ c.again = {v}
  BY <1>1 DEF Calls
<1>3. /\ v \in pub[p].full /\ pub' = [pub EXCEPT ![p] = c]
      /\ UNCHANGED <<epoch, log, stream, replay, wire, page, total, cuts, lapsed, passed>>
  BY <1>1 DEF Evict
<1> HIDE DEF c
<1>4. Proper(pub[p])
  BY <1>1 DEF CallsAgree
<1>5. pub[p].full = {v} /\ pub[p].again = {} /\ v \notin pub[p].to
  BY <1>3, <1>4 DEF Proper
<1>6. /\ Waiting(c) = Waiting(pub[p]) /\ v \in Waiting(pub[p])
      /\ Waiting(c) \subseteq Waiting(pub[p]) /\ \A w : w \in Waiting(c) <=> w \in Waiting(pub[p])
  BY <1>2, <1>5 DEF Waiting
<1>7. pub[p] # Done /\ Trim(c) = c
  BY <1>1, <1>2, <1>6, PendingFacts, Trimmed
<1>p. pub' = [pub EXCEPT ![p] = Trim(c)] /\ UNCHANGED <<log, total>>
  BY <1>3, <1>7
<1>8. /\ \A u, w \in c.full \cup c.again : u = w
      /\ c.full = {} \/ c.again = {}
      /\ c.to \cap (c.full \cup c.again) = {}
  BY <1>2, <1>5
<1>9. /\ pub' \in [Publishers -> Calls] /\ CallsAgree'
      /\ \A w \in Viewers : PendingIds(w)' = PendingIds(w)
  BY <1>1, <1>2, <1>6, <1>7, <1>p, <1>8, CallGoesOn
<1>10. CASE queue[v] = <<>>
  <2>1. UNCHANGED <<queue, dropped>>
    BY <1>10 DEF Evict
  <2>2. ASSUME NEW w \in Viewers PROVE PageInv(w)'
    <3>1. PageInv(w)
      BY DEF IInv
    <3> QED BY <3>1, <1>3, <1>9, <2>1, Untouched DEF page
  <2>3. TypeOK'
    <3>1. passed' \in [Viewers -> SUBSET Ids]
      BY <1>1, <1>3 DEF TypeOK
    <3> QED BY <1>1, <1>3, <1>9, <2>1, <3>1, CallTypes
  <2> QED BY <1>9, <2>2, <2>3 DEF IInv
<1>11. CASE queue[v] # <<>>
  <2>1. queue' = [queue EXCEPT ![v] = Tail(queue[v])]
        /\ dropped' = [dropped EXCEPT ![v] = dropped[v] \cup {Head(queue[v])}]
    BY <1>11 DEF Evict
  <2>2. queue[v] \in Seq(Published)
    BY <1>1
  <2>3. Tail(queue[v]) \in Seq(Published) /\ Head(queue[v]) \in Published
        /\ Len(Tail(queue[v])) = Len(queue[v]) - 1 /\ Len(queue[v]) \in Nat
    BY <2>2, <1>11
  <2>4. /\ queue'[v] = Tail(queue[v]) /\ dropped'[v] = dropped[v] \cup {Head(queue[v])}
        /\ \A w \in Viewers : w # v => queue'[w] = queue[w] /\ dropped'[w] = dropped[w]
        /\ queue' \in [Viewers -> Seq(Published)]
    BY <1>1, <2>1, <2>3
  <2>5. dropped' \in [Viewers -> SUBSET Ids]
    <3>1. dropped[v] \cup {Head(queue[v])} \in SUBSET Ids
      BY <1>1, <2>3
    <3> QED BY <1>1, <2>1, <3>1
  <2>6. \A w \in Viewers : Len(queue'[w]) <= QueueSize
    <3>1. Len(queue[v]) - 1 <= QueueSize
      BY <1>1, <2>3, Facts
    <3> QED BY <1>1, <2>3, <2>4, <3>1
  <2>7. Items(queue[v]) = Items(queue'[v]) \cup {Head(queue[v])}
    BY <1>1, <1>11, <2>4, TakeFirst
  <2>8. PageInv(v)'
    <3>1. Line(passed[v], wire[v], replay[v], Tail(queue[v]), PendingIds(v))
      BY <1>1, <1>11, LineEvict DEF PageInv, InLine
    <3>2. InLine(v)'
      BY <3>1, <1>3, <1>9, <2>4 DEF InLine
    <3>3. Idle(v)'
      <4>1. stream[v] # "closed"
        BY <1>1, <1>11 DEF PageInv, Idle
      <4> QED BY <4>1, <1>3 DEF Idle
    <3>4. OnWay(v)' = Items(wire[v]) \cup Items(replay[v]) \cup Items(queue'[v]) \cup PendingIds(v)
      BY <1>3, <1>9 DEF OnWay
    <3>5. OnWay(v)' \subseteq OnWay(v) /\ \A i \in OnWay(v) : i \in OnWay(v)' \/ i \in dropped'[v]
      BY <3>4, <2>4, <2>7 DEF OnWay
    <3> QED BY <1>1, <1>3, <2>4, <3>2, <3>3, <3>5, TravelStep DEF page
  <2>9. ASSUME NEW w \in Viewers, w # v PROVE PageInv(w)'
    <3>1. PageInv(w)
      BY DEF IInv
    <3> QED BY <3>1, <1>3, <1>9, <2>4, <2>9, Untouched DEF page
  <2>10. TypeOK'
    <3>1. passed' \in [Viewers -> SUBSET Ids]
      BY <1>1, <1>3 DEF TypeOK
    <3> QED BY <1>1, <1>3, <1>9, <2>4, <2>5, <2>6, <3>1, CallTypes
  <2> QED BY <1>9, <2>8, <2>9, <2>10 DEF IInv
<1> QED BY <1>10, <1>11

\* The event is put again, or lost.
LEMMA PutAgainStep ==
    ASSUME IInv, NEW p \in Publishers, NEW v \in Viewers, PutAgain(p, v)
    PROVE  IInv'
<1> DEFINE c == [pub[p] EXCEPT !.again = {}]
           x == pub[p].id
<1>1. TypeOK /\ CallsAgree /\ PageInv(v) /\ pub \in [Publishers -> Calls] /\ queue \in [Viewers -> Seq(Published)]
      /\ Published \subseteq Ids /\ dropped \in [Viewers -> SUBSET Ids] /\ passed \in [Viewers -> SUBSET Ids]
      /\ \A w \in Viewers : Len(queue[w]) <= QueueSize
  BY Facts DEF IInv, TypeOK
<1>2. c \in Calls /\ c.id = x /\ c.to = pub[p].to /\ c.full = pub[p].full /\ c.again = {}
  BY <1>1 DEF Calls
<1>3. /\ v \in pub[p].again /\ pub' = [pub EXCEPT ![p] = Trim(c)]
      /\ UNCHANGED <<epoch, log, stream, replay, wire, page, total, cuts, lapsed>>
  BY DEF PutAgain
<1> HIDE DEF c
<1>4. Proper(pub[p])
  BY <1>1 DEF CallsAgree
<1>5. pub[p].again = {v} /\ pub[p].full = {} /\ v \notin pub[p].to
  BY <1>3, <1>4 DEF Proper
<1>6. Waiting(c) = Waiting(pub[p]) \ {v} /\ v \in Waiting(pub[p])
  BY <1>2, <1>5 DEF Waiting
<1>7. pub[p] # Done
  BY <1>1, <1>6, PendingFacts
<1>8. /\ \A u, w \in c.full \cup c.again : u = w
      /\ c.full = {} \/ c.again = {}
      /\ c.to \cap (c.full \cup c.again) = {}
  BY <1>2, <1>5
<1>9. /\ pub' \in [Publishers -> Calls] /\ CallsAgree'
      /\ \A w \in Viewers : w # v => PendingIds(w)' = PendingIds(w)
      /\ PendingIds(v)' \subseteq PendingIds(v) \ {x}
      /\ PendingIds(v) \subseteq PendingIds(v)' \cup {x}
  BY <1>1, <1>2, <1>3, <1>6, <1>7, <1>8, CallGoesOn
<1>10. CASE Len(queue[v]) < QueueSize
  <2>1. Reaches(p, v) /\ dropped' = dropped
    BY <1>10 DEF PutAgain
  <2>2. /\ \A w \in Viewers : PageInv(w)'
        /\ \A w \in Viewers : Len(queue'[w]) <= QueueSize
        /\ queue' \in [Viewers -> Seq(Published)] /\ passed' \in [Viewers -> SUBSET Ids]
    BY <1>2, <1>3, <1>6, <1>9, <1>10, <2>1, ReachesStep
  <2>3. TypeOK'
    BY <1>1, <1>3, <1>9, <2>1, <2>2, CallTypes
  <2> QED BY <1>9, <2>2, <2>3 DEF IInv
<1>11. CASE ~(Len(queue[v]) < QueueSize)
  <2>1. dropped' = [dropped EXCEPT ![v] = dropped[v] \cup {x}] /\ UNCHANGED <<queue, passed>>
    BY <1>11 DEF PutAgain
  <2>2. x \in Published /\ x \in PendingIds(v)
    BY <1>1, <1>6, PendingFacts
  <2> HIDE DEF x
  <2>3. dropped[v] \cup {x} \in SUBSET Ids
    BY <1>1, <2>2
  <2>4. dropped' \in [Viewers -> SUBSET Ids] /\ dropped'[v] = dropped[v] \cup {x}
        /\ \A w \in Viewers : w # v => dropped'[w] = dropped[w]
    BY <1>1, <2>1, <2>3
  <2>5. PageInv(v)'
    <3>1. Line(passed[v], wire[v], replay[v], queue[v], PendingIds(v)')
      BY <1>1, <1>9, LineGrows DEF PageInv, InLine
    <3>2. InLine(v)'
      BY <3>1, <1>3, <2>1 DEF InLine
    <3>3. Idle(v)'
      <4>1. stream[v] # "closed"
        BY <1>1, <2>2 DEF PageInv, Idle
      <4> QED BY <4>1, <1>3 DEF Idle
    <3>4. OnWay(v)' = Items(wire[v]) \cup Items(replay[v]) \cup Items(queue[v]) \cup PendingIds(v)'
      BY <1>3, <2>1 DEF OnWay
    <3>5. OnWay(v)' \subseteq OnWay(v) /\ \A i \in OnWay(v) : i \in OnWay(v)' \/ i \in dropped'[v]
      BY <3>4, <2>4, <1>9 DEF OnWay
    <3> QED BY <1>1, <1>3, <2>1, <2>4, <3>2, <3>3, <3>5, TravelStep DEF page
  <2>6. ASSUME NEW w \in Viewers, w # v PROVE PageInv(w)'
    <3>1. PageInv(w)
      BY DEF IInv
    <3> QED BY <3>1, <1>3, <1>9, <2>1, <2>4, <2>6, Untouched DEF page
  <2>7. TypeOK'
    BY <1>1, <1>3, <1>9, <2>1, <2>4, CallTypes
  <2> QED BY <1>9, <2>5, <2>6, <2>7 DEF IInv
<1> QED BY <1>10, <1>11

-----------------------------------------------------------------------------
(* The part of publish() under the lock.                                    *)

LEMMA PublishCalls ==
    ASSUME TypeOK, CallsAgree, NEW p \in Publishers, NEW d \in Devices \cup {NoDevice}, Publish(p, d)
    PROVE  /\ TypeOK' /\ CallsAgree' /\ Len(log') = Len(log) + 1
           /\ \A i \in Published : log'[i] = log[i]
           /\ \A w \in Viewers : stream[w] = "open" => PendingIds(w)' = PendingIds(w) \cup {Len(log) + 1}
           /\ \A w \in Viewers : stream[w] = "closed" => PendingIds(w)' = PendingIds(w)
<1> DEFINE n == Len(log) + 1
           c == [Done EXCEPT !.id = n, !.to = Listening]
<1>1. /\ Len(log) \in Nat /\ log \in Seq(Devices \cup {NoDevice}) /\ pub \in [Publishers -> Calls]
      /\ total \in 0..MaxEvents /\ Len(log) <= total /\ MaxEvents \in Nat
      /\ stream \in [Viewers -> {"closed", "open"}]
  BY Facts DEF CallsAgree, TypeOK
<1>2. /\ pub[p] = Done /\ total < MaxEvents /\ total' = total + 1 /\ log' = Append(log, d)
      /\ pub' = [pub EXCEPT ![p] = Trim(c)]
      /\ UNCHANGED <<epoch, streams, page, cuts, lapsed, dropped, passed>>
  BY DEF Publish
<1>3. /\ log' \in Seq(Devices \cup {NoDevice}) /\ Len(log') = n /\ \A i \in 1..Len(log) : log'[i] = log[i]
  BY <1>1, <1>2
<1>4. n \in 0..MaxEvents /\ n \in Ids /\ n \in Nat /\ n # 0 /\ n <= total'
  BY <1>1, <1>2 DEF Ids
<1>5. /\ c \in Calls /\ c.id = n /\ c.to = Listening /\ c.full = {} /\ c.again = {}
  BY <1>4 DEF Calls, Done, Listening
<1> HIDE DEF n, c
<1>6. /\ Waiting(c) = Listening
      /\ Trim(c) \in Calls /\ Waiting(Trim(c)) = Listening /\ (Trim(c) = Done \/ (Trim(c) = c /\ Listening # {}))
      /\ Proper(Done) /\ Waiting(Done) = {} /\ Done.id = 0
  <2>1. Waiting(c) = Listening
    BY <1>5 DEF Waiting
  <2> QED BY <2>1, <1>5, Trimmed
<1>7. /\ pub' \in [Publishers -> Calls] /\ pub'[p] = Trim(c)
      /\ \A q \in Publishers : q # p => pub'[q] = pub[q]
  BY <1>1, <1>2, <1>6
<1>8. Published' = 1..n /\ Published \subseteq Published' /\ n \in Published' /\ n \notin Published
  <2>1. Published' = 1..Len(log')
    BY DEF Published
  <2> QED BY <2>1, <1>1, <1>3 DEF Published, n
<1>9. CallsAgree'
  <2>1. Proper(Trim(c))
    BY <1>5, <1>6 DEF Proper
  <2>2. \A q \in Publishers : Proper(pub'[q]) /\ (pub'[q] # Done => pub'[q].id \in Published')
    <3> SUFFICES ASSUME NEW q \in Publishers
                 PROVE  Proper(pub'[q]) /\ (pub'[q] # Done => pub'[q].id \in Published')
      OBVIOUS
    <3>1. CASE q = p
      BY <3>1, <2>1, <1>5, <1>6, <1>7, <1>8
    <3>2. CASE q # p
      BY <3>2, <1>7, <1>8 DEF CallsAgree
    <3> QED BY <3>1, <3>2
  <2>3. /\ \A q \in Publishers : pub[q] # Done => pub[q].id \in Published /\ pub[q].id # 0 /\ pub[q].id # n
        /\ \A q, r \in Publishers : pub[q] # Done /\ pub[r].id = pub[q].id => r = q
    BY <1>8, Facts DEF CallsAgree, Published
  <2>4. ASSUME NEW q \in Publishers, NEW r \in Publishers, pub'[q] # Done, pub'[r].id = pub'[q].id
        PROVE  r = q
    <3>1. CASE q = p
      <4>1. pub'[q].id = n
        BY <3>1, <2>4, <1>5, <1>6, <1>7
      <4> QED BY <4>1, <3>1, <2>3, <2>4, <1>4, <1>6, <1>7
    <3>2. CASE q # p /\ r # p
      BY <3>2, <2>3, <2>4, <1>7
    <3>3. CASE q # p /\ r = p
      <4>1. pub'[q].id \in Published /\ pub'[q].id # 0 /\ pub'[q].id # n
        BY <3>3, <2>3, <2>4, <1>7
      <4> QED BY <4>1, <3>3, <2>4, <1>5, <1>6, <1>7
    <3> QED BY <3>1, <3>2, <3>3
  <2>5. Len(log') <= total'
    BY <1>3, <1>4
  <2> QED BY <2>2, <2>4, <2>5 DEF CallsAgree, Proper, Done, Waiting
<1>10. ASSUME NEW w \in Viewers
       PROVE  /\ stream[w] = "open" => PendingIds(w)' = PendingIds(w) \cup {n}
              /\ stream[w] = "closed" => PendingIds(w)' = PendingIds(w)
  <2>1. PendingIds(w)' = {pub'[q].id : q \in {q \in Publishers : w \in Waiting(pub'[q])}}
    BY DEF PendingIds, Waiting
  <2>2. w \notin Waiting(pub[p])
    BY <1>2, <1>6
  <2>3. w \in Waiting(pub'[p]) <=> stream[w] = "open"
    BY <1>6, <1>7 DEF Listening
  <2>4. stream[w] = "open" => pub'[p].id = n
    BY <2>3, <1>5, <1>6, <1>7
  <2>5. ASSUME stream[w] = "open" PROVE PendingIds(w)' = PendingIds(w) \cup {n}
    BY <2>1, <2>2, <2>3, <2>4, <2>5, <1>7 DEF PendingIds
  <2>6. ASSUME stream[w] = "closed" PROVE PendingIds(w)' = PendingIds(w)
    BY <2>1, <2>2, <2>3, <2>6, <1>7 DEF PendingIds
  <2> QED BY <2>5, <2>6
<1>11. TypeOK'
  <2>1. \A s \in Seq(Published) : s \in Seq(Published')
    <3> SUFFICES ASSUME NEW s \in Seq(Published) PROVE s \in Seq(Published')
      OBVIOUS
    <3>1. s \in [1..Len(s) -> Published] /\ Len(s) \in Nat
      OBVIOUS
    <3>2. s \in [1..Len(s) -> Published']
      BY <3>1, <1>8
    <3> QED BY <3>1, <3>2
  <2>2. {replay, queue, wire}' \subseteq [Viewers -> Seq(Published')]
    <3>1. \A f \in [Viewers -> Seq(Published)] : f \in [Viewers -> Seq(Published')]
      BY <2>1
    <3> QED BY <3>1, <1>2, Facts DEF streams
  <2>3. Len(log') <= MaxEvents /\ total' \in 0..MaxEvents
    BY <1>1, <1>2, <1>3, <1>4
  <2> QED BY <2>2, <2>3, <1>2, <1>3, <1>7 DEF TypeOK, streams, page
<1> QED BY <1>3, <1>9, <1>10, <1>11 DEF n, Published

LEMMA PublishStep ==
    ASSUME IInv, NEW p \in Publishers, NEW d \in Devices \cup {NoDevice}, Publish(p, d)
    PROVE  IInv'
<1> DEFINE n == Len(log) + 1
<1>1. TypeOK /\ CallsAgree /\ Len(log) \in Nat /\ Published \subseteq Nat
  BY Facts DEF IInv
<1>2. /\ TypeOK' /\ CallsAgree' /\ Len(log') = n
      /\ \A i \in Published : log'[i] = log[i]
      /\ \A w \in Viewers : stream[w] = "open" => PendingIds(w)' = PendingIds(w) \cup {n}
      /\ \A w \in Viewers : stream[w] = "closed" => PendingIds(w)' = PendingIds(w)
  BY <1>1, PublishCalls
<1>3. UNCHANGED <<epoch, streams, page, cuts, lapsed, dropped, passed>>
  BY DEF Publish
<1>4. n \in Nat /\ Published' = Published \cup {n} /\ \A i \in Published : i < n
  <2>1. Published' = 1..Len(log')
    BY DEF Published
  <2> QED BY <2>1, <1>1, <1>2 DEF Published
<1> HIDE DEF n
<1>5. ASSUME NEW w \in Viewers PROVE PageInv(w)'
  <2>1. PageInv(w) /\ stream[w] \in {"closed", "open"} /\ cursor[w] \in Nat /\ epoch \in Nat
        /\ shown[w] \in Seq(Events)
    BY ParametersOK DEF IInv, TypeOK
  <2>2. /\ \A i : StaleCursor(w, i)' <=> StaleCursor(w, i)
        /\ \A m : Reset(w, m)' <=> Reset(w, m)
        /\ ShownIds(w)' = ShownIds(w)
        /\ \A i \in Published : Visible(w, i)' <=> Visible(w, i)
        /\ \A i : Excused(w, i)' <=> Excused(w, i)
    BY <1>2, <1>3 DEF StaleCursor, Reset, ShownIds, Visible, Excused, page
  <2>3. OnWay(w)' = Items(wire[w]) \cup Items(replay[w]) \cup Items(queue[w]) \cup PendingIds(w)'
    BY <1>3 DEF OnWay, streams
  <2>4. OnWay(w) \subseteq Published
    BY <1>1, Facts, PendingFacts DEF OnWay
  <2>5. /\ stream[w] = "open" => OnWay(w)' = OnWay(w) \cup {n}
        /\ stream[w] = "closed" => OnWay(w)' = OnWay(w)
    BY <2>3, <1>2 DEF OnWay
  <2>6. Idle(w)'
    BY <2>1, <1>2, <1>3 DEF PageInv, Idle, streams
  <2>7. InLine(w)'
    <3>1. Line(passed[w], wire[w], replay[w], queue[w], PendingIds(w))
      BY <2>1 DEF PageInv, InLine
    <3>2. \A y \in Items(wire[w]) \cup Items(replay[w]) \cup Items(queue[w]) \cup PendingIds(w) : y < n
      BY <2>4, <1>4 DEF OnWay
    <3>3. Line(passed[w], wire[w], replay[w], queue[w], PendingIds(w) \cup {n})
      BY ONLY <3>1, <3>2, LinePublish
    <3> QED BY <3>1, <3>3, <2>1, <1>2, <1>3 DEF InLine, streams
  <2>8. \A m \in DOMAIN shown[w] : /\ shown[w][m].id <= cursor[w] /\ shown[w][m].epoch <= epoch
                                   /\ shown[w][m].epoch = epoch => shown[w][m].id \in Published
    BY <2>1 DEF PageInv, Rendered
  <2>9. Behind(w)'
    <3>1. ASSUME NEW y \in OnWay(w) PROVE NotYet(w, y)'
      BY <2>1, <1>3, NotYetKept DEF PageInv, Behind, page
    <3>2. ASSUME NEW y, y = n PROVE NotYet(w, y)'
      <4>1. epoch' = epoch /\ shown' = shown
        BY <1>3 DEF page
      <4>2. \A m \in DOMAIN shown[w] : shown[w][m].epoch = epoch => shown[w][m].id < y
        BY <2>8, <1>4, <3>2
      <4> QED BY <4>1, <4>2 DEF NotYet
    <3>3. \A y \in OnWay(w)' : y \in OnWay(w) \/ y = n
      BY <2>1, <2>5
    <3> QED BY <3>1, <3>2, <3>3 DEF Behind
  <2>10. Rendered(w)'
    BY <2>1, <1>3, <1>4 DEF PageInv, Rendered, page
  <2>11. Complete(w)'
    <3>1. \A i \in Published : Visible(w, i) =>
             i \in ShownIds(w) \cup OnWay(w) \/ Excused(w, i) \/ (stream[w] = "closed" /\ i > cursor[w])
      BY <2>1 DEF PageInv, Complete
    <3>2. OnWay(w) \subseteq OnWay(w)' /\ (stream[w] = "open" => n \in OnWay(w)')
      BY <2>1, <2>5
    <3>3. n > cursor[w] \/ Excused(w, n)
      <4>1. CASE cursor[w] < n
        BY <4>1, <2>1, <1>4
      <4>2. CASE ~(cursor[w] < n)
        <5>1. cursor[w] # 0 /\ cursor[w] >= n
          BY <4>2, <2>1, <1>1, <1>4 DEF n
        <5>2. PICK m \in DOMAIN shown[w] : shown[w][m].id = cursor[w]
          BY <5>1, <2>1 DEF PageInv, Rendered
        <5>3. shown[w][m].id \notin Published
          BY <5>1, <5>2, <2>1, <1>4
        <5>4. shown[w][m].epoch # epoch /\ shown[w][m].epoch <= epoch
          BY <5>3, <2>8
        <5>5. shown[w][m].epoch \in Nat
          <6>1. shown[w][m] \in Events /\ MaxRestarts \in Nat
            BY <2>1, <5>2, ParametersOK
          <6> QED BY <6>1 DEF Events
        <5>6. StaleCursor(w, n)
          BY <5>1, <5>2, <5>4, <5>5, <2>1 DEF StaleCursor
        <5> QED BY <5>6 DEF Excused
      <4> QED BY <4>1, <4>2
    <3>4. \A i \in Published' : Visible(w, i)' =>
             i \in ShownIds(w) \cup OnWay(w)' \/ Excused(w, i) \/ (stream[w] = "closed" /\ i > cursor[w])
      <4> SUFFICES ASSUME NEW i \in Published', Visible(w, i)'
                   PROVE  i \in ShownIds(w) \cup OnWay(w)' \/ Excused(w, i) \/ (stream[w] = "closed" /\ i > cursor[w])
        OBVIOUS
      <4>1. CASE i \in Published
        BY <4>1, <3>1, <3>2, <2>2
      <4>2. CASE i = n
        BY <4>2, <3>2, <3>3, <2>1
      <4> QED BY <4>1, <4>2, <1>4
    <3> QED BY <3>4, <2>2, <1>3 DEF Complete, streams, page
  <2>12. RepeatedAfterReset(w)' /\ RenderedInOrder(w)'
    <3>1. RepeatedAfterReset(w) /\ RenderedInOrder(w)
      BY <2>1 DEF PageInv
    <3>2. RepeatedAfterReset(w)'
      BY <3>1, <2>2, <1>3 DEF RepeatedAfterReset, page
    <3>3. RenderedInOrder(w)'
      BY <3>1, <2>2, <1>3 DEF RenderedInOrder, page
    <3> QED BY <3>2, <3>3
  <2> QED BY <2>6, <2>7, <2>9, <2>10, <2>11, <2>12 DEF PageInv
<1> QED BY <1>2, <1>5 DEF IInv

-----------------------------------------------------------------------------
(* stream(): events go onto the wire.                                       *)

LEMMA YieldHistoryStep ==
    ASSUME IInv, NEW v \in Viewers, YieldHistory(v)
    PROVE  IInv'
<1> DEFINE x == Head(replay[v])
<1>1. /\ TypeOK /\ CallsAgree /\ PageInv(v) /\ replay \in [Viewers -> Seq(Published)]
      /\ wire \in [Viewers -> Seq(Published)] /\ replay[v] \in Seq(Nat) /\ wire[v] \in Seq(Nat)
      /\ \A w \in Viewers : Len(replay[w]) <= Backlog /\ Backlog \in Nat
  BY Facts DEF IInv, TypeOK
<1>2. /\ replay[v] # <<>> /\ replay' = [replay EXCEPT ![v] = Tail(replay[v])]
      /\ wire' = IF Visible(v, x) THEN [wire EXCEPT ![v] = Append(wire[v], x)] ELSE wire
      /\ UNCHANGED <<server, stream, queue, page, history>>
  BY DEF YieldHistory, Yields
<1>3. x \in Published /\ Tail(replay[v]) \in Seq(Published) /\ Len(Tail(replay[v])) <= Backlog
  <2>1. replay[v] \in Seq(Published) /\ Len(replay[v]) <= Backlog
    BY <1>1
  <2> QED BY <2>1, <1>1, <1>2
<1> HIDE DEF x
<1>4. /\ replay'[v] = Tail(replay[v]) /\ replay' \in [Viewers -> Seq(Published)]
      /\ \A w \in Viewers : w # v => replay'[w] = replay[w] /\ wire'[w] = wire[w]
      /\ wire' \in [Viewers -> Seq(Published)]
      /\ wire'[v] = IF Visible(v, x) THEN Append(wire[v], x) ELSE wire[v]
  <2>1. replay'[v] = Tail(replay[v]) /\ replay' \in [Viewers -> Seq(Published)]
        /\ \A w \in Viewers : w # v => replay'[w] = replay[w]
    BY <1>1, <1>2, <1>3
  <2>2. wire[v] \in Seq(Published)
    BY <1>1
  <2>3. Append(wire[v], x) \in Seq(Published)
    BY <2>2, <1>3
  <2> QED BY <2>1, <2>3, <1>1, <1>2
<1>5. CallsAgree' /\ Published' = Published /\ \A w \in Viewers : PendingIds(w)' = PendingIds(w)
  <2>1. UNCHANGED <<log, pub, total>>
    BY <1>2 DEF server, history
  <2> QED BY <1>1, <2>1, CallsRest
<1>6. TypeOK'
  <2>1. \A w \in Viewers : Len(replay'[w]) <= Backlog
    BY <1>1, <1>3, <1>4
  <2> QED BY <2>1, <1>1, <1>2, <1>4, <1>5 DEF TypeOK, server, page, history
<1>7. PageInv(v)'
  <2>1. Line(passed[v], wire[v], replay[v], queue[v], PendingIds(v))
    BY <1>1 DEF PageInv, InLine
  <2>2. /\ Line(passed[v], wire[v], Tail(replay[v]), queue[v], PendingIds(v))
        /\ Line(passed[v], Append(wire[v], x), Tail(replay[v]), queue[v], PendingIds(v))
    BY <2>1, <1>1, <1>2, LineHistory DEF x
  <2>3. InLine(v)'
    BY <2>2, <1>2, <1>4, <1>5 DEF InLine, server, page, history
  <2>4. Idle(v)'
    <3>1. stream[v] # "closed"
      BY <1>1, <1>2 DEF PageInv, Idle
    <3> QED BY <3>1, <1>2 DEF Idle
  <2>5. Items(replay[v]) = Items(replay'[v]) \cup {x}
    BY <1>1, <1>2, <1>4, TakeFirst DEF x
  <2>6. Visible(v, x) => Items(wire'[v]) = Items(wire[v]) \cup {x}
    BY <1>1, <1>3, <1>4, PutLast, Facts
  <2>7. ~Visible(v, x) => Items(wire'[v]) = Items(wire[v])
    BY <1>4
  <2>8. OnWay(v)' = Items(wire'[v]) \cup Items(replay'[v]) \cup Items(queue[v]) \cup PendingIds(v)
    BY <1>2, <1>5 DEF OnWay
  <2>9. OnWay(v)' \subseteq OnWay(v) /\ \A i \in OnWay(v) : i \in OnWay(v)' \/ ~Visible(v, i)
    BY <2>5, <2>6, <2>7, <2>8 DEF OnWay
  <2> QED BY <1>1, <1>2, <2>3, <2>4, <2>9, TravelStep DEF server, page, history
<1>8. ASSUME NEW w \in Viewers, w # v PROVE PageInv(w)'
  <2>1. PageInv(w)
    BY DEF IInv
  <2> QED BY <2>1, <1>2, <1>4, <1>5, <1>8, Untouched DEF server, page, history
<1> QED BY <1>5, <1>6, <1>7, <1>8 DEF IInv

LEMMA YieldLiveStep ==
    ASSUME IInv, NEW v \in Viewers, YieldLive(v)
    PROVE  IInv'
<1> DEFINE x == Head(queue[v])
<1>1. /\ TypeOK /\ CallsAgree /\ PageInv(v) /\ queue \in [Viewers -> Seq(Published)]
      /\ wire \in [Viewers -> Seq(Published)] /\ queue[v] \in Seq(Nat) /\ wire[v] \in Seq(Nat)
      /\ \A w \in Viewers : Len(queue[w]) <= QueueSize /\ QueueSize \in Nat
  BY Facts DEF IInv, TypeOK
<1>2. /\ replay[v] = <<>> /\ queue[v] # <<>> /\ queue' = [queue EXCEPT ![v] = Tail(queue[v])]
      /\ wire' = IF Visible(v, x) THEN [wire EXCEPT ![v] = Append(wire[v], x)] ELSE wire
      /\ UNCHANGED <<server, stream, replay, page, history>>
  BY DEF YieldLive, Yields
<1>3. x \in Published /\ Tail(queue[v]) \in Seq(Published) /\ Len(Tail(queue[v])) <= QueueSize
  <2>1. queue[v] \in Seq(Published) /\ Len(queue[v]) <= QueueSize
    BY <1>1
  <2> QED BY <2>1, <1>1, <1>2
<1> HIDE DEF x
<1>4. /\ queue'[v] = Tail(queue[v]) /\ queue' \in [Viewers -> Seq(Published)]
      /\ \A w \in Viewers : w # v => queue'[w] = queue[w] /\ wire'[w] = wire[w]
      /\ wire' \in [Viewers -> Seq(Published)]
      /\ wire'[v] = IF Visible(v, x) THEN Append(wire[v], x) ELSE wire[v]
  <2>1. queue'[v] = Tail(queue[v]) /\ queue' \in [Viewers -> Seq(Published)]
        /\ \A w \in Viewers : w # v => queue'[w] = queue[w]
    BY <1>1, <1>2, <1>3
  <2>2. wire[v] \in Seq(Published)
    BY <1>1
  <2>3. Append(wire[v], x) \in Seq(Published)
    BY <2>2, <1>3
  <2> QED BY <2>1, <2>3, <1>1, <1>2
<1>5. CallsAgree' /\ Published' = Published /\ \A w \in Viewers : PendingIds(w)' = PendingIds(w)
  <2>1. UNCHANGED <<log, pub, total>>
    BY <1>2 DEF server, history
  <2> QED BY <1>1, <2>1, CallsRest
<1>6. TypeOK'
  <2>1. \A w \in Viewers : Len(queue'[w]) <= QueueSize
    BY <1>1, <1>3, <1>4
  <2> QED BY <2>1, <1>1, <1>2, <1>4, <1>5 DEF TypeOK, server, page, history
<1>7. PageInv(v)'
  <2>1. Line(passed[v], wire[v], <<>>, queue[v], PendingIds(v))
    BY <1>1, <1>2 DEF PageInv, InLine
  <2>2. /\ Line(passed[v], wire[v], <<>>, Tail(queue[v]), PendingIds(v))
        /\ Line(passed[v], Append(wire[v], x), <<>>, Tail(queue[v]), PendingIds(v))
    BY <2>1, <1>1, <1>2, LineLive DEF x
  <2>3. InLine(v)'
    BY <2>2, <1>2, <1>4, <1>5 DEF InLine, server, page, history
  <2>4. Idle(v)'
    <3>1. stream[v] # "closed"
      BY <1>1, <1>2 DEF PageInv, Idle
    <3> QED BY <3>1, <1>2 DEF Idle
  <2>5. Items(queue[v]) = Items(queue'[v]) \cup {x}
    BY <1>1, <1>2, <1>4, TakeFirst DEF x
  <2>6. Visible(v, x) => Items(wire'[v]) = Items(wire[v]) \cup {x}
    BY <1>1, <1>3, <1>4, PutLast, Facts
  <2>7. ~Visible(v, x) => Items(wire'[v]) = Items(wire[v])
    BY <1>4
  <2>8. OnWay(v)' = Items(wire'[v]) \cup Items(replay[v]) \cup Items(queue'[v]) \cup PendingIds(v)
    BY <1>2, <1>5 DEF OnWay
  <2>9. OnWay(v)' \subseteq OnWay(v) /\ \A i \in OnWay(v) : i \in OnWay(v)' \/ ~Visible(v, i)
    BY <2>5, <2>6, <2>7, <2>8 DEF OnWay
  <2> QED BY <1>1, <1>2, <2>3, <2>4, <2>9, TravelStep DEF server, page, history
<1>8. ASSUME NEW w \in Viewers, w # v PROVE PageInv(w)'
  <2>1. PageInv(w)
    BY DEF IInv
  <2> QED BY <2>1, <1>2, <1>4, <1>5, <1>8, Untouched DEF server, page, history
<1> QED BY <1>5, <1>6, <1>7, <1>8 DEF IInv

-----------------------------------------------------------------------------
(* open_stream.                                                             *)

\* The replay: published events in their order, as many as the history holds; it
\* holds what is beyond a cursor of this process, and everything for a cursor that
\* is ahead of it.
LEMMA AfterFacts ==
    ASSUME TypeOK, NEW c \in Nat, NEW P
    PROVE  /\ After(c) \in Seq(Published) /\ Len(After(c)) <= Backlog /\ Sorted(P, After(c))
           /\ c <= Len(log) => \A i \in Items(After(c)) : i > c
           /\ \A i \in Published : i > c \/ c > Len(log) => i \in Items(After(c)) \/ i \notin InHistory
<1> DEFINE since == IF c > Len(log) THEN 0 ELSE c
           from == IF Len(log) - since > Backlog THEN Len(log) - Backlog ELSE since
           N == Len(log) - from
<1>1. Len(log) \in Nat /\ Backlog \in Nat
  BY Facts
<1>2. from \in Nat /\ from <= Len(log) /\ since \in Nat /\ since <= from /\ N \in Nat /\ N <= Backlog
  BY <1>1
<1>3. c <= Len(log) => since = c
  BY <1>1
<1>4. \A i \in Published : (i > c \/ c > Len(log)) /\ i > Len(log) - Backlog => i > from
  <2>1. c > Len(log) => since = 0
    OBVIOUS
  <2>2. from = since \/ from = Len(log) - Backlog
    OBVIOUS
  <2>3. \A i \in Published : i \in Nat /\ i > 0
    BY <1>1 DEF Published
  <2> HIDE DEF since, from
  <2> QED BY <2>1, <2>2, <2>3, <1>1, <1>2, <1>3
<1>5. After(c) = [k \in 1..N |-> from + k]
  BY DEF After
<1> HIDE DEF since, from, N
<1>6. N = Len(log) - from
  BY DEF N
<1>7. \A k \in 1..N : from + k \in Published
  BY <1>1, <1>2, <1>6 DEF Published
<1>8. After(c) \in Seq(Published) /\ Len(After(c)) = N /\ DOMAIN After(c) = 1..N
  <2>1. After(c) \in [1..N -> Published]
    BY <1>5, <1>7
  <2> QED BY <2>1, <1>2
<1>9. Sorted(P, After(c))
  <2>1. \A m, n \in 1..N : m < n => from + m < from + n
    BY <1>2
  <2> QED BY <2>1, <1>5, <1>8 DEF Sorted, Follows
<1>10. ASSUME c <= Len(log), NEW i \in Items(After(c)) PROVE i > c
  <2>1. PICK k \in 1..N : i = from + k
    BY <1>5, <1>8 DEF Items
  <2> QED BY <2>1, <1>2, <1>3, <1>10
<1>11. ASSUME NEW i \in Published, i > c \/ c > Len(log), i \in InHistory PROVE i \in Items(After(c))
  <2>1. i > from /\ i \in Nat /\ i <= Len(log)
    BY <1>1, <1>4, <1>11 DEF InHistory, Published
  <2>2. i - from \in 1..N /\ from + (i - from) = i
    BY <2>1, <1>1, <1>2, <1>6
  <2>3. After(c)[i - from] = from + (i - from)
    BY <2>2, <1>5
  <2> QED BY <2>2, <2>3, <1>8 DEF Items
<1> QED BY <1>2, <1>8, <1>9, <1>10, <1>11

LEMMA OpenStep ==
    ASSUME IInv, NEW v \in Viewers, Open(v)
    PROVE  IInv'
<1> DEFINE r == After(cursor[v])
           old == 1..Len(log) \ InHistory
<1>1. /\ TypeOK /\ CallsAgree /\ PageInv(v) /\ replay \in [Viewers -> Seq(Published)]
      /\ lapsed \in [Viewers -> SUBSET Ids] /\ stream \in [Viewers -> {"closed", "open"}]
      /\ Published \subseteq Ids /\ Len(log) \in Nat /\ cursor[v] \in Nat /\ epoch \in Nat
      /\ shown[v] \in Seq(Events)
      /\ \A w \in Viewers : Len(replay[w]) <= Backlog
  <2>1. /\ TypeOK /\ cursor[v] \in 0..MaxEvents /\ epoch \in 0..MaxRestarts
        /\ shown[v] \in Seq(Events) /\ PageInv(v) /\ CallsAgree
    BY DEF IInv, TypeOK
  <2>2. cursor[v] \in Nat /\ epoch \in Nat
    BY <2>1, ParametersOK
  <2> QED BY <2>1, <2>2, Facts DEF TypeOK
<1>2. /\ stream[v] = "closed" /\ stream' = [stream EXCEPT ![v] = "open"]
      /\ replay' = [replay EXCEPT ![v] = r]
      /\ lapsed' = [lapsed EXCEPT ![v] = lapsed[v] \cup old]
      /\ UNCHANGED <<server, queue, wire, page, total, cuts, dropped, passed>>
  BY DEF Open
<1>3. /\ r \in Seq(Published) /\ Len(r) <= Backlog /\ Sorted(passed[v], r)
      /\ cursor[v] <= Len(log) => \A i \in Items(r) : i > cursor[v]
      /\ \A i \in Published : i > cursor[v] \/ cursor[v] > Len(log) => i \in Items(r) \/ i \in old
  BY <1>1, AfterFacts DEF Published
<1>4. old \in SUBSET Ids
  BY <1>1 DEF Published
<1> HIDE DEF r, old
<1>5. /\ stream'[v] = "open" /\ replay'[v] = r /\ lapsed'[v] = lapsed[v] \cup old
      /\ \A w \in Viewers : w # v => stream'[w] = stream[w] /\ replay'[w] = replay[w] /\ lapsed'[w] = lapsed[w]
  BY <1>1, <1>2
<1>6. /\ stream' \in [Viewers -> {"closed", "open"}] /\ replay' \in [Viewers -> Seq(Published)]
      /\ lapsed' \in [Viewers -> SUBSET Ids]
  BY <1>1, <1>2, <1>3, <1>4
<1>7. CallsAgree' /\ Published' = Published /\ \A w \in Viewers : PendingIds(w)' = PendingIds(w)
  <2>1. UNCHANGED <<log, pub, total>>
    BY <1>2 DEF server
  <2> QED BY <1>1, <2>1, CallsRest
<1>8. TypeOK'
  <2>1. \A w \in Viewers : Len(replay'[w]) <= Backlog
    BY <1>1, <1>3, <1>5
  <2> QED BY <2>1, <1>1, <1>2, <1>6, <1>7 DEF TypeOK, server, page
<1>9. PageInv(v)'
  <2>1. /\ queue'[v] = <<>> /\ wire'[v] = <<>> /\ PendingIds(v)' = {} /\ OnWay(v) = {} /\ OnWay(v)' = Items(r)
    <3>1. queue[v] = <<>> /\ wire[v] = <<>> /\ replay[v] = <<>> /\ PendingIds(v) = {} /\ Items(<<>>) = {}
      BY <1>1, <1>2 DEF PageInv, Idle, Items
    <3> QED BY <3>1, <1>2, <1>5, <1>7 DEF OnWay
  <2>2. Idle(v)'
    BY <1>5 DEF Idle
  <2>3. InLine(v)'
    BY <2>1, <1>2, <1>3, <1>5, LineOpen DEF InLine
  <2>4. /\ \A i : StaleCursor(v, i)' <=> StaleCursor(v, i)
        /\ \A m : Reset(v, m)' <=> Reset(v, m)
        /\ ShownIds(v)' = ShownIds(v)
        /\ \A i : Visible(v, i)' <=> Visible(v, i)
        /\ epoch' = epoch /\ shown' = shown /\ cursor' = cursor /\ dropped' = dropped /\ passed' = passed
    BY <1>2 DEF StaleCursor, Reset, ShownIds, Visible, server, page
  <2>5. Rendered(v)
    BY <1>1 DEF PageInv
  <2>6. \A m \in DOMAIN shown[v] : shown[v][m].epoch \in Nat /\ shown[v][m].id \in Nat
    <3>1. \A m \in DOMAIN shown[v] : shown[v][m] \in Events
      BY <1>1
    <3>2. MaxRestarts \in Nat /\ MaxEvents \in Nat
      BY ParametersOK
    <3> QED BY <3>1, <3>2 DEF Events, Ids
  <2>7. ASSUME cursor[v] > Len(log)
        PROVE  \E k \in DOMAIN shown[v] : shown[v][k].epoch < epoch /\ shown[v][k].id = cursor[v]
    <3>1. PICK k \in DOMAIN shown[v] : shown[v][k].id = cursor[v]
      BY <2>5, <2>7, <1>1 DEF Rendered
    <3>2. shown[v][k].id \notin Published
      BY <3>1, <2>7, <1>1 DEF Published
    <3>3. shown[v][k].epoch # epoch /\ shown[v][k].epoch <= epoch
      BY <3>2, <2>5 DEF Rendered
    <3>4. shown[v][k].epoch < epoch
      BY <3>3, <2>6, <1>1
    <3> QED BY <3>1, <3>4
  <2>8. ASSUME NEW y \in Items(r) PROVE NotYet(v, y)
    <3>1. y \in Published /\ y \in Nat /\ y <= Len(log)
      BY <1>1, <1>3 DEF Items, Published
    <3>2. CASE cursor[v] <= Len(log)
      <4>1. y > cursor[v]
        BY <3>2, <1>3
      <4>2. \A m \in DOMAIN shown[v] : shown[v][m].id < y
        BY <4>1, <2>5, <2>6, <3>1, <1>1 DEF Rendered
      <4> QED BY <4>2 DEF NotYet
    <3>3. CASE cursor[v] > Len(log)
      <4>1. PICK k \in DOMAIN shown[v] : shown[v][k].epoch < epoch /\ shown[v][k].id = cursor[v]
        BY <3>3, <2>7
      <4>2. shown[v][k].id > y /\ shown[v][k].id >= y
        BY <4>1, <3>1, <3>3, <1>1
      <4>3. StaleCursor(v, y)
        BY <4>1, <4>2 DEF StaleCursor
      <4>4. ASSUME NEW m \in DOMAIN shown[v], shown[v][m].epoch = epoch, shown[v][m].id = y PROVE Reset(v, m)
        <5>1. k \in Nat /\ m \in Nat /\ k >= 1 /\ ~(m < k)
          <6>1. DOMAIN shown[v] = 1..Len(shown[v]) /\ Len(shown[v]) \in Nat
            BY <1>1
          <6>2. k \in Nat /\ m \in Nat /\ k >= 1
            BY <6>1
          <6>3. m < k => epoch <= shown[v][k].epoch
            BY <4>4, <2>5 DEF Rendered
          <6> QED BY <6>2, <6>3, <4>1, <2>6, <1>1
        <5>2. k \in 1..m
          BY <5>1
        <5> QED BY <5>2, <4>1, <4>2, <4>4 DEF Reset
      <4>5. \A m \in DOMAIN shown[v] : shown[v][m].id < y \/ shown[v][m].id > y \/ shown[v][m].id = y
        BY <2>6, <3>1
      <4> QED BY <4>3, <4>4, <4>5 DEF NotYet
    <3> QED BY <3>2, <3>3, <1>1
  <2>9. Behind(v)'
    <3>1. \A y \in Items(r) : NotYet(v, y)'
      BY <2>4, <2>8, NotYetKept
    <3> QED BY <3>1, <2>1 DEF Behind
  <2>10. Rendered(v)'
    BY <2>4, <2>5, <1>7 DEF Rendered
  <2>11. Complete(v)'
    <3>1. \A i \in Published : Visible(v, i) => i \in ShownIds(v) \/ Excused(v, i) \/ i > cursor[v]
      BY <2>1, <1>1 DEF PageInv, Complete
    <3>2. \A i : Excused(v, i) => Excused(v, i)'
      BY <1>5, <2>4 DEF Excused
    <3>3. \A i \in Published : i > cursor[v] => i \in Items(r) \/ Excused(v, i)'
      BY <1>3, <1>5 DEF Excused
    <3>4. \A i \in Published : Visible(v, i) => i \in ShownIds(v) \/ i \in OnWay(v)' \/ Excused(v, i)'
      BY <3>1, <3>2, <3>3, <2>1
    <3> QED BY <3>4, <2>4, <1>7 DEF Complete
  <2>12. RepeatedAfterReset(v)' /\ RenderedInOrder(v)'
    <3>1. RepeatedAfterReset(v) /\ RenderedInOrder(v)
      BY <1>1 DEF PageInv
    <3>2. RepeatedAfterReset(v)'
      BY <3>1, <2>4 DEF RepeatedAfterReset
    <3>3. RenderedInOrder(v)'
      BY <3>1, <2>4 DEF RenderedInOrder
    <3> QED BY <3>2, <3>3
  <2> QED BY <2>2, <2>3, <2>9, <2>10, <2>11, <2>12 DEF PageInv
<1>10. ASSUME NEW w \in Viewers, w # v PROVE PageInv(w)'
  <2>1. PageInv(w)
    BY DEF IInv
  <2> QED BY <2>1, <1>2, <1>5, <1>7, <1>10, Untouched DEF server, page
<1> QED BY <1>7, <1>8, <1>9, <1>10 DEF IInv

-----------------------------------------------------------------------------
(* source.onmessage.                                                        *)

LEMMA ReceiveStep ==
    ASSUME IInv, NEW v \in Viewers, Receive(v)
    PROVE  IInv'
<1> DEFINE x == Head(wire[v])
           e == [epoch |-> epoch, id |-> x]
           s == shown[v]
           t == Append(s, e)
           L == Len(s)
<1>1. /\ TypeOK /\ CallsAgree /\ PageInv(v) /\ wire \in [Viewers -> Seq(Published)]
      /\ wire[v] \in Seq(Nat) /\ wire[v] \in Seq(Published) /\ s \in Seq(Events)
      /\ shown \in [Viewers -> Seq(Events)] /\ cursor \in [Viewers -> 0..MaxEvents]
      /\ epoch \in 0..MaxRestarts /\ MaxEvents \in Nat /\ MaxRestarts \in Nat
      /\ Published \subseteq Ids
  BY Facts DEF IInv, TypeOK
<1>2. /\ wire[v] # <<>> /\ wire' = [wire EXCEPT ![v] = Tail(wire[v])]
      /\ cursor' = [cursor EXCEPT ![v] = IF x > cursor[v] THEN x ELSE cursor[v]]
      /\ shown' = [shown EXCEPT ![v] = t]
      /\ UNCHANGED <<server, stream, replay, queue, selected, history>>
  BY DEF Receive
<1>3. /\ x \in Published /\ x \in Ids /\ x \in Nat /\ Tail(wire[v]) \in Seq(Published)
      /\ cursor[v] \in Nat /\ epoch \in Nat
  <2>1. x \in Published /\ Tail(wire[v]) \in Seq(Published)
    BY <1>1, <1>2
  <2> QED BY <2>1, <1>1, Facts
<1> HIDE DEF x
<1>4. e \in Events /\ e.epoch = epoch /\ e.id = x
  BY <1>1, <1>3 DEF Events
<1> HIDE DEF e
<1>5. /\ t \in Seq(Events) /\ L \in Nat /\ DOMAIN s = 1..L /\ DOMAIN t = 1..L + 1 /\ t[L + 1] = e
      /\ \A m \in 1..L : t[m] = s[m]
  <2>1. s \in Seq(Events)
    BY <1>1
  <2> HIDE DEF s
  <2> QED BY <2>1, <1>4
<1> HIDE DEF t, s, L
<1>6. /\ wire'[v] = Tail(wire[v]) /\ cursor'[v] = (IF x > cursor[v] THEN x ELSE cursor[v]) /\ shown'[v] = t
      /\ \A w \in Viewers : w # v => wire'[w] = wire[w] /\ cursor'[w] = cursor[w] /\ shown'[w] = shown[w]
  BY <1>1, <1>2
<1>7. CallsAgree' /\ Published' = Published /\ \A w \in Viewers : PendingIds(w)' = PendingIds(w)
  <2>1. UNCHANGED <<log, pub, total>>
    BY <1>2 DEF server, history
  <2> QED BY <1>1, <2>1, CallsRest
<1>8. TypeOK'
  <2>1. wire' \in [Viewers -> Seq(Published)] /\ shown' \in [Viewers -> Seq(Events)]
    BY <1>1, <1>2, <1>3, <1>5
  <2>2. cursor' \in [Viewers -> 0..MaxEvents]
    <3>1. (IF x > cursor[v] THEN x ELSE cursor[v]) \in 0..MaxEvents
      BY <1>1, <1>3 DEF Ids
    <3> QED BY <3>1, <1>1, <1>2
  <2> QED BY <2>1, <2>2, <1>1, <1>2, <1>7 DEF TypeOK, server, history
<1>9. PageInv(v)'
  <2>1. /\ UNCHANGED <<epoch, log, selected, stream, replay, queue, lapsed, dropped, passed>>
    BY <1>2 DEF server, history
  <2>2. /\ Line(passed[v], Tail(wire[v]), replay[v], queue[v], PendingIds(v))
        /\ AllFollow(passed[v], {x}, Items(Tail(wire[v])) \cup Items(replay[v]) \cup Items(queue[v]) \cup PendingIds(v))
    <3>1. Line(passed[v], wire[v], replay[v], queue[v], PendingIds(v))
      BY <1>1 DEF PageInv, InLine
    <3> QED BY <3>1, <1>1, <1>2, LineReceive DEF x
  <2>3. /\ OnWay(v)' = Items(Tail(wire[v])) \cup Items(replay[v]) \cup Items(queue[v]) \cup PendingIds(v)
        /\ OnWay(v) = OnWay(v)' \cup {x}
    <3>1. Items(wire[v]) = Items(Tail(wire[v])) \cup {x}
      BY <1>1, <1>2, TakeFirst DEF x
    <3>2. OnWay(v)' = Items(Tail(wire[v])) \cup Items(replay[v]) \cup Items(queue[v]) \cup PendingIds(v)
      BY <2>1, <1>6, <1>7 DEF OnWay
    <3> QED BY <3>1, <3>2 DEF OnWay
  <2>4. \A y \in OnWay(v)' : Follows(passed[v], x, y)
    BY <2>2, <2>3 DEF AllFollow
  <2>5. stream[v] # "closed"
    BY <1>1, <1>2 DEF PageInv, Idle
  <2>6. Idle(v)'
    BY <2>1, <2>5 DEF Idle
  <2>7. InLine(v)'
    BY <2>1, <2>2, <1>6, <1>7 DEF InLine
  <2>8. \A m \in 1..L : s[m] \in Events /\ s[m].epoch \in Nat /\ s[m].id \in Nat /\ s[m].epoch <= epoch
                        /\ s[m].id <= cursor[v]
    <3>1. \A m \in 1..L : s[m] \in Events
      BY <1>1, <1>5
    <3>2. \A m \in 1..L : s[m].epoch <= epoch /\ s[m].id <= cursor[v]
      BY <1>1, <1>5 DEF PageInv, Rendered, s
    <3> QED BY <3>1, <3>2, <1>1 DEF Events, Ids
  <2>9. /\ \A i : StaleCursor(v, i) <=> \E n \in 1..L : s[n].epoch < epoch /\ s[n].id >= i
        /\ \A i : StaleCursor(v, i)' <=> \E n \in 1..L + 1 : t[n].epoch < epoch /\ t[n].id >= i
    BY <2>1, <1>5, <1>6 DEF StaleCursor, s
  <2>10. \A i : StaleCursor(v, i) <=> StaleCursor(v, i)'
    <3>1. ~(t[L + 1].epoch < epoch)
      BY <1>3, <1>4, <1>5
    <3>2. \A n \in 1..L + 1 : n \in 1..L \/ n = L + 1
      BY <1>5
    <3>3. \A n \in 1..L : n \in 1..L + 1
      BY <1>5
    <3> QED BY <3>1, <3>2, <3>3, <2>9, <1>5
  <2>11. \A m \in 1..L : Reset(v, m) => Reset(v, m)'
    <3> SUFFICES ASSUME NEW m \in 1..L, Reset(v, m) PROVE Reset(v, m)'
      OBVIOUS
    <3>1. PICK k \in 1..m : s[k].epoch < s[m].epoch /\ s[k].id > s[m].id
      BY DEF Reset, s
    <3>2. k \in 1..L
      BY <1>5
    <3> QED BY <3>1, <3>2, <1>5, <1>6 DEF Reset
  <2>12. \A y \in OnWay(v) : \A m \in 1..L : s[m].epoch = epoch =>
            \/ s[m].id < y
            \/ s[m].id > y /\ (y \in passed[v] \/ StaleCursor(v, y))
            \/ s[m].id = y /\ Reset(v, m)
    BY <1>1, <1>5 DEF PageInv, Behind, NotYet, s
  <2>13. Behind(v)'
    <3> SUFFICES ASSUME NEW y, y \in OnWay(v)', NEW m \in 1..L + 1, t[m].epoch = epoch
                 PROVE  \/ t[m].id < y
                        \/ t[m].id > y /\ (y \in passed[v] \/ StaleCursor(v, y)')
                        \/ t[m].id = y /\ Reset(v, m)'
      BY <2>1, <1>5, <1>6 DEF Behind, NotYet
    <3>1. CASE m \in 1..L
      <4>1. t[m] = s[m] /\ y \in OnWay(v)
        BY <3>1, <1>5, <2>3
      <4> QED BY <4>1, <3>1, <2>10, <2>11, <2>12
    <3>2. CASE m = L + 1
      <4>1. t[m].id = x
        BY <3>2, <1>4, <1>5
      <4> QED BY <4>1, <2>4 DEF Follows
    <3> QED BY <3>1, <3>2, <1>5
  <2>14. Rendered(v)'
    <3>1. ASSUME NEW m \in 1..L + 1
          PROVE  /\ t[m].id <= cursor'[v] /\ t[m].epoch <= epoch
                 /\ t[m].epoch = epoch => t[m].id \in Published
      <4>1. CASE m \in 1..L
        <5>1. t[m] = s[m] /\ s[m].id <= cursor[v] /\ s[m].id \in Nat /\ s[m].epoch <= epoch
          BY <4>1, <1>5, <2>8
        <5>2. s[m].epoch = epoch => s[m].id \in Published
          BY <4>1, <1>1, <1>5 DEF PageInv, Rendered, s
        <5>3. s[m].id <= cursor'[v]
          BY <5>1, <1>3, <1>6
        <5> QED BY <5>1, <5>2, <5>3
      <4>2. CASE m = L + 1
        BY <4>2, <1>3, <1>4, <1>5, <1>6
      <4> QED BY <4>1, <4>2, <1>5
    <3>2. ASSUME NEW m \in 1..L + 1, NEW n \in 1..L + 1, m < n PROVE t[m].epoch <= t[n].epoch
      <4>1. m \in 1..L
        BY <3>2, <1>5
      <4>2. CASE n \in 1..L
        <5>1. s[m].epoch <= s[n].epoch
          BY <3>2, <4>1, <4>2, <1>1, <1>5 DEF PageInv, Rendered, s
        <5> QED BY <5>1, <4>1, <4>2, <1>5
      <4>3. CASE n = L + 1
        BY <4>1, <4>3, <2>8, <1>4, <1>5
      <4> QED BY <4>2, <4>3, <1>5
    <3>3. ASSUME cursor'[v] # 0 PROVE \E m \in 1..L + 1 : t[m].id = cursor'[v]
      <4>1. CASE x > cursor[v]
        <5>1. L + 1 \in 1..L + 1 /\ t[L + 1].id = cursor'[v]
          BY <4>1, <1>4, <1>5, <1>6
        <5> QED BY <5>1
      <4>2. CASE ~(x > cursor[v])
        <5>1. cursor'[v] = cursor[v]
          BY <4>2, <1>6
        <5>2. PICK m \in 1..L : s[m].id = cursor[v]
          BY <5>1, <3>3, <1>1, <1>5 DEF PageInv, Rendered, s
        <5>3. m \in 1..L + 1 /\ t[m] = s[m]
          BY <1>5
        <5> QED BY <5>1, <5>2, <5>3
      <4> QED BY <4>1, <4>2
    <3> QED BY <3>1, <3>2, <3>3, <2>1, <1>5, <1>6, <1>7 DEF Rendered
  <2>15. Complete(v)'
    <3>1. \A i \in ShownIds(v) : i \in ShownIds(v)'
      <4> SUFFICES ASSUME NEW n \in 1..L, s[n].epoch = epoch PROVE s[n].id \in ShownIds(v)'
        BY <1>5 DEF ShownIds, s
      <4>1. n \in 1..L + 1 /\ t[n] = s[n]
        BY <1>5
      <4> QED BY <4>1, <1>5, <1>6, <2>1 DEF ShownIds
    <3>2. x \in ShownIds(v)'
      <4>1. L + 1 \in 1..L + 1 /\ t[L + 1].epoch = epoch /\ t[L + 1].id = x
        BY <1>4, <1>5
      <4> QED BY <4>1, <1>5, <1>6, <2>1 DEF ShownIds
    <3>3. \A i : (Excused(v, i) => Excused(v, i)') /\ (Visible(v, i)' <=> Visible(v, i))
      BY <2>1, <2>10 DEF Excused, Visible
    <3>4. \A i \in Published : Visible(v, i) => i \in ShownIds(v) \cup OnWay(v) \/ Excused(v, i)
      BY <1>1, <2>5 DEF PageInv, Complete
    <3>5. \A i \in Published : Visible(v, i) => i \in ShownIds(v)' \cup OnWay(v)' \/ Excused(v, i)'
      BY <3>1, <3>2, <3>3, <3>4, <2>3
    <3> QED BY <3>3, <3>5, <1>7 DEF Complete
  <2>16. RepeatedAfterReset(v)'
    <3> SUFFICES ASSUME NEW m \in 1..L + 1, NEW n \in 1..L + 1, m < n, t[m] = t[n] PROVE Reset(v, m)'
      BY <1>5, <1>6 DEF RepeatedAfterReset
    <3>1. m \in 1..L /\ t[m] = s[m]
      BY <1>5
    <3>2. CASE n \in 1..L
      <4>1. s[m] = s[n]
        BY <3>1, <3>2, <1>5
      <4>2. Reset(v, m)
        BY <4>1, <3>1, <3>2, <1>1, <1>5 DEF PageInv, RepeatedAfterReset, s
      <4> QED BY <4>2, <3>1, <2>11
    <3>3. CASE n = L + 1
      <4>1. s[m].epoch = epoch /\ s[m].id = x
        BY <3>1, <3>3, <1>4, <1>5
      <4>2. x \in OnWay(v)
        BY <2>3
      <4>3. Reset(v, m)
        BY <4>1, <4>2, <3>1, <2>12, <1>3
      <4> QED BY <4>3, <3>1, <2>11
    <3> QED BY <3>2, <3>3, <1>5
  <2>17. RenderedInOrder(v)'
    <3> SUFFICES ASSUME NEW m \in 1..L + 1, NEW n \in 1..L + 1, m < n,
                        t[m].epoch = epoch, t[n].epoch = epoch, t[m].id > t[n].id
                 PROVE  t[n].id \in passed[v] \/ StaleCursor(v, t[n].id)
      <4>1. \A i : StaleCursor(v, i) => StaleCursor(v, i)'
        BY <2>10
      <4> QED BY <4>1, <2>1, <1>5, <1>6 DEF RenderedInOrder
    <3>1. m \in 1..L /\ t[m] = s[m]
      BY <1>5
    <3>2. CASE n \in 1..L
      <4>1. t[n] = s[n]
        BY <3>2, <1>5
      <4> QED BY <4>1, <3>1, <3>2, <1>1, <1>5 DEF PageInv, RenderedInOrder, s
    <3>3. CASE n = L + 1
      <4>1. t[n].id = x /\ s[m].epoch = epoch /\ s[m].id > x /\ s[m].id \in Nat
        BY <3>1, <3>3, <2>8, <1>4, <1>5
      <4>2. x \in OnWay(v)
        BY <2>3
      <4> QED BY <4>1, <4>2, <3>1, <2>12, <1>3
    <3> QED BY <3>2, <3>3, <1>5
  <2> QED BY <2>6, <2>7, <2>13, <2>14, <2>15, <2>16, <2>17 DEF PageInv
<1>10. ASSUME NEW w \in Viewers, w # v PROVE PageInv(w)'
  <2>1. PageInv(w)
    BY DEF IInv
  <2> QED BY <2>1, <1>2, <1>6, <1>7, <1>10, Untouched DEF server, history
<1> QED BY <1>7, <1>8, <1>9, <1>10 DEF IInv

-----------------------------------------------------------------------------
(* The stream of a page ends.                                               *)

\* The stream of v is over: nothing is on its way, and no other page notices.
LEMMA StreamOver ==
    ASSUME IInv, UNCHANGED <<epoch, log, total>>, NEW v \in Viewers, Close({v}), Forget(v)
    PROVE  /\ pub' \in [Publishers -> Calls] /\ CallsAgree'
           /\ stream' \in [Viewers -> {"closed", "open"}]
           /\ {replay, queue, wire}' \subseteq [Viewers -> Seq(Published')]
           /\ \A w \in Viewers : Len(replay'[w]) <= Backlog /\ Len(queue'[w]) <= QueueSize
           /\ stream'[v] = "closed" /\ OnWay(v)' = {} /\ Idle(v)' /\ Behind(v)' /\ InLine(v)'
           /\ \A w \in Viewers : w # v => /\ stream'[w] = stream[w] /\ replay'[w] = replay[w]
                                          /\ queue'[w] = queue[w] /\ wire'[w] = wire[w]
                                          /\ PendingIds(w)' = PendingIds(w)
<1> DEFINE Emptied(f) == [w \in Viewers |-> IF w \in {v} THEN <<>> ELSE f[w]]
<1>1. /\ TypeOK /\ CallsAgree /\ replay \in [Viewers -> Seq(Published)]
      /\ queue \in [Viewers -> Seq(Published)] /\ wire \in [Viewers -> Seq(Published)]
      /\ \A w \in Viewers : Len(replay[w]) <= Backlog /\ Len(queue[w]) <= QueueSize
      /\ stream \in [Viewers -> {"closed", "open"}] /\ Backlog \in Nat /\ QueueSize \in Nat
  BY Facts DEF IInv, TypeOK
<1>2. /\ pub' \in [Publishers -> Calls] /\ CallsAgree' /\ PendingIds(v)' = {}
      /\ \A w \in Viewers : w # v => PendingIds(w)' = PendingIds(w)
  BY <1>1, CallsForget
<1>3. /\ stream' = [w \in Viewers |-> IF w \in {v} THEN "closed" ELSE stream[w]]
      /\ replay' = Emptied(replay) /\ queue' = Emptied(queue) /\ wire' = Emptied(wire)
  BY DEF Close
<1>4. \A f \in [Viewers -> Seq(Published)] :
         /\ Emptied(f) \in [Viewers -> Seq(Published)] /\ Emptied(f)[v] = <<>>
         /\ \A w \in Viewers : w # v => Emptied(f)[w] = f[w]
  <2>1. <<>> \in Seq(Published)
    OBVIOUS
  <2> QED BY <2>1
<1> HIDE DEF Emptied
<1>5. /\ replay'[v] = <<>> /\ queue'[v] = <<>> /\ wire'[v] = <<>> /\ stream'[v] = "closed"
      /\ \A w \in Viewers : w # v => /\ stream'[w] = stream[w] /\ replay'[w] = replay[w]
                                     /\ queue'[w] = queue[w] /\ wire'[w] = wire[w]
      /\ stream' \in [Viewers -> {"closed", "open"}]
  BY <1>1, <1>3, <1>4
<1>6. {replay, queue, wire}' \subseteq [Viewers -> Seq(Published')]
  <2>1. Published' = Published
    BY DEF Published
  <2>2. /\ Emptied(replay) \in [Viewers -> Seq(Published)] /\ Emptied(queue) \in [Viewers -> Seq(Published)]
        /\ Emptied(wire) \in [Viewers -> Seq(Published)]
    BY <1>1, <1>4
  <2> QED BY <2>1, <2>2, <1>3
<1>7. \A w \in Viewers : Len(replay'[w]) <= Backlog /\ Len(queue'[w]) <= QueueSize
  <2> SUFFICES ASSUME NEW w \in Viewers PROVE Len(replay'[w]) <= Backlog /\ Len(queue'[w]) <= QueueSize
    OBVIOUS
  <2>1. CASE w = v
    <3>1. Len(replay'[w]) = 0 /\ Len(queue'[w]) = 0
      BY <2>1, <1>5
    <3> QED BY <3>1, <1>1
  <2>2. CASE w # v
    BY <2>2, <1>1, <1>5
  <2> QED BY <2>1, <2>2
<1>8. OnWay(v)' = {}
  <2>1. Items(<<>>) = {}
    BY DEF Items
  <2> QED BY <2>1, <1>2, <1>5 DEF OnWay
<1>9. Idle(v)' /\ Behind(v)'
  BY <1>2, <1>5, <1>8 DEF Idle, Behind
<1>10. InLine(v)'
  <2>1. Sorted(passed'[v], <<>>)
    BY DEF Sorted
  <2>2. Line(passed'[v], <<>>, <<>>, <<>>, {})
    BY <2>1, LineOpen
  <2> QED BY <2>2, <1>2, <1>5 DEF InLine
<1> QED BY <1>2, <1>5, <1>6, <1>7, <1>8, <1>9, <1>10

\* source.onerror: what was on its way is beyond the cursor, unless it is excused.
LEMMA CutStep ==
    ASSUME IInv, NEW v \in Viewers, Cut(v)
    PROVE  IInv'
<1>1. /\ TypeOK /\ CallsAgree /\ PageInv(v) /\ Published \subseteq Nat /\ cursor[v] \in Nat /\ epoch \in Nat
      /\ shown[v] \in Seq(Events)
  <2>1. TypeOK /\ cursor[v] \in 0..MaxEvents /\ epoch \in 0..MaxRestarts
    BY DEF IInv, TypeOK
  <2>2. cursor[v] \in Nat /\ epoch \in Nat
    BY <2>1, ParametersOK
  <2> QED BY <2>1, <2>2, Facts DEF IInv, TypeOK
<1>2. /\ stream[v] = "open" /\ cuts < MaxCuts /\ cuts' = cuts + 1 /\ Close({v}) /\ Forget(v)
      /\ UNCHANGED <<epoch, log, page, total, lapsed, dropped, passed>>
  BY DEF Cut
<1>3. /\ pub' \in [Publishers -> Calls] /\ CallsAgree'
      /\ stream' \in [Viewers -> {"closed", "open"}]
      /\ {replay, queue, wire}' \subseteq [Viewers -> Seq(Published')]
      /\ \A w \in Viewers : Len(replay'[w]) <= Backlog /\ Len(queue'[w]) <= QueueSize
      /\ stream'[v] = "closed" /\ OnWay(v)' = {} /\ Idle(v)' /\ Behind(v)' /\ InLine(v)'
      /\ \A w \in Viewers : w # v => /\ stream'[w] = stream[w] /\ replay'[w] = replay[w]
                                     /\ queue'[w] = queue[w] /\ wire'[w] = wire[w]
                                     /\ PendingIds(w)' = PendingIds(w)
  BY <1>2, StreamOver
<1>4. TypeOK'
  <2>1. cuts' \in 0..MaxCuts
    <3>1. cuts \in 0..MaxCuts /\ MaxCuts \in Nat
      BY <1>1, ParametersOK DEF TypeOK
    <3> QED BY <3>1, <1>2
  <2>2. Published' = Published
    BY <1>2 DEF Published
  <2> QED BY <2>1, <2>2, <1>1, <1>2, <1>3 DEF TypeOK, page
<1>5. PageInv(v)'
  <2>1. /\ \A i : StaleCursor(v, i)' <=> StaleCursor(v, i)
        /\ \A m : Reset(v, m)' <=> Reset(v, m)
        /\ ShownIds(v)' = ShownIds(v)
        /\ \A i : Visible(v, i)' <=> Visible(v, i)
        /\ \A i : Excused(v, i)' <=> Excused(v, i)
        /\ Published' = Published
    BY <1>2 DEF StaleCursor, Reset, ShownIds, Visible, Excused, Published, page
  <2>2. Rendered(v)'
    BY <1>1, <1>2, <2>1 DEF PageInv, Rendered, page
  <2>3. RepeatedAfterReset(v)' /\ RenderedInOrder(v)'
    <3>1. RepeatedAfterReset(v) /\ RenderedInOrder(v)
      BY <1>1 DEF PageInv
    <3>2. RepeatedAfterReset(v)'
      BY <3>1, <2>1, <1>2 DEF RepeatedAfterReset, page
    <3>3. RenderedInOrder(v)'
      BY <3>1, <2>1, <1>2 DEF RenderedInOrder, page
    <3> QED BY <3>2, <3>3
  <2>4. \A m \in DOMAIN shown[v] : /\ shown[v][m].epoch \in Nat /\ shown[v][m].id \in Nat
                                   /\ shown[v][m].epoch <= epoch
    <3>1. \A m \in DOMAIN shown[v] : shown[v][m] \in Events /\ shown[v][m].epoch <= epoch
      BY <1>1 DEF PageInv, Rendered
    <3>2. MaxRestarts \in Nat /\ MaxEvents \in Nat
      BY ParametersOK
    <3> QED BY <3>1, <3>2 DEF Events, Ids
  <2>5. ASSUME NEW i \in Published, i \in OnWay(v), i <= cursor[v]
        PROVE  i \in ShownIds(v) \/ Excused(v, i)
    <3>1. cursor[v] # 0 /\ i \in Nat
      BY <2>5, <1>1, Facts DEF Published
    <3>2. PICK m \in DOMAIN shown[v] : shown[v][m].id = cursor[v]
      BY <3>1, <1>1 DEF PageInv, Rendered
    <3>3. CASE shown[v][m].epoch = epoch
      <4>1. \/ shown[v][m].id < i
            \/ shown[v][m].id > i /\ (i \in passed[v] \/ StaleCursor(v, i))
            \/ shown[v][m].id = i /\ Reset(v, m)
        BY <3>3, <2>5, <1>1 DEF PageInv, Behind, NotYet
      <4>2. ~(shown[v][m].id < i)
        BY <3>1, <3>2, <2>5, <1>1
      <4>3. shown[v][m].id = i => i \in ShownIds(v)
        BY <3>3 DEF ShownIds
      <4> QED BY <4>1, <4>2, <4>3 DEF Excused
    <3>4. CASE shown[v][m].epoch # epoch
      <4>1. shown[v][m].epoch < epoch /\ shown[v][m].id >= i
        BY <3>1, <3>2, <3>4, <2>4, <2>5, <1>1
      <4>2. StaleCursor(v, i)
        BY <4>1 DEF StaleCursor
      <4> QED BY <4>2 DEF Excused
    <3> QED BY <3>3, <3>4
  <2>6. Complete(v)'
    <3>1. \A i \in Published : Visible(v, i) => i \in ShownIds(v) \cup OnWay(v) \/ Excused(v, i)
      BY <1>1, <1>2 DEF PageInv, Complete
    <3>2. \A i \in Published : i <= cursor[v] \/ i > cursor[v]
      BY <1>1
    <3>3. \A i \in Published : Visible(v, i) => i \in ShownIds(v) \/ Excused(v, i) \/ i > cursor[v]
      BY <3>1, <3>2, <2>5
    <3> QED BY <3>3, <2>1, <1>2, <1>3 DEF Complete, page
  <2> QED BY <1>3, <2>2, <2>3, <2>6 DEF PageInv
<1>6. ASSUME NEW w \in Viewers, w # v PROVE PageInv(w)'
  <2>1. PageInv(w)
    BY DEF IInv
  <2> QED BY <2>1, <1>2, <1>3, <1>6, Untouched DEF page
<1> QED BY <1>3, <1>4, <1>5, <1>6 DEF IInv

\* Another device is chosen: the page begins anew.
LEMMA ChooseStep ==
    ASSUME IInv, NEW v \in Viewers, NEW d \in Devices, Choose(v, d)
    PROVE  IInv'
<1>1. /\ TypeOK /\ selected \in [Viewers -> Devices] /\ cursor \in [Viewers -> 0..MaxEvents]
      /\ shown \in [Viewers -> Seq(Events)] /\ lapsed \in [Viewers -> SUBSET Ids]
      /\ dropped \in [Viewers -> SUBSET Ids] /\ passed \in [Viewers -> SUBSET Ids]
  BY DEF IInv, TypeOK
<1>2. /\ selected' = [selected EXCEPT ![v] = d] /\ cursor' = [cursor EXCEPT ![v] = 0]
      /\ shown' = [shown EXCEPT ![v] = <<>>] /\ lapsed' = [lapsed EXCEPT ![v] = {}]
      /\ dropped' = [dropped EXCEPT ![v] = {}] /\ passed' = [passed EXCEPT ![v] = {}]
      /\ Close({v}) /\ Forget(v) /\ UNCHANGED <<epoch, log, total, cuts>>
  BY DEF Choose
<1>3. /\ pub' \in [Publishers -> Calls] /\ CallsAgree'
      /\ stream' \in [Viewers -> {"closed", "open"}]
      /\ {replay, queue, wire}' \subseteq [Viewers -> Seq(Published')]
      /\ \A w \in Viewers : Len(replay'[w]) <= Backlog /\ Len(queue'[w]) <= QueueSize
      /\ stream'[v] = "closed" /\ OnWay(v)' = {} /\ Idle(v)' /\ Behind(v)' /\ InLine(v)'
      /\ \A w \in Viewers : w # v => /\ stream'[w] = stream[w] /\ replay'[w] = replay[w]
                                     /\ queue'[w] = queue[w] /\ wire'[w] = wire[w]
                                     /\ PendingIds(w)' = PendingIds(w)
  BY <1>2, StreamOver
<1>4. /\ cursor'[v] = 0 /\ shown'[v] = <<>>
      /\ \A w \in Viewers : w # v => /\ selected'[w] = selected[w] /\ cursor'[w] = cursor[w]
                                     /\ shown'[w] = shown[w] /\ lapsed'[w] = lapsed[w]
                                     /\ dropped'[w] = dropped[w] /\ passed'[w] = passed[w]
  BY <1>1, <1>2
<1>5. TypeOK'
  <2>1. /\ selected' \in [Viewers -> Devices] /\ lapsed' \in [Viewers -> SUBSET Ids]
        /\ dropped' \in [Viewers -> SUBSET Ids] /\ passed' \in [Viewers -> SUBSET Ids]
    BY <1>1, <1>2
  <2>2. cursor' \in [Viewers -> 0..MaxEvents]
    <3>1. 0 \in 0..MaxEvents
      BY ParametersOK
    <3> QED BY <3>1, <1>1, <1>2
  <2>3. shown' \in [Viewers -> Seq(Events)]
    <3>1. <<>> \in Seq(Events)
      OBVIOUS
    <3> QED BY <3>1, <1>1, <1>2
  <2> QED BY <2>1, <2>2, <2>3, <1>1, <1>2, <1>3 DEF TypeOK
<1>6. PageInv(v)'
  <2>1. DOMAIN shown'[v] = {}
    BY <1>4
  <2>2. Rendered(v)' /\ RepeatedAfterReset(v)' /\ RenderedInOrder(v)'
    BY <2>1, <1>4 DEF Rendered, RepeatedAfterReset, RenderedInOrder
  <2>3. Complete(v)'
    <3>1. \A i \in Published' : i > 0
      BY <1>1, <1>2, Facts DEF Published
    <3> QED BY <3>1, <1>3, <1>4 DEF Complete
  <2> QED BY <1>3, <2>2, <2>3 DEF PageInv
<1>7. ASSUME NEW w \in Viewers, w # v PROVE PageInv(w)'
  <2>1. PageInv(w)
    BY DEF IInv
  <2> QED BY <2>1, <1>2, <1>3, <1>4, <1>7, Untouched
<1> QED BY <1>3, <1>5, <1>6, <1>7 DEF IInv

\* A page nothing has been published for, with no stream.
LEMMA NothingYet ==
    ASSUME NEW v \in Viewers, log = <<>>, stream[v] = "closed", replay[v] = <<>>, queue[v] = <<>>,
           wire[v] = <<>>, PendingIds(v) = {}, Rendered(v), RepeatedAfterReset(v),
           \A m \in DOMAIN shown[v] : shown[v][m].epoch # epoch
    PROVE  PageInv(v)
<1>1. Items(<<>>) = {} /\ Sorted(passed[v], <<>>) /\ Published = {}
  BY DEF Items, Sorted, Published
<1>2. OnWay(v) = {}
  BY <1>1 DEF OnWay
<1>3. Idle(v) /\ Behind(v) /\ Complete(v) /\ RenderedInOrder(v)
  BY <1>1, <1>2 DEF Idle, Behind, Complete, RenderedInOrder
<1>4. InLine(v)
  <2>1. Line(passed[v], <<>>, <<>>, <<>>, {})
    BY <1>1, LineOpen
  <2> QED BY <2>1 DEF InLine
<1> QED BY <1>3, <1>4 DEF PageInv

\* No call is under way, and nothing has been published.
LEMMA NoCalls ==
    ASSUME log = <<>>, total \in Nat, pub = [p \in Publishers |-> Done]
    PROVE  /\ pub \in [Publishers -> Calls] /\ CallsAgree /\ \A v \in Viewers : PendingIds(v) = {}
<1>1. 0 \in 0..MaxEvents
  BY ParametersOK
<1>2. Done \in Calls /\ Proper(Done) /\ Waiting(Done) = {}
  BY <1>1 DEF Done, Calls, Proper, Waiting
<1>3. pub \in [Publishers -> Calls] /\ \A p \in Publishers : pub[p] = Done
  BY <1>2
<1>4. Len(log) <= total
  OBVIOUS
<1> QED BY <1>2, <1>3, <1>4 DEF CallsAgree, PendingIds

LEMMA RestartStep ==
    ASSUME IInv, Restart
    PROVE  IInv'
<1>1. /\ TypeOK /\ epoch \in 0..MaxRestarts /\ MaxRestarts \in Nat /\ MaxEvents \in Nat
      /\ total \in 0..MaxEvents /\ Backlog \in Nat /\ QueueSize \in Nat
  BY Facts DEF IInv, TypeOK
<1>2. /\ epoch < MaxRestarts /\ epoch' = epoch + 1 /\ log' = <<>> /\ pub' = [p \in Publishers |-> Done]
      /\ Close(Viewers) /\ lapsed' = [v \in Viewers |-> {}] /\ dropped' = [v \in Viewers |-> {}]
      /\ passed' = [v \in Viewers |-> {}] /\ UNCHANGED <<page, total, cuts>>
  BY DEF Restart
<1>3. /\ stream' = [v \in Viewers |-> "closed"] /\ replay' = [v \in Viewers |-> <<>>]
      /\ queue' = [v \in Viewers |-> <<>>] /\ wire' = [v \in Viewers |-> <<>>]
  BY <1>2 DEF Close
<1>4. /\ pub' \in [Publishers -> Calls] /\ CallsAgree' /\ \A v \in Viewers : PendingIds(v)' = {}
  <2>1. 0 \in 0..MaxEvents
    BY <1>1
  <2>2. Done \in Calls /\ Proper(Done) /\ Waiting(Done) = {}
    BY <2>1 DEF Done, Calls, Proper, Waiting
  <2>3. pub' \in [Publishers -> Calls] /\ \A p \in Publishers : pub'[p] = Done
    BY <2>2, <1>2
  <2>4. Len(log') <= total'
    BY <1>1, <1>2
  <2>5. CallsAgree'
    BY <2>2, <2>3, <2>4 DEF CallsAgree, Proper, Waiting, Done
  <2>6. \A v \in Viewers : PendingIds(v)' = {pub'[p].id : p \in {p \in Publishers : v \in Waiting(pub'[p])}}
    BY DEF PendingIds, Waiting
  <2> QED BY <2>2, <2>3, <2>5, <2>6
<1>5. TypeOK'
  <2>1. epoch' \in 0..MaxRestarts
    BY <1>1, <1>2
  <2>2. log' \in Seq(Devices \cup {NoDevice}) /\ Len(log') <= MaxEvents
    BY <1>1, <1>2
  <2>3. {replay, queue, wire}' \subseteq [Viewers -> Seq(Published')]
    <3>1. <<>> \in Seq(Published')
      OBVIOUS
    <3> QED BY <3>1, <1>3
  <2>4. \A v \in Viewers : Len(replay'[v]) <= Backlog /\ Len(queue'[v]) <= QueueSize
    <3>1. Len(<<>>) = 0
      OBVIOUS
    <3> QED BY <3>1, <1>1, <1>3
  <2>5. /\ stream' \in [Viewers -> {"closed", "open"}] /\ lapsed' \in [Viewers -> SUBSET Ids]
        /\ dropped' \in [Viewers -> SUBSET Ids] /\ passed' \in [Viewers -> SUBSET Ids]
    BY <1>2, <1>3
  <2> QED BY <2>1, <2>2, <2>3, <2>4, <2>5, <1>1, <1>2, <1>4 DEF TypeOK, page
<1>6. ASSUME NEW v \in Viewers PROVE PageInv(v)'
  <2>1. /\ PageInv(v) /\ shown' = shown /\ cursor' = cursor /\ shown[v] \in Seq(Events)
        /\ epoch \in Nat
    BY <1>1, <1>2 DEF IInv, TypeOK, page
  <2>2. \A m \in DOMAIN shown[v] : shown[v][m].epoch \in Nat /\ shown[v][m].epoch <= epoch
    <3>1. \A m \in DOMAIN shown[v] : shown[v][m] \in Events /\ shown[v][m].epoch <= epoch
      BY <2>1 DEF PageInv, Rendered
    <3> QED BY <3>1, <1>1 DEF Events
  <2>3. \A m \in DOMAIN shown[v] : shown[v][m].epoch # epoch' /\ shown[v][m].epoch <= epoch'
    BY <2>1, <2>2, <1>2
  <2>4. Rendered(v)'
    BY <2>1, <2>3 DEF PageInv, Rendered
  <2>5. RepeatedAfterReset(v)'
    BY <2>1 DEF PageInv, RepeatedAfterReset, Reset
  <2>6. /\ stream'[v] = "closed" /\ replay'[v] = <<>> /\ queue'[v] = <<>> /\ wire'[v] = <<>>
    BY <1>3
  <2>7. OnWay(v)' = {} /\ Published' = {}
    <3>1. Items(<<>>) = {} /\ 1..Len(<<>>) = {}
      BY DEF Items
    <3> QED BY <3>1, <2>6, <1>2, <1>4 DEF OnWay, Published
  <2>8. Idle(v)' /\ Behind(v)' /\ Complete(v)'
    BY <2>6, <2>7, <1>4 DEF Idle, Behind, Complete
  <2>9. RenderedInOrder(v)'
    BY <2>1, <2>3 DEF RenderedInOrder
  <2>10. InLine(v)'
    <3>1. Sorted(passed'[v], <<>>)
      BY DEF Sorted
    <3>2. Line(passed'[v], <<>>, <<>>, <<>>, {})
      BY <3>1, LineOpen
    <3> QED BY <3>2, <2>6, <1>4 DEF InLine
  <2> QED BY <2>4, <2>5, <2>8, <2>9, <2>10 DEF PageInv
<1> QED BY <1>4, <1>5, <1>6 DEF IInv

-----------------------------------------------------------------------------
(* The theorems.                                                            *)

LEMMA Beginning ==
    ASSUME Init
    PROVE  IInv
<1>1. MaxRestarts \in Nat /\ MaxEvents \in Nat /\ MaxCuts \in Nat /\ Backlog \in Nat /\ QueueSize \in Nat
  BY ParametersOK
<1>2. /\ pub \in [Publishers -> Calls] /\ CallsAgree /\ \A v \in Viewers : PendingIds(v) = {}
  <2>1. log = <<>> /\ total \in Nat /\ pub = [p \in Publishers |-> Done]
    BY DEF Init
  <2> QED BY <2>1, NoCalls
<1>3. TypeOK
  <2>1. /\ epoch \in 0..MaxRestarts /\ total \in 0..MaxEvents /\ cuts \in 0..MaxCuts
        /\ 0 \in 0..MaxEvents /\ log \in Seq(Devices \cup {NoDevice}) /\ Len(log) <= MaxEvents
    BY <1>1 DEF Init
  <2>2. <<>> \in Seq(Published) /\ <<>> \in Seq(Events) /\ Len(<<>>) = 0
    OBVIOUS
  <2>3. {replay, queue, wire} \subseteq [Viewers -> Seq(Published)] /\ shown \in [Viewers -> Seq(Events)]
    BY <2>2 DEF Init
  <2>4. \A v \in Viewers : Len(replay[v]) <= Backlog /\ Len(queue[v]) <= QueueSize
    BY <2>2, <1>1 DEF Init
  <2>5. cursor \in [Viewers -> 0..MaxEvents]
    BY <2>1 DEF Init
  <2>6. /\ stream \in [Viewers -> {"closed", "open"}] /\ selected \in [Viewers -> Devices]
        /\ lapsed \in [Viewers -> SUBSET Ids] /\ dropped \in [Viewers -> SUBSET Ids]
        /\ passed \in [Viewers -> SUBSET Ids]
    BY DEF Init
  <2> QED BY <1>2, <2>1, <2>3, <2>4, <2>5, <2>6 DEF TypeOK
<1>4. ASSUME NEW v \in Viewers PROVE PageInv(v)
  <2>1. /\ shown[v] = <<>> /\ cursor[v] = 0 /\ log = <<>> /\ stream[v] = "closed"
        /\ replay[v] = <<>> /\ queue[v] = <<>> /\ wire[v] = <<>> /\ DOMAIN shown[v] = {}
    BY DEF Init
  <2>2. Rendered(v) /\ RepeatedAfterReset(v)
    BY <2>1 DEF Rendered, RepeatedAfterReset
  <2> QED BY <2>1, <2>2, <1>2, NothingYet
<1> QED BY <1>2, <1>3, <1>4 DEF IInv

LEMMA Step ==
    ASSUME IInv, [Next]_vars
    PROVE  IInv'
<1>1. CASE \E p \in Publishers, d \in Devices \cup {NoDevice} : Publish(p, d)
  BY <1>1, PublishStep
<1>2. CASE \E p \in Publishers : PublisherStep(p)
  BY <1>2, PutStep, PutFullStep, EvictStep, PutAgainStep DEF PublisherStep
<1>3. CASE \E v \in Viewers : Open(v) \/ StreamStep(v) \/ Receive(v) \/ Cut(v)
  BY <1>3, OpenStep, YieldHistoryStep, YieldLiveStep, ReceiveStep, CutStep DEF StreamStep
<1>4. CASE \E v \in Viewers, d \in Devices : Choose(v, d)
  BY <1>4, ChooseStep
<1>5. CASE Restart
  BY <1>5, RestartStep
<1>6. CASE UNCHANGED vars
  <2>1. UNCHANGED <<server, streams, page, history>>
    BY <1>6 DEF vars
  <2>2. /\ UNCHANGED <<log, pub, total>>
        /\ UNCHANGED <<epoch, stream, replay, queue, wire, cursor, selected, shown, cuts, lapsed, dropped, passed>>
    BY <2>1 DEF server, streams, page, history
  <2>3. CallsAgree' /\ Published' = Published /\ \A w \in Viewers : PendingIds(w)' = PendingIds(w)
    BY <2>2, CallsRest DEF IInv
  <2>4. ASSUME NEW v \in Viewers PROVE PageInv(v)'
    BY <2>2, <2>3, Untouched DEF IInv
  <2>5. TypeOK'
    BY <2>2, <2>3 DEF IInv, TypeOK
  <2> QED BY <2>3, <2>4, <2>5 DEF IInv
<1> QED BY <1>1, <1>2, <1>3, <1>4, <1>5, <1>6 DEF Next

\* The invariant holds in every state, however publishers, streams and pages
\* interleave.
THEOREM Invariance == Spec => []IInv
<1>1. Init => IInv
  BY Beginning
<1>2. IInv /\ [Next]_vars => IInv'
  BY Step
<1> QED BY <1>1, <1>2, PTL DEF Spec

\* The variables keep their types: the history and the queues their limits.
THEOREM Typing == Spec => []TypeOK
<1>1. IInv => TypeOK
  BY DEF IInv
<1> QED BY <1>1, Invariance, PTL

\* iot.py:346-368: an event of the selected device is on the page, on its way or
\* missing for one of the four reasons the code has; nothing else loses one.
THEOREM NothingLost == Spec => []NothingLostUnexcused
<1>1. IInv => NothingLostUnexcused
  <2> SUFFICES ASSUME IInv, NEW v \in Viewers, stream[v] = "open", NEW i \in 1..Len(log), Visible(v, i)
               PROVE  \/ i \in ShownIds(v) \cup Items(wire[v]) \cup Items(replay[v]) \cup Items(queue[v])
                      \/ \E p \in Publishers : pub[p].id = i /\ v \in Waiting(pub[p])
                      \/ Excused(v, i)
    BY DEF NothingLostUnexcused
  <2>1. i \in ShownIds(v) \cup OnWay(v) \/ Excused(v, i)
    BY DEF IInv, PageInv, Complete, Published
  <2>2. i \in PendingIds(v) => \E p \in Publishers : pub[p].id = i /\ v \in Waiting(pub[p])
    BY DEF PendingIds
  <2> QED BY <2>1, <2>2 DEF OnWay
<1> QED BY <1>1, Invariance, PTL

\* README.md:140-141: a page renders an event twice only after its cursor came
\* from an earlier server process.
THEOREM RepeatsExplained == Spec => []RepeatedOnlyAfterRestart
<1>1. IInv => RepeatedOnlyAfterRestart
  BY DEF IInv, PageInv, RepeatedAfterReset, Reset, RepeatedOnlyAfterRestart
<1> QED BY <1>1, Invariance, PTL

\* A page renders events in their order, but for those overtaken on the way to the
\* queue and those of a cursor of an earlier process.
THEOREM OrderKept == Spec => []InOrderUnlessPassed
<1>1. IInv => InOrderUnlessPassed
  BY DEF IInv, PageInv, RenderedInOrder, InOrderUnlessPassed
<1> QED BY <1>1, Invariance, PTL
=============================================================================
