--------------------------- MODULE ChunkQueueProofs ---------------------------
(***************************************************************************)
(* What ChunkQueue guarantees for any devices, chunks, window, attempts    *)
(* and backoff, with failures, late POSTs and restarts unlimited.          *)
(*                                                                         *)
(* The argument is IInv, below.  The worker alone changes the state of a   *)
(* row that exists, so the row it POSTs stays pending until it marks it    *)
(* (WorkerAgrees); every POST is numbered when it is made, so what is      *)
(* accepted can be counted against the attempts (PostsAgree); and a row is *)
(* passed by a younger one only while it waits after a failure.  Each      *)
(* conjunct is taken through every action by a lemma of its own.           *)
(***************************************************************************)
EXTENDS ChunkQueue, FiniteSetTheorems, TLAPS

-----------------------------------------------------------------------------
(* The inductive invariant.                                                 *)

\* A row exists below the counter and nowhere else, and only a row that a
\* POST of failed waits.
RowsAgree ==
    \A i \in Ids :
        /\ status[i] = "none" <=> i > count
        /\ i <= count => chunk[i] \in Chunks
        /\ i > count => attempts[i] = 0 /\ posts[i] = 0
        /\ wait[i] > 0 => attempts[i] > 0

\* The worker's row stays pending until the worker itself marks it, and a
\* success it is about to mark was accepted by Memfault.
WorkerAgrees ==
    /\ worker.at # "idle" => worker.row \in 1..count
    /\ worker.at \in {"posting", "marking"} =>
          status[worker.row] = "pending" /\ posts[worker.row] > 0
    /\ worker.at = "marking" /\ worker.ok => Accepted(<<worker.row, posts[worker.row]>>)
    /\ worker.at = "health" =>
          IF worker.ok THEN status[worker.row] = "sent" ELSE attempts[worker.row] > 0

\* A POST that was made is on its way, accepted, or gone, and never two of
\* these; a row that was passed by a younger one had failed or been sent, and
\* what is still on its way of it was repeated.
PostsAgree ==
    /\ \A p \in wire : p[2] \in 1..posts[p[1]] /\ ~Accepted(p)
    /\ \A n \in DOMAIN taken : taken[n][2] \in 1..posts[taken[n][1]]
    /\ \A m, n \in DOMAIN taken : taken[m] = taken[n] => m = n
    /\ \A i, j \in Ids : i < j /\ posts[j] > 0 => attempts[i] > 0 \/ status[i] = "sent"
    /\ \A p \in wire : \A j \in Ids :
          p[1] < j /\ posts[j] > 0 => attempts[p[1]] + aborts > 0

IInv ==
    /\ TypeOK /\ RowsAgree /\ WorkerAgrees /\ PostsAgree
    /\ NoRepeatWithinWindow /\ StatusIsEarned /\ OnlyRetriesRepeat

-----------------------------------------------------------------------------
(* What the operators and the two steps with several assignments do.        *)

LEMMA BackoffIsNat == ASSUME NEW a PROVE Backoff(a) \in Nat
BY ParametersOK DEF Backoff

\* What Memfault accepted it keeps, and one POST is added at the end.
LEMMA AcceptsOne ==
    ASSUME TypeOK, NEW p \in wire, MemfaultAccepts(p)
    PROVE  /\ DOMAIN taken = 1..Len(taken) /\ Len(taken) \in Nat
           /\ DOMAIN taken' = 1..(Len(taken) + 1)
           /\ \A n \in DOMAIN taken : n \in DOMAIN taken' /\ taken'[n] = taken[n]
           /\ taken'[Len(taken) + 1] = p
           /\ p[1] \in Ids /\ p[2] \in Nat /\ p = <<p[1], p[2]>>
           /\ \A q : Accepted(q)' <=> Accepted(q) \/ q = p
<1>1. p \in Ids \X Nat /\ taken \in Seq(Ids \X Nat) /\ taken' = Append(taken, p)
  BY DEF TypeOK, MemfaultAccepts
<1>2. /\ Len(taken) \in Nat /\ DOMAIN taken = 1..Len(taken)
      /\ DOMAIN taken' = 1..(Len(taken) + 1)
      /\ \A n \in 1..Len(taken) : taken'[n] = taken[n]
      /\ taken'[Len(taken) + 1] = p
  BY <1>1
<1>. QED
  BY <1>1, <1>2 DEF Accepted

\* mark_memfault_chunk_attempt_failed, row by row.
LEMMA FailureMarks ==
    ASSUME TypeOK, WorkerAgrees, StatusIsEarned, MarkFailed
    PROVE  /\ worker.row \in Ids /\ worker.row <= count /\ status[worker.row] = "pending"
           /\ attempts[worker.row] \in 0..(MaxAttempts - 1)
           /\ attempts'[worker.row] = attempts[worker.row] + 1
           /\ status'[worker.row] = IF attempts'[worker.row] = MaxAttempts
                                    THEN "failed" ELSE "pending"
           /\ wait'[worker.row] \in Nat
           /\ \A j \in Ids \ {worker.row} :
                attempts'[j] = attempts[j] /\ status'[j] = status[j] /\ wait'[j] = wait[j]
<1> USE ParametersOK
<1>1. worker.row \in Ids /\ worker.row <= count /\ status[worker.row] = "pending"
  BY DEF WorkerAgrees, MarkFailed, TypeOK, Ids
<1>2. attempts[worker.row] \in 0..(MaxAttempts - 1)
  BY <1>1 DEF StatusIsEarned, TypeOK
<1>3. wait'[worker.row] \in Nat
  BY <1>1, BackoffIsNat DEF MarkFailed, TypeOK
<1>. QED
  BY <1>1, <1>2, <1>3 DEF MarkFailed, TypeOK

\* A row that is behind the worker's choice is not due: it failed or was sent.
LEMMA PassedOver ==
    ASSUME TypeOK, RowsAgree, StatusIsEarned, NEW j \in Ids, TakeNext(j), NEW i \in Ids, i < j
    PROVE  attempts[i] > 0 \/ status[i] = "sent"
<1> USE ParametersOK DEF Ids
<1>1. i <= count /\ status[i] # "none"
  <2>1. status[j] # "none"
    BY DEF TakeNext, Due
  <2>2. j <= count /\ count \in Nat
    BY <2>1 DEF RowsAgree, TypeOK
  <2>. QED
    BY <2>2 DEF RowsAgree
<1>2. ~Due(i)
  BY DEF TakeNext
<1>3. CASE status[i] = "pending"
  BY <1>2, <1>3 DEF Due, RowsAgree, TypeOK
<1>4. CASE status[i] = "failed"
  BY <1>4 DEF StatusIsEarned, TypeOK
<1>. QED
  BY <1>1, <1>3, <1>4 DEF TypeOK

-----------------------------------------------------------------------------
(* The conjuncts of the invariant, one lemma each.                          *)

\* No step takes a variable out of its range: a row is retried only while it is
\* pending, and a pending row has attempts left.
LEMMA TypeStep == IInv /\ [Next]_vars => TypeOK'
<1> SUFFICES ASSUME TypeOK, WorkerAgrees, StatusIsEarned, [Next]_vars PROVE TypeOK'
  BY DEF IInv
<1> USE ParametersOK DEF TypeOK
<1>1. ASSUME NEW c \in Chunks, Enqueue(c) PROVE TypeOK'
  <2>1. count + 1 \in Ids /\ count' \in 0..MaxRows
    BY <1>1 DEF Enqueue, Ids
  <2>. QED
    BY <1>1, <2>1 DEF Enqueue
<1>2. ASSUME NEW i \in Ids, TakeNext(i) PROVE TypeOK'
  <2>1. wire' \subseteq Ids \X Nat /\ posts' \in [Ids -> Nat]
    BY <1>2 DEF TakeNext
  <2>2. worker' \in [at : {"idle", "posting", "marking", "health"},
                     row : 0..MaxRows, ok : BOOLEAN]
    BY <1>2 DEF TakeNext, Ids
  <2>. QED
    BY <1>2, <2>1, <2>2 DEF TakeNext, queueVars
<1>3. ASSUME Answered202 PROVE TypeOK'
  BY <1>3 DEF Answered202, queueVars
<1>4. ASSUME PostFails PROVE TypeOK'
  BY <1>4 DEF PostFails, GiveUpPost, queueVars
<1>5. ASSUME MarkSent PROVE TypeOK'
  BY <1>5 DEF MarkSent
<1>6. ASSUME MarkFailed PROVE TypeOK'
  <2>. HIDE DEF TypeOK
  <2>1. /\ attempts' \in [Ids -> 0..MaxAttempts] /\ wait' \in [Ids -> Nat]
        /\ status' \in [Ids -> {"none", "pending", "sent", "failed"}]
    <3>1. /\ DOMAIN attempts' = Ids /\ DOMAIN wait' = Ids /\ DOMAIN status' = Ids
          /\ attempts' = [k \in Ids |-> attempts'[k]] /\ wait' = [k \in Ids |-> wait'[k]]
          /\ status' = [k \in Ids |-> status'[k]]
      BY <1>6 DEF MarkFailed, TypeOK
    <3>2. ASSUME NEW k \in Ids
          PROVE  /\ attempts'[k] \in 0..MaxAttempts /\ wait'[k] \in Nat
                 /\ status'[k] \in {"none", "pending", "sent", "failed"}
      <4>1. CASE k = worker.row
        BY <1>6, <4>1, FailureMarks
      <4>2. CASE k # worker.row
        BY <1>6, <4>2, FailureMarks DEF TypeOK
      <4>. QED
        BY <4>1, <4>2
    <3>. QED
      BY <3>1, <3>2
  <2>. QED
    BY <1>6, <2>1 DEF MarkFailed, TypeOK
<1>7. ASSUME UpdateHealth PROVE TypeOK'
  <2>1. health' \in [Devices -> {"unknown", "ok", "failed"}]
    BY <1>7 DEF UpdateHealth
  <2>2. worker' \in [at : {"idle", "posting", "marking", "health"},
                     row : 0..MaxRows, ok : BOOLEAN]
    BY <1>7 DEF UpdateHealth, Idle
  <2>. QED
    BY <1>7, <2>1, <2>2 DEF UpdateHealth
<1>8. ASSUME NEW p \in wire, MemfaultAccepts(p) PROVE TypeOK'
  <2>1. p \in Ids \X Nat
    BY DEF TypeOK
  <2>2. taken' \in Seq(Ids \X Nat)
    BY <1>8, <2>1 DEF MemfaultAccepts
  <2>. QED
    BY <1>8, <2>2 DEF MemfaultAccepts, queueVars
<1>9. ASSUME Abort PROVE TypeOK'
  <2>1. aborts' \in 0..MaxAborts
    BY <1>9 DEF Abort
  <2>2. wire' \subseteq Ids \X Nat
    BY <1>9 DEF Abort, GiveUpPost
  <2>. QED
    BY <1>9, <2>1, <2>2 DEF Abort, queueVars, Idle
<1>10. ASSUME Tick PROVE TypeOK'
  <2>t. age \in [Ids -> 0..(Window + 1)] /\ wait \in [Ids -> Nat] /\ Window \in Nat
    OBVIOUS
  <2> HIDE DEF TypeOK
  <2>1. age' \in [Ids -> 0..(Window + 1)]
    <3>1. ASSUME NEW i \in Ids
          PROVE  (IF i <= count /\ age[i] <= Window THEN age[i] + 1 ELSE age[i]) \in 0..(Window + 1)
      BY <2>t
    <3>. QED
      BY <1>10, <3>1 DEF Tick
  <2>2. wait' \in [Ids -> Nat]
    <3>1. ASSUME NEW i \in Ids
          PROVE  (IF wait[i] > 0 THEN wait[i] - 1 ELSE 0) \in Nat
      BY <2>t
    <3>. QED
      BY <1>10, <3>1 DEF Tick
  <2> USE DEF TypeOK
  <2>. QED
    BY <1>10, <2>1, <2>2 DEF Tick
<1>11. CASE UNCHANGED vars
  BY <1>11 DEF vars, queueVars
<1> HIDE DEF TypeOK
<1>. QED
  BY <1>1, <1>2, <1>3, <1>4, <1>5, <1>6, <1>7, <1>8, <1>9, <1>10, <1>11
     DEF Next, WorkerStep

\* Only Enqueue makes a row, and only MarkFailed makes it wait.
LEMMA RowsStep == IInv /\ [Next]_vars => RowsAgree'
<1> SUFFICES ASSUME TypeOK, RowsAgree, WorkerAgrees, StatusIsEarned, [Next]_vars PROVE RowsAgree'
  BY DEF IInv
<1> USE ParametersOK DEF TypeOK, RowsAgree
<1>1. ASSUME NEW c \in Chunks, Enqueue(c) PROVE RowsAgree'
  BY <1>1 DEF Enqueue, Ids
<1>2. ASSUME NEW i \in Ids, TakeNext(i) PROVE RowsAgree'
  BY <1>2 DEF TakeNext, queueVars, Due
<1>3. ASSUME Answered202 PROVE RowsAgree'
  BY <1>3 DEF Answered202, queueVars
<1>4. ASSUME PostFails PROVE RowsAgree'
  BY <1>4 DEF PostFails, queueVars
<1>5. ASSUME MarkSent PROVE RowsAgree'
  BY <1>5 DEF MarkSent, WorkerAgrees
<1>6. ASSUME MarkFailed PROVE RowsAgree'
  <2>. SUFFICES ASSUME NEW k \in Ids
                PROVE  /\ status'[k] = "none" <=> k > count
                       /\ k > count => attempts'[k] = 0
                       /\ wait'[k] > 0 => attempts'[k] > 0
    <3>1. count' = count /\ chunk' = chunk /\ posts' = posts
      BY <1>6 DEF MarkFailed, queueVars
    <3>2. \A k \in Ids : /\ k <= count => chunk[k] \in Chunks
                         /\ k > count => posts[k] = 0
      OBVIOUS
    <3> HIDE DEF TypeOK
    <3>. QED
      BY <3>1, <3>2
  <2>t. /\ worker.row \in Ids /\ worker.row <= count /\ count \in Nat /\ k \in Nat
        /\ attempts[worker.row] \in Nat /\ status[worker.row] # "none"
        /\ attempts'[worker.row] = attempts[worker.row] + 1 /\ status'[worker.row] # "none"
        /\ \A j \in Ids \ {worker.row} :
              attempts'[j] = attempts[j] /\ status'[j] = status[j] /\ wait'[j] = wait[j]
    <3>1. /\ worker.row \in Ids /\ worker.row <= count /\ status[worker.row] = "pending"
          /\ attempts[worker.row] \in 0..(MaxAttempts - 1)
          /\ attempts'[worker.row] = attempts[worker.row] + 1
          /\ status'[worker.row] \in {"failed", "pending"}
          /\ \A j \in Ids \ {worker.row} :
                attempts'[j] = attempts[j] /\ status'[j] = status[j] /\ wait'[j] = wait[j]
      <4> HIDE DEF TypeOK, RowsAgree
      <4>. QED
        BY <1>6, FailureMarks
    <3>2. count \in Nat /\ k \in Nat
      BY DEF Ids
    <3> HIDE DEF TypeOK, RowsAgree
    <3>. QED
      BY <3>1, <3>2
  <2>k. /\ status[k] = "none" <=> k > count
        /\ k > count => attempts[k] = 0
        /\ wait[k] > 0 => attempts[k] > 0
    OBVIOUS
  <2> HIDE DEF TypeOK, RowsAgree
  <2>1. CASE k = worker.row
    BY <2>1, <2>t
  <2>2. CASE k # worker.row
    BY <2>2, <2>t, <2>k
  <2>. QED
    BY <2>1, <2>2
<1>7. ASSUME UpdateHealth PROVE RowsAgree'
  BY <1>7 DEF UpdateHealth
<1>8. ASSUME NEW p \in wire, MemfaultAccepts(p) PROVE RowsAgree'
  BY <1>8 DEF MemfaultAccepts, queueVars
<1>9. ASSUME Abort PROVE RowsAgree'
  BY <1>9 DEF Abort, queueVars
<1>10. ASSUME Tick PROVE RowsAgree'
  <2>1. \A k \in Ids : wait'[k] > 0 => wait[k] > 0
    BY <1>10 DEF Tick
  <2>. QED
    BY <1>10, <2>1 DEF Tick
<1>11. CASE UNCHANGED vars
  BY <1>11 DEF vars, queueVars
<1> HIDE DEF TypeOK, RowsAgree
<1>. QED
  BY <1>1, <1>2, <1>3, <1>4, <1>5, <1>6, <1>7, <1>8, <1>9, <1>10, <1>11
     DEF Next, WorkerStep

\* Nobody but the worker touches the row it has in hand.
LEMMA WorkerAgreesStep == IInv /\ [Next]_vars => WorkerAgrees'
<1> SUFFICES ASSUME TypeOK, RowsAgree, WorkerAgrees, StatusIsEarned, [Next]_vars PROVE WorkerAgrees'
  BY DEF IInv
<1> USE ParametersOK DEF TypeOK, WorkerAgrees
<1>1. ASSUME NEW c \in Chunks, Enqueue(c) PROVE WorkerAgrees'
  <2>1. ASSUME worker.at # "idle"
        PROVE  /\ worker.row \in 1..count' /\ worker.row \in Ids
               /\ worker.row # count + 1
    <3>1. worker.row \in 1..count /\ count' = count + 1 /\ count \in 0..MaxRows
      BY <1>1, <2>1 DEF Enqueue
    <3>. QED
      BY ONLY <3>1, ParametersOK DEF Ids
  <2>2. \A q : Accepted(q)' <=> Accepted(q)
    BY <1>1 DEF Enqueue, Accepted
  <2>. QED
    BY <1>1, <2>1, <2>2 DEF Enqueue
<1>2. ASSUME NEW i \in Ids, TakeNext(i) PROVE WorkerAgrees'
  <2>1. i \in 1..count
    BY <1>2 DEF TakeNext, Due, RowsAgree, Ids
  <2>. QED
    BY <1>2, <2>1 DEF TakeNext, queueVars, Due
<1>3. ASSUME Answered202 PROVE WorkerAgrees'
  BY <1>3 DEF Answered202, queueVars, Accepted
<1>4. ASSUME PostFails PROVE WorkerAgrees'
  BY <1>4 DEF PostFails, queueVars, Accepted
<1>5. ASSUME MarkSent PROVE WorkerAgrees'
  BY <1>5 DEF MarkSent, Accepted, Ids
<1>6. ASSUME MarkFailed PROVE WorkerAgrees'
  <2>. HIDE DEF TypeOK, WorkerAgrees
  <2>1. worker.row \in Ids /\ worker.row <= count /\ attempts'[worker.row] > 0
    BY <1>6, FailureMarks
  <2>2. worker.row \in 1..count
    BY ONLY <2>1, ParametersOK DEF Ids
  <2>. QED
    BY <1>6, <2>1, <2>2 DEF MarkFailed, WorkerAgrees
<1>7. ASSUME UpdateHealth PROVE WorkerAgrees'
  BY <1>7 DEF UpdateHealth, Accepted, Idle
<1>8. ASSUME NEW p \in wire, MemfaultAccepts(p) PROVE WorkerAgrees'
  <2>1. worker.at = "marking" /\ worker.ok => Accepted(<<worker.row, posts[worker.row]>>)'
    BY <1>8, AcceptsOne DEF MemfaultAccepts
  <2>. QED
    BY <1>8, <2>1 DEF MemfaultAccepts, queueVars
<1>9. ASSUME Abort PROVE WorkerAgrees'
  BY <1>9 DEF Abort, Idle
<1>10. ASSUME Tick PROVE WorkerAgrees'
  BY <1>10 DEF Tick, Accepted
<1>11. CASE UNCHANGED vars
  BY <1>11 DEF vars, queueVars, Accepted
<1> HIDE DEF TypeOK, WorkerAgrees
<1>. QED
  BY <1>1, <1>2, <1>3, <1>4, <1>5, <1>6, <1>7, <1>8, <1>9, <1>10, <1>11
     DEF Next, WorkerStep

\* A POST gets a new number; what is late was repeated before a younger row.
LEMMA PostsStep == IInv /\ [Next]_vars => PostsAgree'
<1> SUFFICES ASSUME TypeOK, RowsAgree, WorkerAgrees, PostsAgree, StatusIsEarned,
                    OnlyRetriesRepeat, [Next]_vars
             PROVE  PostsAgree'
  BY DEF IInv
<1> USE ParametersOK DEF TypeOK, PostsAgree
<1>1. ASSUME NEW c \in Chunks, Enqueue(c) PROVE PostsAgree'
  BY <1>1 DEF Enqueue, Accepted, RowsAgree
<1>2. ASSUME NEW i \in Ids, TakeNext(i) PROVE PostsAgree'
  <2>. HIDE DEF TypeOK, PostsAgree
  <2>1. /\ posts' = [posts EXCEPT ![i] = posts[i] + 1] /\ wire' = wire \cup {<<i, posts[i] + 1>>}
        /\ attempts' = attempts /\ aborts' = aborts /\ status' = status /\ taken' = taken
    BY <1>2 DEF TakeNext, queueVars
  <2>2. /\ posts \in [Ids -> Nat] /\ \A k \in Ids : attempts[k] \in Nat
        /\ aborts \in Nat /\ wire \subseteq Ids \X Nat /\ taken \in Seq(Ids \X Nat)
    BY DEF TypeOK
  <2>3. \A k \in Ids : posts'[k] = IF k = i THEN posts[k] + 1 ELSE posts[k]
    BY <2>1, <2>2
  <2>4. \A q : Accepted(q)' <=> Accepted(q)
    BY <2>1 DEF Accepted
  <2>5. ~Accepted(<<i, posts[i] + 1>>)
    <3>1. SUFFICES ASSUME NEW n \in DOMAIN taken, taken[n] = <<i, posts[i] + 1>> PROVE FALSE
      BY DEF Accepted
    <3>2. taken[n][2] \in 1..posts[taken[n][1]]
      BY DEF PostsAgree
    <3>. QED
      BY <2>2, <3>1, <3>2
  <2>6. status[i] = "pending"
    BY <1>2 DEF TakeNext, Due
  <2>7. \A p \in wire : p[1] \in Ids /\ p[2] \in 1..posts[p[1]] /\ ~Accepted(p)
    BY <2>2 DEF PostsAgree
  <2>8. ASSUME NEW p \in wire', NEW j \in Ids, p[1] < j, posts'[j] > 0
        PROVE  attempts[p[1]] + aborts > 0
    <3>1. CASE posts[j] > 0 /\ p \in wire
      BY <3>1, <2>8 DEF PostsAgree
    <3>2. CASE posts[j] > 0 /\ p \notin wire
      <4>1. p[1] = i
        BY <3>2, <2>1
      <4>. QED
        BY <3>2, <4>1, <2>2, <2>6, <2>8 DEF PostsAgree
    <3>3. CASE j = i
      <4>1. p \in wire
        <5>1. p # <<i, posts[i] + 1>>
          <6>1. p[1] < i /\ i \in Nat
            BY <2>8, <3>3 DEF Ids
          <6>2. <<i, posts[i] + 1>>[1] = i
            OBVIOUS
          <6>. QED
            BY <6>1, <6>2
        <5>. QED
          BY <5>1, <2>1
      <4>2. p[1] \in Ids /\ attempts[p[1]] \in Nat
        BY <4>1, <2>2, <2>7
      <4>3. attempts[p[1]] > 0 \/ status[p[1]] = "sent"
        BY <1>2, <4>2, <3>3, <2>8, PassedOver
      <4>4. CASE status[p[1]] = "sent"
        <5>1. PICK n \in 1..posts[p[1]] : Accepted(<<p[1], n>>)
          BY <4>2, <4>4 DEF StatusIsEarned
        <5>2. p = <<p[1], p[2]>> /\ posts[p[1]] \in Nat
          BY <4>1, <4>2, <2>2
        <5>3. p[2] \in 1..posts[p[1]] /\ p[2] # n
          BY <4>1, <5>1, <5>2, <2>7
        <5>4. posts[p[1]] > 1
          BY <5>2, <5>3
        <5>5. posts[p[1]] <= attempts[p[1]] + aborts + 1
          BY <4>2, <4>4 DEF OnlyRetriesRepeat, Current
        <5>. QED
          BY <4>2, <5>2, <5>4, <5>5, <2>2
      <4>. QED
        BY <4>2, <4>3, <4>4, <2>2
    <3>. QED
      BY <2>3, <2>8, <3>1, <3>2, <3>3
  <2>9. ASSUME NEW k \in Ids, NEW j \in Ids, k < j, posts'[j] > 0
        PROVE  attempts[k] > 0 \/ status[k] = "sent"
    <3>1. CASE j = i
      BY <1>2, <2>9, <3>1, PassedOver
    <3>2. CASE j # i
      BY <2>3, <2>9, <3>2 DEF PostsAgree
    <3>. QED
      BY <3>1, <3>2
  <2>10. \A p \in wire' : p[2] \in 1..posts'[p[1]] /\ ~Accepted(p)'
    <3>. SUFFICES ASSUME NEW p \in wire' PROVE p[2] \in 1..posts'[p[1]] /\ ~Accepted(p)
      BY <2>4
    <3>1. CASE p \in wire
      <4>1. posts[p[1]] \in Nat /\ posts'[p[1]] \in Nat /\ posts'[p[1]] >= posts[p[1]]
        BY <3>1, <2>2, <2>3, <2>7
      <4>. QED
        BY <3>1, <4>1, <2>7
    <3>2. CASE p = <<i, posts[i] + 1>>
      <4>1. posts[i] \in Nat /\ posts'[i] = posts[i] + 1
        BY <2>2, <2>3
      <4>. QED
        BY <3>2, <4>1, <2>5
    <3>. QED
      BY <3>1, <3>2, <2>1
  <2>11. \A n \in DOMAIN taken : taken[n][2] \in 1..posts'[taken[n][1]]
    <3>. SUFFICES ASSUME NEW n \in DOMAIN taken PROVE taken[n][2] \in 1..posts'[taken[n][1]]
      OBVIOUS
    <3>1. taken[n][1] \in Ids /\ taken[n][2] \in 1..posts[taken[n][1]]
      BY <2>2 DEF PostsAgree
    <3>2. ASSUME NEW k \in Ids
          PROVE  posts[k] \in Nat /\ posts'[k] \in Nat /\ posts'[k] >= posts[k]
      <4>1. posts[k] \in Nat
        BY <2>2
      <4>. QED
        BY <4>1, <2>3
    <3>. QED
      BY <3>1, <3>2
  <2>. QED
    BY <2>1, <2>8, <2>9, <2>10, <2>11 DEF PostsAgree
<1>3. ASSUME Answered202 PROVE PostsAgree'
  BY <1>3 DEF Answered202, queueVars, Accepted
<1>4. ASSUME PostFails PROVE PostsAgree'
  <2>1. wire' \subseteq wire /\ UNCHANGED <<attempts, aborts, status, posts, taken>>
    BY <1>4 DEF PostFails, GiveUpPost, queueVars
  <2>. QED
    BY <2>1 DEF Accepted
<1>5. ASSUME MarkSent PROVE PostsAgree'
  BY <1>5 DEF MarkSent, Accepted
<1>6. ASSUME MarkFailed PROVE PostsAgree'
  <2>. HIDE DEF TypeOK, PostsAgree
  <2>1. \A k \in Ids : /\ attempts[k] \in Nat /\ attempts'[k] \in Nat
                       /\ attempts'[k] >= attempts[k]
                       /\ status[k] = "sent" => status'[k] = "sent"
    <3>. SUFFICES ASSUME NEW k \in Ids
                  PROVE  /\ attempts[k] \in Nat /\ attempts'[k] \in Nat
                         /\ attempts'[k] >= attempts[k]
                         /\ status[k] = "sent" => status'[k] = "sent"
      BY <1>6 DEF MarkFailed
    <3>1. CASE k = worker.row
      BY <1>6, <3>1, FailureMarks
    <3>2. CASE k # worker.row
      BY <1>6, <3>2, FailureMarks DEF TypeOK
    <3>. QED
      BY <3>1, <3>2
  <2>2. UNCHANGED <<aborts, posts, taken, wire>> /\ aborts \in Nat
        /\ \A p \in wire : p[1] \in Ids
    BY <1>6 DEF MarkFailed, TypeOK
  <2>3. \A q : Accepted(q)' <=> Accepted(q)
    BY <2>2 DEF Accepted
  <2>4. \A p \in wire : \A j \in Ids :
          p[1] < j /\ posts[j] > 0 => attempts'[p[1]] + aborts > 0
    BY <2>1, <2>2 DEF PostsAgree
  <2>5. \A k, j \in Ids : k < j /\ posts[j] > 0 => attempts'[k] > 0 \/ status'[k] = "sent"
    BY <2>1 DEF PostsAgree
  <2>. QED
    BY <2>2, <2>3, <2>4, <2>5 DEF PostsAgree
<1>7. ASSUME UpdateHealth PROVE PostsAgree'
  BY <1>7 DEF UpdateHealth, Accepted
<1>8. ASSUME NEW p \in wire, MemfaultAccepts(p) PROVE PostsAgree'
  <2>. HIDE DEF TypeOK, PostsAgree
  <2>1. wire' = wire \ {p} /\ UNCHANGED <<attempts, aborts, status, posts>>
    BY <1>8 DEF MemfaultAccepts, queueVars
  <2>2. \A q \in wire' : ~Accepted(q)'
    BY <1>8, <2>1, AcceptsOne DEF PostsAgree
  <2>3. \A n \in DOMAIN taken' : taken'[n][2] \in 1..posts'[taken'[n][1]]
    <3>. SUFFICES ASSUME NEW n \in DOMAIN taken' PROVE taken'[n][2] \in 1..posts[taken'[n][1]]
      BY <2>1
    <3>1. CASE n \in DOMAIN taken
      BY <1>8, <3>1, AcceptsOne DEF PostsAgree
    <3>2. CASE n \notin DOMAIN taken
      <4>1. taken'[n] = p
        BY <1>8, <3>2, AcceptsOne
      <4>. QED
        BY <4>1 DEF PostsAgree
    <3>. QED
      BY <3>1, <3>2
  <2>4. ASSUME NEW m \in DOMAIN taken', NEW n \in DOMAIN taken', taken'[m] = taken'[n]
        PROVE  m = n
    <3>1. \A k \in DOMAIN taken' : k \in DOMAIN taken \/ k = Len(taken) + 1
      BY <1>8, AcceptsOne
    <3>2. \A k \in DOMAIN taken : taken'[k] = taken[k] /\ taken[k] # p
      BY <1>8, AcceptsOne DEF PostsAgree, Accepted
    <3>3. taken'[Len(taken) + 1] = p
      BY <1>8, AcceptsOne
    <3>. QED
      BY <2>4, <3>1, <3>2, <3>3 DEF PostsAgree
  <2>. QED
    BY <2>1, <2>2, <2>3, <2>4 DEF PostsAgree
<1>9. ASSUME Abort PROVE PostsAgree'
  <2>1. wire' \subseteq wire /\ aborts' = aborts + 1 /\ UNCHANGED <<attempts, status, posts, taken>>
    BY <1>9 DEF Abort, GiveUpPost, queueVars
  <2>. QED
    BY <2>1 DEF Accepted
<1>10. ASSUME Tick PROVE PostsAgree'
  BY <1>10 DEF Tick, Accepted
<1>11. CASE UNCHANGED vars
  BY <1>11 DEF vars, queueVars, Accepted
<1> HIDE DEF TypeOK, PostsAgree
<1>. QED
  BY <1>1, <1>2, <1>3, <1>4, <1>5, <1>6, <1>7, <1>8, <1>9, <1>10, <1>11
     DEF Next, WorkerStep

\* A chunk that is inserted has no equal in the window, and ages only grow.
LEMMA WindowStep == IInv /\ [Next]_vars => NoRepeatWithinWindow'
<1> SUFFICES ASSUME TypeOK, RowsAgree, NoRepeatWithinWindow, [Next]_vars PROVE NoRepeatWithinWindow'
  BY DEF IInv
<1> USE ParametersOK DEF TypeOK, NoRepeatWithinWindow
<1>1. ASSUME NEW c \in Chunks, Enqueue(c) PROVE NoRepeatWithinWindow'
  <2>1. count' = count + 1 /\ count' \in Ids /\ age' = age
    BY <1>1 DEF Enqueue, Ids
  <2>2. \A k \in 1..count : k \in Ids /\ chunk'[k] = chunk[k] /\ k # count'
    BY <1>1, <2>1 DEF Enqueue, Ids
  <2>3. chunk'[count'] = c
    BY <1>1, <2>1 DEF Enqueue
  <2>4. \A k \in 1..count : chunk[k].dev = c.dev /\ chunk[k].data = c.data => age[k] > Window
    <3>. SUFFICES ASSUME NEW k \in 1..count, chunk[k].dev = c.dev, chunk[k].data = c.data
                  PROVE  age[k] > Window
      OBVIOUS
    <3>1. ~(age[k] <= Window)
      BY <1>1 DEF Enqueue, RecentDuplicate
    <3>2. age[k] \in 0..(Window + 1)
      BY <2>2
    <3>. QED
      BY <3>1, <3>2
  <2>5. \A k \in 1..count' : k \in 1..count \/ k = count'
    BY <2>1
  <2>. QED
    <3>. SUFFICES ASSUME NEW i \in 1..count', NEW j \in 1..count', i < j,
                         chunk'[i].dev = chunk'[j].dev, chunk'[i].data = chunk'[j].data
                  PROVE  age[i] > Window
      BY <2>1
    <3>1. i \in 1..count
      BY <2>1
    <3>2. CASE j = count'
      BY <3>1, <3>2, <2>2, <2>3, <2>4
    <3>3. CASE j \in 1..count
      BY <3>1, <3>3, <2>2
    <3>. QED
      BY <2>5, <3>2, <3>3
<1>2. ASSUME NEW i \in Ids, TakeNext(i) PROVE NoRepeatWithinWindow'
  BY <1>2 DEF TakeNext, queueVars
<1>3. ASSUME Answered202 PROVE NoRepeatWithinWindow'
  BY <1>3 DEF Answered202, queueVars
<1>4. ASSUME PostFails PROVE NoRepeatWithinWindow'
  BY <1>4 DEF PostFails, queueVars
<1>5. ASSUME MarkSent PROVE NoRepeatWithinWindow'
  BY <1>5 DEF MarkSent
<1>6. ASSUME MarkFailed PROVE NoRepeatWithinWindow'
  BY <1>6 DEF MarkFailed
<1>7. ASSUME UpdateHealth PROVE NoRepeatWithinWindow'
  BY <1>7 DEF UpdateHealth
<1>8. ASSUME NEW p \in wire, MemfaultAccepts(p) PROVE NoRepeatWithinWindow'
  BY <1>8 DEF MemfaultAccepts, queueVars
<1>9. ASSUME Abort PROVE NoRepeatWithinWindow'
  BY <1>9 DEF Abort, queueVars
<1>10. ASSUME Tick PROVE NoRepeatWithinWindow'
  <2>1. UNCHANGED <<count, chunk>>
    BY <1>10 DEF Tick
  <2>2. \A k \in Ids : age[k] > Window => age'[k] > Window
    BY <1>10 DEF Tick
  <2>3. 1..count \subseteq Ids
    BY DEF Ids
  <2>. QED
    BY <2>1, <2>2, <2>3
<1>11. CASE UNCHANGED vars
  BY <1>11 DEF vars, queueVars
<1> HIDE DEF TypeOK, NoRepeatWithinWindow
<1>. QED
  BY <1>1, <1>2, <1>3, <1>4, <1>5, <1>6, <1>7, <1>8, <1>9, <1>10, <1>11
     DEF Next, WorkerStep

\* Whatever happens, a row keeps its chunk and its final state, and its counters grow.
RowGrows(k) ==
    /\ status[k] \in {"sent", "failed"} => status'[k] = status[k]
    /\ attempts[k] \in Nat /\ attempts'[k] \in Nat /\ attempts'[k] >= attempts[k]
    /\ posts[k] \in Nat /\ posts'[k] \in Nat /\ posts'[k] >= posts[k]
    /\ k <= count => k <= count' /\ chunk'[k] = chunk[k]
    /\ aborts \in Nat /\ aborts' \in Nat /\ aborts' >= aborts

LEMMA RecordsGrow == IInv /\ [Next]_vars => \A k \in Ids : RowGrows(k)
<1> SUFFICES ASSUME IInv, [Next]_vars, NEW k \in Ids PROVE RowGrows(k)
  OBVIOUS
<1> USE DEF RowGrows
<1>t. /\ attempts[k] \in Nat /\ posts[k] \in Nat /\ aborts \in Nat /\ count \in Nat /\ k \in Nat
      /\ posts \in [Ids -> Nat] /\ status \in [Ids -> {"none", "pending", "sent", "failed"}]
      /\ chunk \in [Ids -> Chunks \cup {NoChunk}]
  BY ParametersOK DEF IInv, TypeOK, Ids
<1>1. ASSUME NEW c \in Chunks, Enqueue(c) PROVE RowGrows(k)
  <2>1. k <= count => k # count + 1
    BY <1>t
  <2>2. status[k] \in {"sent", "failed"} => k # count + 1
    BY <1>t, ParametersOK DEF IInv, RowsAgree
  <2>. QED
    BY <1>1, <1>t, <2>1, <2>2 DEF Enqueue
<1>2. ASSUME NEW i \in Ids, TakeNext(i) PROVE RowGrows(k)
  BY <1>2, <1>t DEF TakeNext, queueVars
<1>3. ASSUME Answered202 PROVE RowGrows(k)
  BY <1>3, <1>t DEF Answered202, queueVars
<1>4. ASSUME PostFails PROVE RowGrows(k)
  BY <1>4, <1>t DEF PostFails, queueVars
<1>5. ASSUME MarkSent PROVE RowGrows(k)
  <2>1. worker.row \in Ids /\ status[worker.row] = "pending"
    BY <1>5, ParametersOK DEF MarkSent, IInv, TypeOK, WorkerAgrees, Ids
  <2>. QED
    BY <1>5, <1>t, <2>1 DEF MarkSent
<1>6. ASSUME MarkFailed PROVE RowGrows(k)
  <2>1. CASE k = worker.row
    <3>1. attempts'[k] = attempts[k] + 1 /\ status[k] = "pending"
      BY <1>6, <2>1, FailureMarks DEF IInv
    <3>. QED
      BY <1>6, <1>t, <3>1 DEF MarkFailed
  <2>2. CASE k # worker.row
    <3>1. attempts'[k] = attempts[k] /\ status'[k] = status[k]
      BY <1>6, <2>2, FailureMarks DEF IInv
    <3>. QED
      BY <1>6, <1>t, <3>1 DEF MarkFailed
  <2>. QED
    BY <2>1, <2>2
<1>7. ASSUME UpdateHealth PROVE RowGrows(k)
  BY <1>7, <1>t DEF UpdateHealth
<1>8. ASSUME NEW p \in wire, MemfaultAccepts(p) PROVE RowGrows(k)
  BY <1>8, <1>t DEF MemfaultAccepts, queueVars
<1>9. ASSUME Abort PROVE RowGrows(k)
  BY <1>9, <1>t DEF Abort, queueVars
<1>10. ASSUME Tick PROVE RowGrows(k)
  BY <1>10, <1>t DEF Tick
<1>11. CASE UNCHANGED vars
  BY <1>11, <1>t DEF vars, queueVars
<1> HIDE DEF RowGrows
<1>. QED
  BY <1>1, <1>2, <1>3, <1>4, <1>5, <1>6, <1>7, <1>8, <1>9, <1>10, <1>11 DEF Next, WorkerStep

\* What Memfault accepted stays accepted.
LEMMA AcceptedStays ==
    ASSUME IInv, [Next]_vars, NEW q, Accepted(q)
    PROVE  Accepted(q)'
<1>1. CASE \E p \in wire : MemfaultAccepts(p)
  BY <1>1, AcceptsOne DEF IInv
<1>2. CASE UNCHANGED taken
  BY <1>2 DEF Accepted
<1>. QED
  BY <1>1, <1>2 DEF Next, WorkerStep, Enqueue, TakeNext, Answered202, PostFails, MarkSent,
                    MarkFailed, UpdateHealth, Abort, Tick, vars

\* "sent" and "failed" are written by the worker alone, after an answer that says
\* so; health is written from what the row in hand was just marked.
LEMMA EarnedStep == IInv /\ [Next]_vars => StatusIsEarned'
<1> SUFFICES ASSUME IInv, [Next]_vars PROVE StatusIsEarned'
  OBVIOUS
<1> DEFINE Earns(d) ==
      \E i \in 1..count : /\ chunk[i].dev = d
                          /\ IF health[d] = "ok" THEN status[i] = "sent" ELSE attempts[i] > 0
<1>t. /\ \A k \in Ids : /\ attempts[k] \in 0..MaxAttempts /\ posts[k] \in Nat
                         /\ chunk[k] \in Chunks \cup {NoChunk}
      /\ status \in [Ids -> {"none", "pending", "sent", "failed"}]
      /\ health \in [Devices -> {"unknown", "ok", "failed"}]
      /\ count \in 0..MaxRows /\ MaxRows \in Nat /\ MaxAttempts \in Nat \ {0} /\ 1..count \subseteq Ids
  BY ParametersOK DEF IInv, TypeOK, Ids
<1>w. worker.at # "idle" => worker.row \in 1..count
  BY DEF IInv, WorkerAgrees
<1>1. ASSUME NEW k \in Ids, status'[k] = "sent" PROVE \E n \in 1..posts'[k] : Accepted(<<k, n>>)'
  <2>1. CASE status[k] = "sent"
    <3>1. PICK n \in 1..posts[k] : Accepted(<<k, n>>)
      BY <2>1 DEF IInv, StatusIsEarned
    <3>2. n \in 1..posts'[k]
      BY <3>1, RecordsGrow DEF RowGrows
    <3>. QED
      BY <3>1, <3>2, AcceptedStays
  <2>2. CASE MarkSent /\ k = worker.row
    <3>1. posts[k] > 0 /\ Accepted(<<k, posts[k]>>) /\ posts' = posts /\ posts[k] \in Nat
      BY <1>t, <2>2 DEF MarkSent, IInv, WorkerAgrees
    <3>. QED
      BY <3>1, AcceptedStays
  <2>3. status[k] = "sent" \/ (MarkSent /\ k = worker.row)
    <3>1. CASE MarkSent
      BY <1>1, <1>t, <3>1 DEF MarkSent
    <3>2. CASE MarkFailed
      <4>1. TypeOK /\ WorkerAgrees /\ StatusIsEarned
        BY DEF IInv
      <4>2. CASE k = worker.row
        BY <1>1, <3>2, <4>1, <4>2, FailureMarks
      <4>3. CASE k # worker.row
        BY <1>1, <3>2, <4>1, <4>3, FailureMarks
      <4>. QED
        BY <4>2, <4>3
    <3>3. CASE \E c \in Chunks : Enqueue(c)
      BY <1>1, <1>t, <3>3 DEF Enqueue
    <3>4. CASE UNCHANGED status
      BY <1>1, <3>4
    <3>. QED
      BY <3>1, <3>2, <3>3, <3>4 DEF Next, WorkerStep, TakeNext, Answered202, PostFails,
            UpdateHealth, MemfaultAccepts, Abort, Tick, vars, queueVars
  <2>. QED
    BY <2>1, <2>2, <2>3
<1>2. ASSUME NEW k \in Ids PROVE status'[k] = "failed" <=> attempts'[k] = MaxAttempts
  <2>1. status[k] = "failed" <=> attempts[k] = MaxAttempts
    BY DEF IInv, StatusIsEarned
  <2>2. CASE MarkFailed
    <3>1. TypeOK /\ WorkerAgrees /\ StatusIsEarned
      BY DEF IInv
    <3>2. CASE k = worker.row
      BY <2>2, <3>1, <3>2, FailureMarks
    <3>3. CASE k # worker.row
      BY <2>1, <2>2, <3>1, <3>3, FailureMarks
    <3>. QED
      BY <3>2, <3>3
  <2>3. CASE MarkSent
    <3>1. attempts' = attempts /\ worker.row \in Ids /\ status[worker.row] = "pending"
      BY <1>t, <1>w, <2>3 DEF MarkSent, IInv, WorkerAgrees
    <3>2. status'[k] = IF k = worker.row THEN "sent" ELSE status[k]
      BY <1>t, <2>3, <3>1 DEF MarkSent
    <3>. QED
      BY <2>1, <3>1, <3>2
  <2>4. CASE \E c \in Chunks : Enqueue(c)
    <3>1. attempts' = attempts /\ status'[k] = IF k = count + 1 THEN "pending" ELSE status[k]
      BY <1>t, <2>4 DEF Enqueue
    <3>2. k = count + 1 => attempts[k] = 0
      BY <1>t DEF IInv, RowsAgree
    <3>. QED
      BY <1>t, <2>1, <3>1, <3>2
  <2>5. CASE UNCHANGED <<status, attempts>>
    BY <2>1, <2>5
  <2>. QED
    BY <2>2, <2>3, <2>4, <2>5 DEF Next, WorkerStep, TakeNext, Answered202, PostFails,
          UpdateHealth, MemfaultAccepts, Abort, Tick, vars, queueVars
<1>3. ASSUME NEW d \in Devices, health'[d] # "unknown" PROVE Earns(d)'
  <2>1. CASE health'[d] = health[d]
    <3>1. PICK i \in 1..count : /\ chunk[i].dev = d
                                /\ IF health[d] = "ok" THEN status[i] = "sent" ELSE attempts[i] > 0
      BY <1>3, <2>1 DEF IInv, StatusIsEarned
    <3>2. i \in 1..count' /\ chunk'[i] = chunk[i]
      <4>1. i \in Ids /\ i <= count /\ count' \in Nat
        BY <1>t, TypeStep DEF TypeOK
      <4>. QED
        BY <4>1, RecordsGrow DEF RowGrows
    <3>3. (status[i] = "sent" => status'[i] = "sent") /\ (attempts[i] > 0 => attempts'[i] > 0)
      BY <1>t, RecordsGrow DEF RowGrows
    <3>. QED
      BY <2>1, <3>1, <3>2, <3>3
  <2>2. CASE UpdateHealth
    <3>1. UNCHANGED <<count, chunk, status, attempts>> /\ worker.at = "health"
          /\ health' = [health EXCEPT ![chunk[worker.row].dev] =
                          IF worker.ok THEN "ok" ELSE "failed"]
      BY <2>2 DEF UpdateHealth
    <3>2. worker.row \in 1..count
          /\ IF worker.ok THEN status[worker.row] = "sent" ELSE attempts[worker.row] > 0
      BY <3>1 DEF IInv, WorkerAgrees
    <3>3. CASE d = chunk[worker.row].dev
      <4>1. health'[d] = IF worker.ok THEN "ok" ELSE "failed"
        BY <1>t, <3>1, <3>3
      <4>. QED
        BY <3>1, <3>2, <3>3, <4>1
    <3>4. CASE d # chunk[worker.row].dev
      BY <1>t, <2>1, <3>1, <3>4
    <3>. QED
      BY <3>3, <3>4
  <2>3. CASE UNCHANGED health
    BY <2>1, <2>3
  <2>. QED
    BY <2>2, <2>3 DEF Next, WorkerStep, Enqueue, TakeNext, Answered202, PostFails, MarkSent,
          MarkFailed, MemfaultAccepts, Abort, Tick, vars, queueVars
<1>. QED
  BY <1>1, <1>2, <1>3 DEF StatusIsEarned

\* Pairs <<i, n>> that are all different, with n in 1..k, are k at most.
LEMMA NumberedPairs ==
    ASSUME NEW t \in Seq(Ids \X Nat), NEW i \in Ids, NEW k \in Nat,
           \A m, n \in DOMAIN t : t[m] = t[n] => m = n,
           \A n \in DOMAIN t : t[n][1] = i => t[n][2] \in 1..k
    PROVE  Cardinality({n \in DOMAIN t : t[n][1] = i}) <= k
<1> DEFINE Places == {n \in DOMAIN t : t[n][1] = i}
           number == [n \in Places |-> t[n][2]]
<1>1. number \in Injection(Places, 1..k)
  <2>1. ASSUME NEW n \in Places PROVE t[n] = <<i, number[n]>> /\ number[n] \in 1..k
    BY DEF Places
  <2>2. ASSUME NEW m \in Places, NEW n \in Places, number[m] = number[n] PROVE m = n
    BY <2>1, <2>2
  <2>. QED
    BY <2>1, <2>2 DEF Injection, IsInjective
<1>2. IsFiniteSet(1..k) /\ Cardinality(1..k) = k
  <2>1. IsFiniteSet(1..k) /\ Cardinality(1..k) = IF 1 > k THEN 0 ELSE k - 1 + 1
    BY FS_Interval
  <2>. QED
    BY <2>1
<1>. QED
  BY <1>1, <1>2, FS_Injection

\* Every POST is explained when it is made: the one before it was recorded as
\* failed or cut off.
LEMMA RetriesStep == IInv /\ [Next]_vars => OnlyRetriesRepeat'
<1> SUFFICES ASSUME IInv, [Next]_vars PROVE OnlyRetriesRepeat'
  OBVIOUS
<1>t. /\ TypeOK /\ WorkerAgrees /\ StatusIsEarned /\ PostsAgree
      /\ TypeOK' /\ PostsAgree' /\ count \in 0..MaxRows /\ MaxRows \in Nat
      /\ \A k \in Ids : attempts[k] \in Nat /\ posts[k] \in Nat /\ aborts \in Nat
      /\ worker.at # "idle" => worker.row \in Ids
  <2>1. TypeOK' /\ PostsAgree'
    BY TypeStep, PostsStep
  <2>. QED
    <3>1. count \in 0..MaxRows /\ MaxRows \in Nat
          /\ \A k \in Ids : attempts[k] \in Nat /\ posts[k] \in Nat /\ aborts \in Nat
      BY ParametersOK DEF IInv, TypeOK
    <3>2. worker.at # "idle" => worker.row \in 1..count
      BY DEF IInv, WorkerAgrees
    <3>. QED
      BY <2>1, <3>1, <3>2 DEF IInv, Ids
<1>1. ASSUME NEW k \in Ids PROVE posts'[k] <= attempts'[k] + aborts' + Current(k)'
  <2>1. posts[k] <= attempts[k] + aborts + Current(k)
    BY DEF IInv, OnlyRetriesRepeat
  <2>2. ASSUME NEW c \in Chunks, Enqueue(c) PROVE posts'[k] <= attempts'[k] + aborts' + Current(k)'
    <3>1. status[k] = "sent" => status'[k] = "sent"
      BY RecordsGrow DEF RowGrows
    <3>. QED
      BY <1>t, <2>1, <2>2, <3>1 DEF Enqueue, Current
  <2>3. ASSUME NEW i \in Ids, TakeNext(i) PROVE posts'[k] <= attempts'[k] + aborts' + Current(k)'
    <3>1. worker.at = "idle" /\ worker' = [at |-> "posting", row |-> i, ok |-> FALSE]
          /\ UNCHANGED <<status, attempts, aborts>> /\ status[i] = "pending"
      BY <2>3 DEF TakeNext, queueVars, Due
    <3>2. posts'[k] = IF k = i THEN posts[k] + 1 ELSE posts[k]
      BY <2>3 DEF TakeNext, TypeOK, IInv
    <3>. QED
      BY <1>t, <2>1, <3>1, <3>2 DEF Current
  <2>4. CASE Answered202 \/ PostFails
    BY <1>t, <2>1, <2>4 DEF Answered202, PostFails, queueVars, Current, TypeOK
  <2>5. CASE MarkSent
    <3>1. status'[k] = IF k = worker.row THEN "sent" ELSE status[k]
      BY <1>t, <2>5 DEF MarkSent, TypeOK
    <3>. QED
      BY <1>t, <2>1, <2>5, <3>1 DEF MarkSent, Current, TypeOK
  <2>6. CASE MarkFailed
    <3>1. posts' = posts /\ aborts' = aborts /\ worker' = [worker EXCEPT !.at = "health"]
      BY <2>6 DEF MarkFailed
    <3>2. CASE k = worker.row
      BY <1>t, <2>1, <2>6, <3>1, <3>2, FailureMarks DEF Current
    <3>3. CASE k # worker.row
      BY <1>t, <2>1, <2>6, <3>1, <3>3, FailureMarks DEF Current
    <3>. QED
      BY <3>2, <3>3
  <2>7. CASE UpdateHealth
    BY <1>t, <2>1, <2>7 DEF UpdateHealth, Current, Idle
  <2>8. ASSUME NEW p \in wire, MemfaultAccepts(p)
        PROVE  posts'[k] <= attempts'[k] + aborts' + Current(k)'
    BY <2>1, <2>8 DEF MemfaultAccepts, queueVars, Current
  <2>9. CASE Abort
    BY <1>t, <2>1, <2>9 DEF Abort, queueVars, Current, Idle
  <2>10. CASE Tick
    BY <2>1, <2>10 DEF Tick, Current
  <2>11. CASE UNCHANGED vars
    BY <2>1, <2>11 DEF vars, queueVars, Current
  <2>. QED
    BY <2>2, <2>3, <2>4, <2>5, <2>6, <2>7, <2>8, <2>9, <2>10, <2>11 DEF Next, WorkerStep
<1>2. ASSUME NEW k \in Ids PROVE Cardinality(Copies(k))' <= posts'[k]
  <2>1. taken' \in Seq(Ids \X Nat) /\ posts'[k] \in Nat
    BY <1>t DEF TypeOK
  <2>2. /\ \A m, n \in DOMAIN taken' : taken'[m] = taken'[n] => m = n
        /\ \A n \in DOMAIN taken' : taken'[n][1] = k => taken'[n][2] \in 1..posts'[k]
    BY <1>t DEF PostsAgree
  <2>3. Cardinality({n \in DOMAIN taken' : taken'[n][1] = k}) <= posts'[k]
    BY <2>1, <2>2, NumberedPairs
  <2>. QED
    BY <2>3 DEF Copies
<1>3. ASSUME NEW m \in DOMAIN taken', NEW n \in DOMAIN taken', m < n,
             taken'[m][1] > taken'[n][1]
      PROVE  attempts'[taken'[n][1]] + aborts' > 0
  <2>1. CASE \E p \in wire : MemfaultAccepts(p)
    <3>1. PICK p \in wire : MemfaultAccepts(p)
      BY <2>1
    <3>2. UNCHANGED <<attempts, aborts>>
      BY <3>1 DEF MemfaultAccepts, queueVars
    <3>3. /\ \A j \in DOMAIN taken' : j \in DOMAIN taken \/ j = Len(taken) + 1
          /\ \A j \in DOMAIN taken : taken'[j] = taken[j] /\ j < Len(taken) + 1
          /\ taken'[Len(taken) + 1] = p /\ p[1] \in Ids
          /\ \A j \in DOMAIN taken' : j \in Nat
      BY <1>t, <3>1, AcceptsOne
    <3>4. m \in DOMAIN taken
      BY <1>3, <3>3
    <3>5. CASE n \in DOMAIN taken
      BY <1>3, <3>2, <3>3, <3>4, <3>5 DEF IInv, OnlyRetriesRepeat
    <3>6. CASE n = Len(taken) + 1
      <4>1. taken[m][1] \in Ids /\ taken[m][2] \in 1..posts[taken[m][1]]
        <5>1. taken \in Seq(Ids \X Nat)
          BY <1>t DEF TypeOK
        <5>. QED
          BY <1>t, <3>4, <5>1 DEF PostsAgree
      <4>2. posts[taken[m][1]] > 0
        BY <1>t, <4>1
      <4>. QED
        BY <1>t, <1>3, <3>2, <3>3, <3>4, <3>6, <4>1, <4>2 DEF PostsAgree
    <3>. QED
      BY <3>3, <3>5, <3>6
  <2>2. CASE UNCHANGED taken
    <3>1. attempts[taken[n][1]] + aborts > 0
      BY <1>3, <2>2 DEF IInv, OnlyRetriesRepeat
    <3>2. taken[n][1] \in Ids
      BY <1>t, <2>2 DEF TypeOK
    <3>. QED
      BY <2>2, <3>1, <3>2, RecordsGrow DEF RowGrows
  <2>. QED
    BY <2>1, <2>2 DEF Next, WorkerStep, Enqueue, TakeNext, Answered202, PostFails, MarkSent,
                      MarkFailed, UpdateHealth, Abort, Tick, vars
<1>. QED
  BY <1>1, <1>2, <1>3 DEF OnlyRetriesRepeat

-----------------------------------------------------------------------------
LEMMA Starts == Init => IInv
<1> SUFFICES ASSUME Init PROVE IInv
  OBVIOUS
<1> USE ParametersOK DEF Init
<1>1. TypeOK
  BY DEF TypeOK, Idle
<1>2. RowsAgree /\ WorkerAgrees
  BY DEF RowsAgree, WorkerAgrees, Idle, Ids
<1>3. PostsAgree
  BY DEF PostsAgree
<1>4. NoRepeatWithinWindow
  BY DEF NoRepeatWithinWindow
<1>5. StatusIsEarned
  BY DEF StatusIsEarned
<1>6. OnlyRetriesRepeat
  <2>1. \A i \in Ids : Cardinality(Copies(i)) <= posts[i]
    <3>. SUFFICES ASSUME NEW i \in Ids PROVE Cardinality(Copies(i)) <= posts[i]
      OBVIOUS
    <3>1. posts[i] = 0 /\ Copies(i) = {}
      BY DEF Copies
    <3>2. Cardinality(Copies(i)) = 0
      BY ONLY <3>1, FS_EmptySet
    <3>. QED
      BY <3>1, <3>2
  <2>. QED
    BY <2>1 DEF OnlyRetriesRepeat, Current
<1>. QED
  BY <1>1, <1>2, <1>3, <1>4, <1>5, <1>6 DEF IInv

\* The inductive invariant holds in every state.
THEOREM Invariance == Spec => []IInv
<1>1. IInv /\ [Next]_vars => IInv'
  BY TypeStep, RowsStep, WorkerAgreesStep, PostsStep, WindowStep, EarnedStep, RetriesStep DEF IInv
<1>. QED
  BY Starts, <1>1, PTL DEF Spec

\* Every variable keeps its range: no row is retried past the cap.
THEOREM Typing == Spec => []TypeOK
<1>1. IInv => TypeOK
  BY DEF IInv
<1>. QED
  BY <1>1, Invariance, PTL

\* storage.py:735-752: the dedupe window holds for all rows, whatever framing
\* sequence they came with and whatever became of the older one.
THEOREM Deduplication == Spec => []NoRepeatWithinWindow
<1>1. IInv => NoRepeatWithinWindow
  BY DEF IInv
<1>. QED
  BY <1>1, Invariance, PTL

\* "sent", "failed" and a device's health are earned, across failures, late
\* POSTs and restarts.
THEOREM RecordsAreTrue == Spec => []StatusIsEarned
<1>1. IInv => StatusIsEarned
  BY DEF IInv
<1>. QED
  BY <1>1, Invariance, PTL

\* README.md:174: Memfault holds no copy, and no reordering, that a recorded
\* failure or a cut-off iteration does not explain.
THEOREM RepeatsAreExplained == Spec => []OnlyRetriesRepeat
<1>1. IInv => OnlyRetriesRepeat
  BY DEF IInv
<1>. QED
  BY <1>1, Invariance, PTL

\* The safety half of EveryChunkSettles: a row that was sent or given up stays
\* so, keeps its chunk, and never loses a recorded attempt, restarts included.
SettledRowsStay == [][\A k \in Ids : RowGrows(k)]_vars

THEOREM SettledForGood == Spec => SettledRowsStay
<1>1. IInv /\ [Next]_vars => [\A k \in Ids : RowGrows(k)]_vars
  BY RecordsGrow
<1>. QED
  BY <1>1, Invariance, PTL DEF Spec, SettledRowsStay
=============================================================================
