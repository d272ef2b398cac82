------------------------- MODULE AutoProvisionProofs -------------------------
(***************************************************************************)
(* What AutoProvision guarantees for any number of accounts, boards,       *)
(* threads, tokens and devices, with failures and restarts unlimited.      *)
(*                                                                         *)
(* The argument is one inductive invariant, IInv: the lock names the only  *)
(* thread between acquire and release (OneAtATime), hence the row that     *)
(* thread read at "reserve" is still what the table holds when it acts on  *)
(* it (LocalsAgree), hence the tables and the clouds stay consistent       *)
(* (TablesAgree).  Each of the four lemmas below takes one conjunct        *)
(* through every action.                                                   *)
(***************************************************************************)
EXTENDS AutoProvision, TLAPS

-----------------------------------------------------------------------------
\* No step takes a variable out of its range.  The locals a thread writes to
\* the tables are in range because LocalsAgree says so of its step.
LEMMA TypeStep == IInv /\ [Next]_vars => TypeOK'
<1> SUFFICES ASSUME IInv, [Next]_vars PROVE TypeOK'
  OBVIOUS
<1> USE NoneIsFresh DEF IInv, Goto, Answer, MayUse, vars, tables, certificates, outside, Fault, threads, clouds,
      Users, Resting, Critical, Steps, Bearing, Linked, TypeOK, LocalsAgree
<1>1. ASSUME NEW r \in Requests, NEW u \in Users, NEW k \in Keys, Post(r, u, k) PROVE TypeOK'
  BY <1>1 DEF Post
<1>2. ASSUME NEW r \in Requests, NEW u \in Users, NEW b \in BOOLEAN, PostRefused(r, u, b) PROVE TypeOK'
  BY <1>2 DEF PostRefused
<1>3. ASSUME NEW r \in Requests, Acquire(r) PROVE TypeOK'
  BY <1>3 DEF Acquire
<1>4. ASSUME NEW r \in Requests, AcquireTimeout(r) PROVE TypeOK'
  BY <1>4 DEF AcquireTimeout
<1>5. ASSUME NEW r \in Requests, ReserveForeign(r) PROVE TypeOK'
  BY <1>5 DEF ReserveForeign
<1>6. ASSUME NEW r \in Requests, ReserveUnconfigured(r) PROVE TypeOK'
  BY <1>6 DEF ReserveUnconfigured
<1>7. ASSUME NEW r \in Requests, NEW t \in Tokens, ReserveNew(r, t) PROVE TypeOK'
  BY <1>7 DEF ReserveNew
<1>8. ASSUME NEW r \in Requests, ReserveAgain(r) PROVE TypeOK'
  BY <1>8 DEF ReserveAgain
<1>9. ASSUME NEW r \in Requests, CheckLinked(r) PROVE TypeOK'
  BY <1>9 DEF CheckLinked
<1>10. ASSUME NEW r \in Requests, CallAws(r) PROVE TypeOK'
  BY <1>10 DEF CallAws
<1>11. ASSUME NEW r \in Requests, AwsAnswers(r) PROVE TypeOK'
  BY <1>11 DEF AwsAnswers
<1>12. ASSUME NEW r \in Requests, Lookup(r) PROVE TypeOK'
  BY <1>12 DEF Lookup
<1>13. ASSUME NEW r \in Requests, CheckFound(r) PROVE TypeOK'
  BY <1>13 DEF CheckFound
<1>14. ASSUME NEW r \in Requests, InsertRecord(r) PROVE TypeOK'
  BY <1>14 DEF InsertRecord
<1>15. ASSUME NEW r \in Requests, InsertConflict(r) PROVE TypeOK'
  BY <1>15 DEF InsertConflict
<1>16. ASSUME NEW r \in Requests, Link(r) PROVE TypeOK'
  BY <1>16 DEF Link
<1>17. ASSUME NEW r \in Requests, LoadArtifacts(r) PROVE TypeOK'
  BY <1>17 DEF LoadArtifacts, LoadInto
<1>18. ASSUME NEW r \in Requests, RegisterMemfault(r) PROVE TypeOK'
  BY <1>18 DEF RegisterMemfault
<1>19. ASSUME NEW r \in Requests, Succeed(r) PROVE TypeOK'
  BY <1>19 DEF Succeed
<1>20. ASSUME NEW r \in Requests, SyncHangs(r) PROVE TypeOK'
  BY <1>20 DEF SyncHangs
<1>21. ASSUME NEW r \in Requests, MemfaultResponseLost(r) PROVE TypeOK'
  BY <1>21 DEF MemfaultResponseLost
<1>22. ASSUME NEW r \in Requests, Interrupted(r) PROVE TypeOK'
  BY <1>22 DEF Interrupted
<1>23. ASSUME NEW t \in Tokens, NEW w \in Wids, AwsCreates(t, w) PROVE TypeOK'
  BY <1>23 DEF AwsCreates
<1>24. ASSUME NEW c \in Customers, NEW b \in BOOLEAN, SetPermission(c, b) PROVE TypeOK'
  BY <1>24 DEF SetPermission
<1>25. ASSUME NEW w \in Wids, NEW cs \in SUBSET Customers, AssignDevice(w, cs) PROVE TypeOK'
  BY <1>25 DEF AssignDevice
<1>26. ASSUME NEW w \in Wids, NEW cs \in {{}} \cup {{c} : c \in Customers},
             NEW f \in Imports, NEW m \in BOOLEAN, ImportDevice(w, cs, f, m)
      PROVE TypeOK'
  BY <1>26 DEF ImportDevice
<1>27. ASSUME Restart PROVE TypeOK'
  BY <1>27 DEF Restart
<1>28. CASE UNCHANGED vars
  BY <1>28
<1>29. ASSUME NEW r \in Requests, NoProfile(r) PROVE TypeOK'
  BY <1>29 DEF NoProfile
<1>30. ASSUME NEW r \in Requests, Validate(r) PROVE TypeOK'
  BY <1>30 DEF Validate
<1>31. ASSUME NEW r \in Requests, MemfaultUnconfigured(r) PROVE TypeOK'
  BY <1>31 DEF MemfaultUnconfigured
<1>32. ASSUME NEW w \in Wids, LoadElsewhere(w) PROVE TypeOK'
  BY <1>32 DEF LoadElsewhere, LoadInto
<1>33. ASSUME NEW w \in Wids, UploadCertificate(w) PROVE TypeOK'
  BY <1>33 DEF UploadCertificate
<1>34. ASSUME NEW w \in Wids, LookupBegins(w) PROVE TypeOK'
  BY <1>34 DEF LookupBegins
<1>35. ASSUME NEW w \in Wids, LookupEnds(w) PROVE TypeOK'
  BY <1>35 DEF LookupEnds
<1> HIDE DEF IInv, Goto, Answer, MayUse, vars, tables, certificates, outside, Fault, threads, clouds,
      Users, Resting, Critical, Steps, Bearing, Linked, TypeOK, LocalsAgree
<1>. QED
  BY <1>1, <1>2, <1>3, <1>4, <1>5, <1>6, <1>7, <1>8, <1>9, <1>10, <1>11,
     <1>12, <1>13, <1>14, <1>15, <1>16, <1>17, <1>18, <1>19, <1>20,
     <1>21, <1>22, <1>23, <1>24, <1>25, <1>26, <1>27, <1>28, <1>29, <1>30,
     <1>31, <1>32, <1>33, <1>34, <1>35
     DEF Next, ThreadStep, ReserveStep, DeviceStep, FinishStep, Mishap, AdminStep

\* The lock is what serialises the endpoint: a thread enters only when no other
\* is inside, and every way out gives the lock back.
LEMMA LockStep == IInv /\ [Next]_vars => OneAtATime'
<1> SUFFICES ASSUME IInv, [Next]_vars PROVE OneAtATime'
  OBVIOUS
<1> USE NoneIsFresh DEF IInv, Goto, Answer, MayUse, vars, tables, certificates, outside, Fault, threads, clouds,
      Users, Resting, Critical, Steps, Bearing, Linked, TypeOK, OneAtATime
<1>1. ASSUME NEW r \in Requests, NEW u \in Users, NEW k \in Keys, Post(r, u, k) PROVE OneAtATime'
  BY <1>1 DEF Post
<1>2. ASSUME NEW r \in Requests, NEW u \in Users, NEW b \in BOOLEAN, PostRefused(r, u, b) PROVE OneAtATime'
  BY <1>2 DEF PostRefused
<1>3. ASSUME NEW r \in Requests, Acquire(r) PROVE OneAtATime'
  BY <1>3 DEF Acquire
<1>4. ASSUME NEW r \in Requests, AcquireTimeout(r) PROVE OneAtATime'
  BY <1>4 DEF AcquireTimeout
<1>5. ASSUME NEW r \in Requests, ReserveForeign(r) PROVE OneAtATime'
  BY <1>5 DEF ReserveForeign
<1>6. ASSUME NEW r \in Requests, ReserveUnconfigured(r) PROVE OneAtATime'
  BY <1>6 DEF ReserveUnconfigured
<1>7. ASSUME NEW r \in Requests, NEW t \in Tokens, ReserveNew(r, t) PROVE OneAtATime'
  BY <1>7 DEF ReserveNew
<1>8. ASSUME NEW r \in Requests, ReserveAgain(r) PROVE OneAtATime'
  BY <1>8 DEF ReserveAgain
<1>9. ASSUME NEW r \in Requests, CheckLinked(r) PROVE OneAtATime'
  BY <1>9 DEF CheckLinked
<1>10. ASSUME NEW r \in Requests, CallAws(r) PROVE OneAtATime'
  BY <1>10 DEF CallAws
<1>11. ASSUME NEW r \in Requests, AwsAnswers(r) PROVE OneAtATime'
  BY <1>11 DEF AwsAnswers
<1>12. ASSUME NEW r \in Requests, Lookup(r) PROVE OneAtATime'
  BY <1>12 DEF Lookup
<1>13. ASSUME NEW r \in Requests, CheckFound(r) PROVE OneAtATime'
  BY <1>13 DEF CheckFound
<1>14. ASSUME NEW r \in Requests, InsertRecord(r) PROVE OneAtATime'
  BY <1>14 DEF InsertRecord
<1>15. ASSUME NEW r \in Requests, InsertConflict(r) PROVE OneAtATime'
  BY <1>15 DEF InsertConflict
<1>16. ASSUME NEW r \in Requests, Link(r) PROVE OneAtATime'
  BY <1>16 DEF Link
<1>17. ASSUME NEW r \in Requests, LoadArtifacts(r) PROVE OneAtATime'
  BY <1>17 DEF LoadArtifacts, LoadInto
<1>18. ASSUME NEW r \in Requests, RegisterMemfault(r) PROVE OneAtATime'
  BY <1>18 DEF RegisterMemfault
<1>19. ASSUME NEW r \in Requests, Succeed(r) PROVE OneAtATime'
  BY <1>19 DEF Succeed
<1>20. ASSUME NEW r \in Requests, SyncHangs(r) PROVE OneAtATime'
  BY <1>20 DEF SyncHangs
<1>21. ASSUME NEW r \in Requests, MemfaultResponseLost(r) PROVE OneAtATime'
  BY <1>21 DEF MemfaultResponseLost
<1>22. ASSUME NEW r \in Requests, Interrupted(r) PROVE OneAtATime'
  BY <1>22 DEF Interrupted
<1>23. ASSUME NEW t \in Tokens, NEW w \in Wids, AwsCreates(t, w) PROVE OneAtATime'
  BY <1>23 DEF AwsCreates
<1>24. ASSUME NEW c \in Customers, NEW b \in BOOLEAN, SetPermission(c, b) PROVE OneAtATime'
  BY <1>24 DEF SetPermission
<1>25. ASSUME NEW w \in Wids, NEW cs \in SUBSET Customers, AssignDevice(w, cs) PROVE OneAtATime'
  BY <1>25 DEF AssignDevice
<1>26. ASSUME NEW w \in Wids, NEW cs \in {{}} \cup {{c} : c \in Customers},
             NEW f \in Imports, NEW m \in BOOLEAN, ImportDevice(w, cs, f, m)
      PROVE OneAtATime'
  BY <1>26 DEF ImportDevice
<1>27. ASSUME Restart PROVE OneAtATime'
  BY <1>27 DEF Restart
<1>28. CASE UNCHANGED vars
  BY <1>28
<1>29. ASSUME NEW r \in Requests, NoProfile(r) PROVE OneAtATime'
  BY <1>29 DEF NoProfile
<1>30. ASSUME NEW r \in Requests, Validate(r) PROVE OneAtATime'
  BY <1>30 DEF Validate
<1>31. ASSUME NEW r \in Requests, MemfaultUnconfigured(r) PROVE OneAtATime'
  BY <1>31 DEF MemfaultUnconfigured
<1>32. ASSUME NEW w \in Wids, LoadElsewhere(w) PROVE OneAtATime'
  BY <1>32 DEF LoadElsewhere, LoadInto
<1>33. ASSUME NEW w \in Wids, UploadCertificate(w) PROVE OneAtATime'
  BY <1>33 DEF UploadCertificate
<1>34. ASSUME NEW w \in Wids, LookupBegins(w) PROVE OneAtATime'
  BY <1>34 DEF LookupBegins
<1>35. ASSUME NEW w \in Wids, LookupEnds(w) PROVE OneAtATime'
  BY <1>35 DEF LookupEnds
<1> HIDE DEF IInv, Goto, Answer, MayUse, vars, tables, certificates, outside, Fault, threads, clouds,
      Users, Resting, Critical, Steps, Bearing, Linked, TypeOK, OneAtATime
<1>. QED
  BY <1>1, <1>2, <1>3, <1>4, <1>5, <1>6, <1>7, <1>8, <1>9, <1>10, <1>11,
     <1>12, <1>13, <1>14, <1>15, <1>16, <1>17, <1>18, <1>19, <1>20,
     <1>21, <1>22, <1>23, <1>24, <1>25, <1>26, <1>27, <1>28, <1>29, <1>30,
     <1>31, <1>32, <1>33, <1>34, <1>35
     DEF Next, ThreadStep, ReserveStep, DeviceStep, FinishStep, Mishap, AdminStep

\* Only the thread inside the lock writes the reservation, and what it writes
\* is what AWS answered for the token it saved first.
LEMMA TablesStep == IInv /\ [Next]_vars => TablesAgree'
<1> SUFFICES ASSUME IInv, [Next]_vars PROVE TablesAgree'
  OBVIOUS
<1> USE NoneIsFresh DEF IInv, Goto, Answer, MayUse, vars, tables, certificates, outside, Fault, threads, clouds,
      Users, Resting, Critical, Steps, Bearing, Linked, TypeOK,
      OneAtATime, TablesAgree, LocalsAgree
<1>1. ASSUME NEW r \in Requests, NEW u \in Users, NEW k \in Keys, Post(r, u, k) PROVE TablesAgree'
  BY <1>1 DEF Post
<1>2. ASSUME NEW r \in Requests, NEW u \in Users, NEW b \in BOOLEAN, PostRefused(r, u, b) PROVE TablesAgree'
  BY <1>2 DEF PostRefused
<1>3. ASSUME NEW r \in Requests, Acquire(r) PROVE TablesAgree'
  BY <1>3 DEF Acquire
<1>4. ASSUME NEW r \in Requests, AcquireTimeout(r) PROVE TablesAgree'
  BY <1>4 DEF AcquireTimeout
<1>5. ASSUME NEW r \in Requests, ReserveForeign(r) PROVE TablesAgree'
  BY <1>5 DEF ReserveForeign
<1>6. ASSUME NEW r \in Requests, ReserveUnconfigured(r) PROVE TablesAgree'
  BY <1>6 DEF ReserveUnconfigured
<1>7. ASSUME NEW r \in Requests, NEW t \in Tokens, ReserveNew(r, t) PROVE TablesAgree'
  BY <1>7 DEF ReserveNew
<1>8. ASSUME NEW r \in Requests, ReserveAgain(r) PROVE TablesAgree'
  BY <1>8 DEF ReserveAgain
<1>9. ASSUME NEW r \in Requests, CheckLinked(r) PROVE TablesAgree'
  BY <1>9 DEF CheckLinked
<1>10. ASSUME NEW r \in Requests, CallAws(r) PROVE TablesAgree'
  BY <1>10 DEF CallAws
<1>11. ASSUME NEW r \in Requests, AwsAnswers(r) PROVE TablesAgree'
  BY <1>11 DEF AwsAnswers
<1>12. ASSUME NEW r \in Requests, Lookup(r) PROVE TablesAgree'
  BY <1>12 DEF Lookup
<1>13. ASSUME NEW r \in Requests, CheckFound(r) PROVE TablesAgree'
  BY <1>13 DEF CheckFound
<1>14. ASSUME NEW r \in Requests, InsertRecord(r) PROVE TablesAgree'
  BY <1>14 DEF InsertRecord
<1>15. ASSUME NEW r \in Requests, InsertConflict(r) PROVE TablesAgree'
  BY <1>15 DEF InsertConflict
<1>16. ASSUME NEW r \in Requests, Link(r) PROVE TablesAgree'
  BY <1>16 DEF Link
<1>17. ASSUME NEW r \in Requests, LoadArtifacts(r) PROVE TablesAgree'
  BY <1>17 DEF LoadArtifacts, LoadInto
<1>18. ASSUME NEW r \in Requests, RegisterMemfault(r) PROVE TablesAgree'
  BY <1>18 DEF RegisterMemfault
<1>19. ASSUME NEW r \in Requests, Succeed(r) PROVE TablesAgree'
  BY <1>19 DEF Succeed
<1>20. ASSUME NEW r \in Requests, SyncHangs(r) PROVE TablesAgree'
  BY <1>20 DEF SyncHangs
<1>21. ASSUME NEW r \in Requests, MemfaultResponseLost(r) PROVE TablesAgree'
  BY <1>21 DEF MemfaultResponseLost
<1>22. ASSUME NEW r \in Requests, Interrupted(r) PROVE TablesAgree'
  BY <1>22 DEF Interrupted
<1>23. ASSUME NEW t \in Tokens, NEW w \in Wids, AwsCreates(t, w) PROVE TablesAgree'
  BY <1>23 DEF AwsCreates
<1>24. ASSUME NEW c \in Customers, NEW b \in BOOLEAN, SetPermission(c, b) PROVE TablesAgree'
  BY <1>24 DEF SetPermission
<1>25. ASSUME NEW w \in Wids, NEW cs \in SUBSET Customers, AssignDevice(w, cs) PROVE TablesAgree'
  BY <1>25 DEF AssignDevice
<1>26. ASSUME NEW w \in Wids, NEW cs \in {{}} \cup {{c} : c \in Customers},
             NEW f \in Imports, NEW m \in BOOLEAN, ImportDevice(w, cs, f, m)
      PROVE TablesAgree'
  BY <1>26 DEF ImportDevice
<1>27. ASSUME Restart PROVE TablesAgree'
  BY <1>27 DEF Restart
<1>28. CASE UNCHANGED vars
  BY <1>28
<1>29. ASSUME NEW r \in Requests, NoProfile(r) PROVE TablesAgree'
  BY <1>29 DEF NoProfile
<1>30. ASSUME NEW r \in Requests, Validate(r) PROVE TablesAgree'
  BY <1>30 DEF Validate
<1>31. ASSUME NEW r \in Requests, MemfaultUnconfigured(r) PROVE TablesAgree'
  BY <1>31 DEF MemfaultUnconfigured
<1>32. ASSUME NEW w \in Wids, LoadElsewhere(w) PROVE TablesAgree'
  BY <1>32 DEF LoadElsewhere, LoadInto
<1>33. ASSUME NEW w \in Wids, UploadCertificate(w) PROVE TablesAgree'
  BY <1>33 DEF UploadCertificate
<1>34. ASSUME NEW w \in Wids, LookupBegins(w) PROVE TablesAgree'
  BY <1>34 DEF LookupBegins
<1>35. ASSUME NEW w \in Wids, LookupEnds(w) PROVE TablesAgree'
  BY <1>35 DEF LookupEnds
<1> HIDE DEF IInv, Goto, Answer, MayUse, vars, tables, certificates, outside, Fault, threads, clouds,
      Users, Resting, Critical, Steps, Bearing, Linked, TypeOK,
      OneAtATime, TablesAgree, LocalsAgree
<1>. QED
  BY <1>1, <1>2, <1>3, <1>4, <1>5, <1>6, <1>7, <1>8, <1>9, <1>10, <1>11,
     <1>12, <1>13, <1>14, <1>15, <1>16, <1>17, <1>18, <1>19, <1>20,
     <1>21, <1>22, <1>23, <1>24, <1>25, <1>26, <1>27, <1>28, <1>29, <1>30,
     <1>31, <1>32, <1>33, <1>34, <1>35
     DEF Next, ThreadStep, ReserveStep, DeviceStep, FinishStep, Mishap, AdminStep

\* A thread's copy of its reservation stays true, because nobody else is inside
\* and nobody outside writes reservations, tokens or the AWS devices made.
LEMMA LocalsStep == IInv /\ [Next]_vars => LocalsAgree'
<1> SUFFICES ASSUME IInv, [Next]_vars PROVE LocalsAgree'
  OBVIOUS
<1> USE NoneIsFresh DEF IInv, Goto, Answer, MayUse, vars, tables, certificates, outside, Fault, threads, clouds,
      Users, Resting, Critical, Steps, Bearing, Linked, TypeOK,
      OneAtATime, TablesAgree, LocalsAgree
<1>1. ASSUME NEW r \in Requests, NEW u \in Users, NEW k \in Keys, Post(r, u, k) PROVE LocalsAgree'
  BY <1>1 DEF Post
<1>2. ASSUME NEW r \in Requests, NEW u \in Users, NEW b \in BOOLEAN, PostRefused(r, u, b) PROVE LocalsAgree'
  BY <1>2 DEF PostRefused
<1>3. ASSUME NEW r \in Requests, Acquire(r) PROVE LocalsAgree'
  BY <1>3 DEF Acquire
<1>4. ASSUME NEW r \in Requests, AcquireTimeout(r) PROVE LocalsAgree'
  BY <1>4 DEF AcquireTimeout
<1>5. ASSUME NEW r \in Requests, ReserveForeign(r) PROVE LocalsAgree'
  BY <1>5 DEF ReserveForeign
<1>6. ASSUME NEW r \in Requests, ReserveUnconfigured(r) PROVE LocalsAgree'
  BY <1>6 DEF ReserveUnconfigured
<1>7. ASSUME NEW r \in Requests, NEW t \in Tokens, ReserveNew(r, t) PROVE LocalsAgree'
  BY <1>7 DEF ReserveNew
<1>8. ASSUME NEW r \in Requests, ReserveAgain(r) PROVE LocalsAgree'
  BY <1>8 DEF ReserveAgain
<1>9. ASSUME NEW r \in Requests, CheckLinked(r) PROVE LocalsAgree'
  BY <1>9 DEF CheckLinked
<1>10. ASSUME NEW r \in Requests, CallAws(r) PROVE LocalsAgree'
  BY <1>10 DEF CallAws
<1>11. ASSUME NEW r \in Requests, AwsAnswers(r) PROVE LocalsAgree'
  BY <1>11 DEF AwsAnswers
<1>12. ASSUME NEW r \in Requests, Lookup(r) PROVE LocalsAgree'
  BY <1>12 DEF Lookup
<1>13. ASSUME NEW r \in Requests, CheckFound(r) PROVE LocalsAgree'
  BY <1>13 DEF CheckFound
<1>14. ASSUME NEW r \in Requests, InsertRecord(r) PROVE LocalsAgree'
  BY <1>14 DEF InsertRecord
<1>15. ASSUME NEW r \in Requests, InsertConflict(r) PROVE LocalsAgree'
  BY <1>15 DEF InsertConflict
<1>16. ASSUME NEW r \in Requests, Link(r) PROVE LocalsAgree'
  BY <1>16 DEF Link
<1>17. ASSUME NEW r \in Requests, LoadArtifacts(r) PROVE LocalsAgree'
  BY <1>17 DEF LoadArtifacts, LoadInto
<1>18. ASSUME NEW r \in Requests, RegisterMemfault(r) PROVE LocalsAgree'
  BY <1>18 DEF RegisterMemfault
<1>19. ASSUME NEW r \in Requests, Succeed(r) PROVE LocalsAgree'
  BY <1>19 DEF Succeed
<1>20. ASSUME NEW r \in Requests, SyncHangs(r) PROVE LocalsAgree'
  BY <1>20 DEF SyncHangs
<1>21. ASSUME NEW r \in Requests, MemfaultResponseLost(r) PROVE LocalsAgree'
  BY <1>21 DEF MemfaultResponseLost
<1>22. ASSUME NEW r \in Requests, Interrupted(r) PROVE LocalsAgree'
  BY <1>22 DEF Interrupted
<1>23. ASSUME NEW t \in Tokens, NEW w \in Wids, AwsCreates(t, w) PROVE LocalsAgree'
  BY <1>23 DEF AwsCreates
<1>24. ASSUME NEW c \in Customers, NEW b \in BOOLEAN, SetPermission(c, b) PROVE LocalsAgree'
  BY <1>24 DEF SetPermission
<1>25. ASSUME NEW w \in Wids, NEW cs \in SUBSET Customers, AssignDevice(w, cs) PROVE LocalsAgree'
  BY <1>25 DEF AssignDevice
<1>26. ASSUME NEW w \in Wids, NEW cs \in {{}} \cup {{c} : c \in Customers},
             NEW f \in Imports, NEW m \in BOOLEAN, ImportDevice(w, cs, f, m)
      PROVE LocalsAgree'
  BY <1>26 DEF ImportDevice
<1>27. ASSUME Restart PROVE LocalsAgree'
  BY <1>27 DEF Restart
<1>28. CASE UNCHANGED vars
  BY <1>28
<1>29. ASSUME NEW r \in Requests, NoProfile(r) PROVE LocalsAgree'
  BY <1>29 DEF NoProfile
<1>30. ASSUME NEW r \in Requests, Validate(r) PROVE LocalsAgree'
  BY <1>30 DEF Validate
<1>31. ASSUME NEW r \in Requests, MemfaultUnconfigured(r) PROVE LocalsAgree'
  BY <1>31 DEF MemfaultUnconfigured
<1>32. ASSUME NEW w \in Wids, LoadElsewhere(w) PROVE LocalsAgree'
  BY <1>32 DEF LoadElsewhere, LoadInto
<1>33. ASSUME NEW w \in Wids, UploadCertificate(w) PROVE LocalsAgree'
  BY <1>33 DEF UploadCertificate
<1>34. ASSUME NEW w \in Wids, LookupBegins(w) PROVE LocalsAgree'
  BY <1>34 DEF LookupBegins
<1>35. ASSUME NEW w \in Wids, LookupEnds(w) PROVE LocalsAgree'
  BY <1>35 DEF LookupEnds
<1> HIDE DEF IInv, Goto, Answer, MayUse, vars, tables, certificates, outside, Fault, threads, clouds,
      Users, Resting, Critical, Steps, Bearing, Linked, TypeOK,
      OneAtATime, TablesAgree, LocalsAgree
<1>. QED
  BY <1>1, <1>2, <1>3, <1>4, <1>5, <1>6, <1>7, <1>8, <1>9, <1>10, <1>11,
     <1>12, <1>13, <1>14, <1>15, <1>16, <1>17, <1>18, <1>19, <1>20,
     <1>21, <1>22, <1>23, <1>24, <1>25, <1>26, <1>27, <1>28, <1>29, <1>30,
     <1>31, <1>32, <1>33, <1>34, <1>35
     DEF Next, ThreadStep, ReserveStep, DeviceStep, FinishStep, Mishap, AdminStep

-----------------------------------------------------------------------------
LEMMA InitInv == Init => IInv
BY NoneIsFresh
   DEF Init, IInv, TypeOK, OneAtATime, TablesAgree, LocalsAgree, Critical,
       Bearing, Linked, Steps, Resting

\* The invariant of AutoProvision, for every instance of its constants.
THEOREM Invariance == Spec => []IInv
<1>1. IInv /\ [Next]_vars => IInv'
  BY TypeStep, LockStep, TablesStep, LocalsStep DEF IInv
<1>. QED
  BY InitInv, <1>1, PTL DEF Spec

\* Type correctness.
THEOREM TypeCorrect == Spec => []TypeOK
BY Invariance, PTL DEF IInv

\* app.py:592 and 662-663: requests are serialised.
THEOREM Exclusion == Spec => []OneAtATime
BY Invariance, PTL DEF IInv

\* app.py:573-574: AWS is only asked with a token that is on disk, so what it
\* made can always be found again by retrying the board.
THEOREM NothingStray == Spec => []NoStrayAwsDevice
<1>1. IInv => NoStrayAwsDevice
  BY DEF IInv, TablesAgree, NoStrayAwsDevice, TypeOK
<1>. QED
  BY <1>1, Invariance, PTL

\* app.py:642-644: the row of a board names the device made for its token, it
\* exists locally, and no other board shares it.
THEOREM LinksAreOwn == Spec => []LinkIsOwnDevice
<1>1. ASSUME IInv PROVE LinkIsOwnDevice
  <2> SUFFICES ASSUME NEW k \in Keys, linked[k] # None
               PROVE  /\ token[k] # None
                      /\ aws[token[k]] = linked[k]
                      /\ linked[k] \in records
                      /\ \A j \in Keys : linked[j] = linked[k] => j = k
    BY DEF LinkIsOwnDevice
  <2>1. token[k] # None /\ aws[token[k]] = linked[k] /\ linked[k] \in records
    BY <1>1 DEF IInv, TablesAgree
  <2>2. ASSUME NEW j \in Keys, linked[j] = linked[k] PROVE j = k
    <3>1. token[j] # None /\ aws[token[j]] = aws[token[k]]
      BY <1>1, <2>1, <2>2 DEF IInv, TablesAgree
    <3>2. token[j] \in Tokens /\ token[k] \in Tokens
      BY <1>1, <2>1, <3>1 DEF IInv, TypeOK
    <3>3. token[j] = token[k]
      BY <1>1, <2>1, <3>1, <3>2 DEF IInv, TablesAgree
    <3>. QED
      BY <1>1, <3>1, <3>3 DEF IInv, TablesAgree
  <2>. QED
    BY <2>1, <2>2
<1>. QED
  BY <1>1, Invariance, PTL

\* app.py:620-627: AWS is not called again for a board that has its device.
THEOREM NoSecondCall == Spec => []NoCallForLinkedBoard
<1>1. IInv => NoCallForLinkedBoard
  BY DEF IInv, LocalsAgree, NoCallForLinkedBoard, Bearing
<1>. QED
  BY <1>1, Invariance, PTL

\* app.py:645-658: a 200 comes with the reserved device, stored certificates
\* and a Memfault registration, but for an identity lookup that wrote the row
\* back as it had read it before.
THEOREM OkIsComplete == Spec => []OkMeansComplete
<1>1. IInv => OkMeansComplete
  BY DEF IInv, LocalsAgree, OkMeansComplete, Bearing, Linked
<1>. QED
  BY <1>1, Invariance, PTL

-----------------------------------------------------------------------------
\* The rows of a reservation and the devices AWS made change in three places
\* only: a first request, the call AWS executes, and the link between them.
LEMMA SetupEffects ==
    ASSUME [Next]_vars
    PROVE  \/ UNCHANGED <<reservedBy, token, linked, aws>>
           \/ \E r \in Requests, t \in Tokens : ReserveNew(r, t)
           \/ \E t \in Tokens, w \in Wids : AwsCreates(t, w)
           \/ \E r \in Requests : Link(r)
<1> DEFINE Quiet == UNCHANGED <<reservedBy, token, linked, aws>>
<1>0. ASSUME NEW r \in Requests, NEW u \in Users, NEW k \in Keys, Post(r, u, k)
      PROVE  Quiet
  BY <1>0 DEF Post, tables, clouds
<1>1. ASSUME NEW r \in Requests, NEW u \in Users, NEW b \in BOOLEAN, PostRefused(r, u, b)
      PROVE  Quiet
  BY <1>1 DEF PostRefused, tables, clouds
<1>2. ASSUME NEW r \in Requests,
             \/ Acquire(r) \/ AcquireTimeout(r)
             \/ ReserveForeign(r) \/ ReserveUnconfigured(r) \/ ReserveAgain(r)
      PROVE  Quiet
  BY <1>2 DEF Acquire, AcquireTimeout, ReserveForeign, ReserveUnconfigured,
              ReserveAgain, tables, clouds
<1>3. ASSUME NEW r \in Requests, DeviceStep(r), ~Link(r)
      PROVE  Quiet
  BY <1>3 DEF DeviceStep, CheckLinked, CallAws, AwsAnswers, Lookup, CheckFound,
              InsertRecord, InsertConflict, tables, clouds
<1>4. ASSUME NEW r \in Requests, FinishStep(r) \/ Mishap(r)
      PROVE  Quiet
  BY <1>4 DEF FinishStep, Mishap, LoadArtifacts, NoProfile, Validate, RegisterMemfault,
              MemfaultUnconfigured, Succeed, MemfaultResponseLost, SyncHangs,
              Interrupted, tables, clouds
<1>5. ASSUME AdminStep \/ Restart
      PROVE  Quiet
  BY <1>5 DEF AdminStep, SetPermission, AssignDevice, ImportDevice, LoadElsewhere,
              UploadCertificate, LookupBegins, LookupEnds, Restart,
              tables, clouds
<1>6. ASSUME UNCHANGED vars
      PROVE  Quiet
  BY <1>6 DEF vars, tables, clouds
<1> HIDE DEF Quiet
<1>7. CASE Quiet
  BY <1>7 DEF Quiet
<1>8. CASE ~Quiet
  BY <1>0, <1>1, <1>2, <1>3, <1>4, <1>5, <1>6, <1>8
     DEF Next, ThreadStep, ReserveStep
<1>. QED
  BY <1>7, <1>8

\* A board keeps the user, the token and the device it was given.
THEOREM ReservationsAreKept == Spec => ReservationIsKept
<1> DEFINE Kept ==
      \A k \in Keys :
        /\ reservedBy[k] # None =>
              reservedBy'[k] = reservedBy[k] /\ token'[k] = token[k]
        /\ linked[k] # None => linked'[k] = linked[k]
<1>1. ASSUME IInv, [Next]_vars PROVE Kept
  <2>1. CASE UNCHANGED <<reservedBy, token, linked, aws>>
    BY <2>1
  <2>2. ASSUME NEW r \in Requests, NEW t \in Tokens, ReserveNew(r, t) PROVE Kept
    BY <1>1, <2>2 DEF ReserveNew, IInv, TypeOK
  <2>3. ASSUME NEW t \in Tokens, NEW w \in Wids, AwsCreates(t, w) PROVE Kept
    BY <2>3 DEF AwsCreates, tables
  <2>4. ASSUME NEW r \in Requests, Link(r) PROVE Kept
    BY <1>1, <2>4 DEF Link, IInv, TypeOK, LocalsAgree, Bearing
  <2>. QED
    BY <1>1, <2>1, <2>2, <2>3, <2>4, SetupEffects
<1>2. IInv /\ [Next]_vars => [Kept]_vars
  BY <1>1
<1>. QED
  BY <1>2, Invariance, PTL DEF Spec, ReservationIsKept

\* app.py:628-629: no request of the endpoint touches the access of a row
\* that exists; InsertRecord and ImportDevice only write rows they add.
THEOREM OwnershipStays == Spec => OwnershipNotTransferred
<1> DEFINE Stays ==
      \A w \in records :
        access'[w] # access[w] => \E cs \in SUBSET Customers : AssignDevice(w, cs)
<1>1. ASSUME IInv, [Next]_vars PROVE Stays
  <2>1. ASSUME access' = access PROVE Stays
    BY <2>1
  <2>2. ASSUME NEW r \in Requests, InsertRecord(r) PROVE Stays
    BY <1>1, <2>2 DEF InsertRecord, IInv, TypeOK
  <2>3. ASSUME NEW v \in Wids, NEW cs \in SUBSET Customers, AssignDevice(v, cs)
        PROVE  Stays
    BY <1>1, <2>3 DEF AssignDevice, IInv, TypeOK
  <2>4. ASSUME NEW v \in Wids, NEW cs \in {{}} \cup {{c} : c \in Customers},
               NEW f \in Imports, NEW m \in BOOLEAN, ImportDevice(v, cs, f, m)
        PROVE  Stays
    BY <1>1, <2>4 DEF ImportDevice, IInv, TypeOK
  <2>5. ASSUME NEW r \in Requests,
               \/ Acquire(r) \/ AcquireTimeout(r) \/ ReserveStep(r)
               \/ (DeviceStep(r) /\ ~InsertRecord(r)) \/ FinishStep(r) \/ Mishap(r)
        PROVE  access' = access
    BY <2>5 DEF Acquire, AcquireTimeout, ReserveStep, ReserveForeign,
                ReserveUnconfigured, ReserveNew, ReserveAgain, DeviceStep,
                CheckLinked, CallAws, AwsAnswers, Lookup, CheckFound,
                InsertConflict, Link, FinishStep, LoadArtifacts, NoProfile,
                Validate, RegisterMemfault, MemfaultUnconfigured, Succeed, Mishap,
                MemfaultResponseLost, SyncHangs, Interrupted,
                tables
  <2>6. ASSUME \/ \E r \in Requests, u \in Users, k \in Keys : Post(r, u, k)
               \/ \E r \in Requests, u \in Users, b \in BOOLEAN : PostRefused(r, u, b)
        PROVE  access' = access
    BY <2>6 DEF Post, PostRefused, tables
  <2>7. ASSUME \/ \E t \in Tokens, w \in Wids : AwsCreates(t, w)
               \/ \E c \in Customers, b \in BOOLEAN : SetPermission(c, b)
               \/ \E w \in Wids : LoadElsewhere(w) \/ UploadCertificate(w)
               \/ \E w \in Wids : LookupBegins(w) \/ LookupEnds(w)
               \/ Restart
               \/ UNCHANGED vars
        PROVE  access' = access
    BY <2>7 DEF AwsCreates, SetPermission, LoadElsewhere, UploadCertificate,
                LookupBegins, LookupEnds, Restart, tables, vars
  <2> HIDE DEF Stays
  <2>. QED
    BY <1>1, <2>1, <2>2, <2>3, <2>4, <2>5, <2>6, <2>7
       DEF Next, ThreadStep, AdminStep
<1>2. IInv /\ [Next]_vars => [Stays]_vars
  BY <1>1
<1>. QED
  BY <1>2, Invariance, PTL DEF Spec, OwnershipNotTransferred

-----------------------------------------------------------------------------
(***************************************************************************)
(* AutoProvision implements BoardSetup: reserving a key is a Claim, AWS    *)
(* executing the call is a Make, the link is a Bind, and every other step  *)
(* stutters.                                                               *)
(***************************************************************************)
LEMMA SetupStarts == Init => Setup!SetupInit
BY DEF Init, Setup!SetupInit, madeFor

LEMMA SetupStep == IInv /\ [Next]_vars => [Setup!SetupNext]_(Setup!setupVars)
<1> SUFFICES ASSUME IInv, [Next]_vars
             PROVE  Setup!SetupNext \/ UNCHANGED Setup!setupVars
  OBVIOUS
<1>1. CASE UNCHANGED <<reservedBy, token, linked, aws>>
  BY <1>1 DEF madeFor, Setup!setupVars
<1>2. ASSUME NEW r \in Requests, NEW t \in Tokens, ReserveNew(r, t)
      PROVE  Setup!SetupNext
  <2>1. rKey[r] \in Keys /\ rUser[r] \in Users /\ reservedBy[rKey[r]] = None
    BY <1>2 DEF IInv, LocalsAgree, ReserveNew, Critical
  <2>2. token[rKey[r]] = None /\ aws[t] = None /\ t # None
    BY <1>2, <2>1, NoneIsFresh DEF IInv, TablesAgree, ReserveNew
  <2>3. madeFor' = madeFor
    <3>1. \A k \in Keys : token'[k] = IF k = rKey[r] THEN t ELSE token[k]
      BY <1>2 DEF ReserveNew, IInv, TypeOK
    <3>. QED
      BY <1>2, <2>2, <3>1 DEF madeFor, ReserveNew, clouds
  <2>4. Setup!Claim(rKey[r], rUser[r])
    BY <1>2, <2>1, <2>3 DEF Setup!Claim, ReserveNew
  <2>. QED
    BY <2>1, <2>4 DEF Setup!SetupNext
<1>3. ASSUME NEW t \in Tokens, NEW w \in Wids, AwsCreates(t, w)
      PROVE  Setup!SetupNext
  <2>1. PICK k \in Keys : token[k] = t
    BY <1>3 DEF IInv, TablesAgree, AwsCreates
  <2>2. reservedBy[k] # None /\ t # None
    BY <2>1, NoneIsFresh DEF IInv, TablesAgree
  <2>3. \A j \in Keys : token[j] = t => j = k
    BY <2>1, <2>2 DEF IInv, TablesAgree
  <2>4. aws[t] = None /\ \A s \in Tokens : aws[s] # w
    BY <1>3 DEF AwsCreates
  <2>5. \A j \in Keys : token[j] \in Tokens \cup {None}
    BY DEF IInv, TypeOK
  <2>6. \A s \in Tokens : aws'[s] = IF s = t THEN w ELSE aws[s]
    BY <1>3 DEF AwsCreates, IInv, TypeOK
  <2>7. madeFor' = [madeFor EXCEPT ![k] = w]
    BY <1>3, <2>1, <2>2, <2>3, <2>5, <2>6 DEF madeFor, AwsCreates, tables
  <2>8. madeFor[k] = None
    BY <2>1, <2>2, <2>4 DEF madeFor
  <2>9. w # None
    BY NoneIsFresh
  <2>10. \A j \in Keys : madeFor[j] # w
    BY <2>4, <2>5, <2>9 DEF madeFor
  <2>11. Setup!Make(k, w)
    BY <1>3, <2>2, <2>7, <2>8, <2>10 DEF Setup!Make, AwsCreates, tables
  <2>. QED
    BY <2>11 DEF Setup!SetupNext
<1>4. ASSUME NEW r \in Requests, Link(r)
      PROVE  Setup!SetupNext
  <2>1. /\ rKey[r] \in Keys /\ rToken[r] # None /\ rToken[r] = token[rKey[r]]
        /\ rWid[r] # None /\ rWid[r] = aws[rToken[r]]
    BY <1>4 DEF IInv, LocalsAgree, Link, Critical, Bearing
  <2>2. madeFor[rKey[r]] = rWid[r] /\ madeFor' = madeFor
    BY <1>4, <2>1 DEF madeFor, Link, clouds
  <2>3. Setup!Bind(rKey[r])
    BY <1>4, <2>1, <2>2 DEF Setup!Bind, Link
  <2>. QED
    BY <2>1, <2>3 DEF Setup!SetupNext
<1>. QED
  BY <1>1, <1>2, <1>3, <1>4, SetupEffects

\* Whatever is retried, lost or interrupted, a board is claimed once, one
\* device is made for it, and it is bound to that device.
THEOREM Refinement == Spec => ImplementsSetup
<1>1. IInv /\ [Next]_vars => [Setup!SetupNext]_(Setup!setupVars)
  BY SetupStep
<1>. QED
  BY SetupStarts, <1>1, Invariance, PTL
     DEF Spec, ImplementsSetup, Setup!SetupSpec
=============================================================================
