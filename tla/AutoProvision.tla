---------------------------- MODULE AutoProvision ----------------------------
(***************************************************************************)
(* POST /api/provisioning/automatic (app.py:573-663): a board that reports *)
(* itself unprovisioned is given one AWS Sidewalk device, one local record *)
(* and one Memfault registration, however often the request is retried.    *)
(*                                                                         *)
(* Every request runs in a thread of its own as a sequence of steps, each  *)
(* one database transaction or one call to a cloud service.  Any step may  *)
(* raise; the process may die between any two steps; administrators work   *)
(* on the same tables meanwhile.  The database and the two clouds survive  *)
(* a restart, the threads and the process-wide lock do not.                *)
(*                                                                         *)
(* Abstractions.  A connection key stands for its SHA-256.  A local device *)
(* row is named by its WirelessDeviceId: the column is UNIQUE and rows are *)
(* never deleted, so the two name each other.  A row's certificates are    *)
(* its three artifact columns: absent, good, or rejected when they are     *)
(* decoded (`bad`).  The final _sync_topics() belongs to module TopicSync; *)
(* here it returns, raises, or waits for ever, as that module shows it can.*)
(***************************************************************************)
EXTENDS Naturals, FiniteSets

CONSTANTS
    Customers,      \* accounts with role "customer"
    Admins,         \* accounts with role "admin"
    Keys,           \* connection keys (browser Bluetooth device ids)
    Tokens,         \* ClientRequestTokens uuid4() can return
    Wids,           \* WirelessDeviceIds AWS can assign
    Requests,       \* server threads handling this endpoint
    Environments,   \* what the process may be started with
    MaxLookups,     \* bound on identity lookups that overlap a setup
    MaxFaults,      \* bound on failures and restarts, None if there is none
    None            \* SQL NULL / "no row"

Users == Customers \cup Admins

ASSUME NoneIsFresh ==
    None \notin Users \cup Keys \cup Tokens \cup Wids \cup Requests
ASSUME RolesAreDisjoint == Customers \cap Admins = {}
ASSUME LookupsAreCounted == MaxLookups \in Nat
ASSUME FaultsAreCounted == MaxFaults = None \/ MaxFaults \in Nat

VARIABLES
    mayProvision,   \* users.can_provision: the customers who may provision
    reservedBy,     \* automatic_provisioning.user_id, by connection key
    token,          \* automatic_provisioning.request_token
    linked,         \* automatic_provisioning.device_id
    records,        \* devices: the WirelessDeviceIds that have a local row
    access,         \* device_customer_access
    profiled,       \* rows that have a device_profile_id
    artifacts,      \* rows whose certificate artifacts are stored and good
    bad,            \* rows whose stored artifacts mfg_store_values rejects
    asked,          \* rows read by an identity lookup that waits for AWS
    overwritten,    \* rows that lost their artifacts to such a lookup
    environment,    \* what the environment variables configure
    faults,         \* failures and restarts so far, if they are bounded
    lock,           \* _automatic_provisioning_lock: the thread that holds it
    pc, rUser, rKey, rToken, rWid,  \* each thread's position and locals
    sent,           \* tokens CreateWirelessDevice was ever called with
    aws,            \* the device AWS holds for a ClientRequestToken
    registered      \* devices Memfault knows

certificates == <<artifacts, bad, asked, overwritten>>
tables == <<mayProvision, reservedBy, token, linked, records, access, profiled, certificates>>
outside == <<environment, faults>>
threads == <<lock, pc, rUser, rKey, rToken, rWid>>
clouds == <<sent, aws, registered>>
vars == <<tables, outside, threads, clouds>>

(***************************************************************************)
(* Where a thread stands.  The names after "lock" are the steps it takes   *)
(* while it holds _automatic_provisioning_lock.  A request that was refused *)
(* or failed (4xx, 5xx) leaves its thread "idle": what it did is in the    *)
(* tables; one that got a 200 stays at "ok".                               *)
(***************************************************************************)
Resting == {"idle", "ok"}
Critical == {"reserve", "checkLinked", "create", "await", "lookup",
             "checkFound", "insert", "link", "artifacts", "validate",
             "memfault", "sync", "hung"}
Steps == Resting \cup {"lock"} \cup Critical

\* Memfault needs its API credentials and a hardware version
\* (memfault.py:110-124); a new reservation needs AWS's values besides
\* (app.py:603-606).
ASSUME SettingsAreKnown == Environments \subseteq {"none", "memfault", "all"}
configured == environment = "all"
memfaultReady == environment # "none"

TypeOK ==
    /\ mayProvision \subseteq Customers
    /\ reservedBy \in [Keys -> Users \cup {None}]
    /\ token \in [Keys -> Tokens \cup {None}]
    /\ linked \in [Keys -> Wids \cup {None}]
    /\ records \subseteq Wids
    /\ access \in [Wids -> SUBSET Customers]
    /\ profiled \subseteq Wids
    /\ artifacts \subseteq Wids
    /\ bad \subseteq Wids
    /\ asked \subseteq Wids
    /\ overwritten \subseteq Wids
    /\ environment \in Environments
    /\ faults \in Nat
    /\ lock \in Requests \cup {None}
    /\ pc \in [Requests -> Steps]
    /\ rUser \in [Requests -> Users \cup {None}]
    /\ rKey \in [Requests -> Keys \cup {None}]
    /\ rToken \in [Requests -> Tokens \cup {None}]
    /\ rWid \in [Requests -> Wids \cup {None}]
    /\ sent \subseteq Tokens
    /\ aws \in [Tokens -> Wids \cup {None}]
    /\ registered \subseteq Wids

Init ==
    /\ mayProvision = Customers
    /\ reservedBy = [k \in Keys |-> None]
    /\ token = [k \in Keys |-> None]
    /\ linked = [k \in Keys |-> None]
    /\ records = {}
    /\ access = [w \in Wids |-> {}]
    /\ profiled = {}
    /\ artifacts = {}
    /\ bad = {}
    /\ asked = {}
    /\ overwritten = {}
    /\ environment \in Environments
    /\ faults = 0
    /\ lock = None
    /\ pc = [r \in Requests |-> "idle"]
    /\ rUser = [r \in Requests |-> None]
    /\ rKey = [r \in Requests |-> None]
    /\ rToken = [r \in Requests |-> None]
    /\ rWid = [r \in Requests |-> None]
    /\ sent = {}
    /\ aws = [t \in Tokens |-> None]
    /\ registered = {}

-----------------------------------------------------------------------------
\* get_device_for_user: administrators see every row, customers their own.
MayUse(u, w) == w \in records /\ (u \in Admins \/ u \in access[w])

\* A step that fails, or a restart.
Fault ==
    /\ MaxFaults # None => faults < MaxFaults
    /\ faults' = IF MaxFaults = None THEN faults ELSE faults + 1

Goto(r, step) == pc' = [pc EXCEPT ![r] = step]

\* The `finally` clause together with the response it lets go: the lock is
\* released and the thread's locals are gone.  A 200 keeps what it answered.
Answer(r, a) ==
    /\ lock' = None
    /\ Goto(r, a)
    /\ rToken' = [rToken EXCEPT ![r] = None]
    /\ IF a = "ok"
       THEN UNCHANGED <<rUser, rKey, rWid>>
       ELSE /\ rUser' = [rUser EXCEPT ![r] = None]
            /\ rKey' = [rKey EXCEPT ![r] = None]
            /\ rWid' = [rWid EXCEPT ![r] = None]

\* Refusals that come before the lock is taken (582-590): the permission bit
\* and the JSON body, `unprovisioned is True` among its conditions.
Post(r, u, k) ==
    /\ pc[r] \in Resting
    /\ u \in Admins \cup mayProvision
    /\ Goto(r, "lock")
    /\ rUser' = [rUser EXCEPT ![r] = u]
    /\ rKey' = [rKey EXCEPT ![r] = k]
    /\ rToken' = [rToken EXCEPT ![r] = None]
    /\ rWid' = [rWid EXCEPT ![r] = None]
    /\ UNCHANGED <<tables, outside, lock, clouds>>

PostRefused(r, u, bodyOk) ==
    /\ pc[r] \in Resting
    /\ u \notin Admins \cup mayProvision \/ ~bodyOk
    /\ Goto(r, "idle")
    /\ rUser' = [rUser EXCEPT ![r] = None]
    /\ rKey' = [rKey EXCEPT ![r] = None]
    /\ rToken' = [rToken EXCEPT ![r] = None]
    /\ rWid' = [rWid EXCEPT ![r] = None]
    /\ UNCHANGED <<tables, outside, lock, clouds>>

\* lock.acquire(timeout=1): taken when free ...
Acquire_IgnoresLock(r) ==
    /\ pc[r] = "lock"
    /\ lock' = r
    /\ Goto(r, "reserve")
    /\ UNCHANGED <<tables, outside, rUser, rKey, rToken, rWid, clouds>>

Acquire(r) ==
    /\ pc[r] = "lock"
    /\ lock = None
    /\ lock' = r
    /\ Goto(r, "reserve")
    /\ UNCHANGED <<tables, outside, rUser, rKey, rToken, rWid, clouds>>

\* ... and given up with a 409 when another thread keeps it for a second.
AcquireTimeout(r) ==
    /\ pc[r] = "lock"
    /\ lock # None
    /\ Goto(r, "idle")
    /\ rUser' = [rUser EXCEPT ![r] = None]
    /\ rKey' = [rKey EXCEPT ![r] = None]
    /\ UNCHANGED <<tables, outside, lock, rToken, rWid, clouds>>

(***************************************************************************)
(* The first transaction (594-618): read the reservation of this key, or   *)
(* insert one with a fresh token.  It commits before any call to AWS.      *)
(***************************************************************************)
ReserveForeign(r) ==
    /\ pc[r] = "reserve"
    /\ reservedBy[rKey[r]] \notin {None, rUser[r]}
    /\ Answer(r, "idle")
    /\ UNCHANGED <<tables, outside, clouds>>

ReserveUnconfigured(r) ==
    /\ pc[r] = "reserve"
    /\ reservedBy[rKey[r]] = None
    /\ ~configured
    /\ Answer(r, "idle")
    /\ UNCHANGED <<tables, outside, clouds>>

\* Mutant: the token is only kept in memory until the device exists.
ReserveNew_NotSaved(r, t) ==
    /\ pc[r] = "reserve"
    /\ reservedBy[rKey[r]] = None
    /\ configured
    /\ t \notin sent
    /\ rToken' = [rToken EXCEPT ![r] = t]
    /\ Goto(r, "create")
    /\ UNCHANGED <<tables, outside, lock, rUser, rKey, rWid, clouds>>

\* Mutant: the token is not drawn afresh for a new board.
ReserveNew_SharedToken(r, t) ==
    /\ pc[r] = "reserve"
    /\ reservedBy[rKey[r]] = None
    /\ configured
    /\ reservedBy' = [reservedBy EXCEPT ![rKey[r]] = rUser[r]]
    /\ token' = [token EXCEPT ![rKey[r]] = t]
    /\ rToken' = [rToken EXCEPT ![r] = t]
    /\ Goto(r, "create")
    /\ UNCHANGED <<mayProvision, linked, records, access, profiled,
                   certificates, outside, lock, rUser, rKey, rWid, clouds>>

ReserveNew(r, t) ==
    /\ pc[r] = "reserve"
    /\ reservedBy[rKey[r]] = None
    /\ configured
    /\ \A k \in Keys : token[k] # t          \* uuid4() does not repeat
    /\ reservedBy' = [reservedBy EXCEPT ![rKey[r]] = rUser[r]]
    /\ token' = [token EXCEPT ![rKey[r]] = t]
    /\ rToken' = [rToken EXCEPT ![r] = t]
    /\ Goto(r, "create")
    /\ UNCHANGED <<mayProvision, linked, records, access, profiled,
                   certificates, outside, lock, rUser, rKey, rWid, clouds>>

\* Mutant: the row belongs to whoever asks last.
ReserveAgain_AnyUser(r) ==
    /\ pc[r] = "reserve"
    /\ reservedBy[rKey[r]] # None
    /\ reservedBy' = [reservedBy EXCEPT ![rKey[r]] = rUser[r]]
    /\ rToken' = [rToken EXCEPT ![r] = token[rKey[r]]]
    /\ rWid' = [rWid EXCEPT ![r] = linked[rKey[r]]]
    /\ Goto(r, IF linked[rKey[r]] # None THEN "checkLinked" ELSE "create")
    /\ UNCHANGED <<mayProvision, token, linked, records, access, profiled,
                   certificates, outside, lock, rUser, rKey, clouds>>

\* Mutant: a retry draws a token of its own.
ReserveAgain_NewToken(r) ==
    /\ pc[r] = "reserve"
    /\ reservedBy[rKey[r]] = rUser[r]
    /\ \E t \in Tokens :
          /\ t \notin sent
          /\ token' = [token EXCEPT ![rKey[r]] = t]
          /\ rToken' = [rToken EXCEPT ![r] = t]
    /\ rWid' = [rWid EXCEPT ![r] = linked[rKey[r]]]
    /\ Goto(r, IF linked[rKey[r]] # None THEN "checkLinked" ELSE "create")
    /\ UNCHANGED <<mayProvision, reservedBy, linked, records, access, profiled,
                   certificates, outside, lock, rUser, rKey, clouds>>

ReserveAgain(r) ==
    /\ pc[r] = "reserve"
    /\ reservedBy[rKey[r]] = rUser[r]
    /\ rToken' = [rToken EXCEPT ![r] = token[rKey[r]]]
    /\ rWid' = [rWid EXCEPT ![r] = linked[rKey[r]]]
    /\ Goto(r, IF linked[rKey[r]] # None THEN "checkLinked" ELSE "create")
    /\ UNCHANGED <<tables, outside, lock, rUser, rKey, clouds>>

\* 620-623: an earlier attempt recorded the device; is it still this user's?
CheckLinked(r) ==
    /\ pc[r] = "checkLinked"
    /\ IF MayUse(rUser[r], rWid[r])
       THEN Goto(r, "artifacts") /\ UNCHANGED <<lock, rUser, rKey, rToken, rWid>>
       ELSE Answer(r, "idle")
    /\ UNCHANGED <<tables, outside, clouds>>

\* 627: the call leaves with the saved parameters and token ...
CallAws(r) ==
    /\ pc[r] = "create"
    /\ sent' = sent \cup {rToken[r]}
    /\ Goto(r, "await")
    /\ UNCHANGED <<tables, outside, lock, rUser, rKey, rToken, rWid, aws, registered>>

\* ... AWS executes a call it was sent once per ClientRequestToken, possibly
\* after the caller stopped waiting for it ...
AwsCreates(t, w) ==
    /\ t \in sent
    /\ aws[t] = None
    /\ \A s \in Tokens : aws[s] # w
    /\ aws' = [aws EXCEPT ![t] = w]
    /\ UNCHANGED <<tables, outside, threads, sent, registered>>

\* Mutant: the answer is used without waiting for an Id in it.
AwsAnswers_NoId(r) ==
    /\ pc[r] = "await"
    /\ rWid' = [rWid EXCEPT ![r] = aws[rToken[r]]]
    /\ Goto(r, "lookup")
    /\ UNCHANGED <<tables, outside, lock, rUser, rKey, rToken, clouds>>

\* ... and the response names the device of that token.
AwsAnswers(r) ==
    /\ pc[r] = "await"
    /\ aws[rToken[r]] # None
    /\ rWid' = [rWid EXCEPT ![r] = aws[rToken[r]]]
    /\ Goto(r, "lookup")
    /\ UNCHANGED <<tables, outside, lock, rUser, rKey, rToken, clouds>>

\* Mutant: no row is looked for after a crash.
Lookup_AlwaysInserts(r) ==
    /\ pc[r] = "lookup"
    /\ Goto(r, "insert")
    /\ UNCHANGED <<tables, outside, lock, rUser, rKey, rToken, rWid, clouds>>

\* 630: a local row for that device may exist already.
Lookup(r) ==
    /\ pc[r] = "lookup"
    /\ Goto(r, IF rWid[r] \in records THEN "checkFound" ELSE "insert")
    /\ UNCHANGED <<tables, outside, lock, rUser, rKey, rToken, rWid, clouds>>

\* Mutant: the row found is handed to the requesting customer.
CheckFound_TakesOver(r) ==
    /\ pc[r] = "checkFound"
    /\ access' = [access EXCEPT ![rWid[r]] = @ \cup ({rUser[r]} \cap Customers)]
    /\ Goto(r, "link")
    /\ UNCHANGED <<mayProvision, reservedBy, token, linked, records, profiled,
                   certificates, outside, lock, rUser, rKey, rToken, rWid, clouds>>

\* 631-633: it is reused only if this user may use it.
CheckFound(r) ==
    /\ pc[r] = "checkFound"
    /\ IF MayUse(rUser[r], rWid[r])
       THEN Goto(r, "link") /\ UNCHANGED <<lock, rUser, rKey, rToken, rWid>>
       ELSE Answer(r, "idle")
    /\ UNCHANGED <<tables, outside, clouds>>

\* 635-641, create_device_record: the row and, for a customer, its access row
\* in one transaction.  The UNIQUE column rejects a second row.
InsertRecord(r) ==
    /\ pc[r] = "insert"
    /\ rWid[r] \notin records
    /\ records' = records \cup {rWid[r]}
    /\ access' = [access EXCEPT ![rWid[r]] = {rUser[r]} \cap Customers]
    /\ profiled' = profiled \cup {rWid[r]}
    /\ Goto(r, "link")
    /\ UNCHANGED <<mayProvision, reservedBy, token, linked, certificates,
                   outside, lock, rUser, rKey, rToken, rWid, clouds>>

InsertConflict(r) ==
    /\ pc[r] = "insert"
    /\ rWid[r] \in records
    /\ Answer(r, "idle")
    /\ UNCHANGED <<tables, outside, clouds>>

\* 642-644: the reservation remembers the device.
Link(r) ==
    /\ pc[r] = "link"
    /\ linked' = [linked EXCEPT ![rKey[r]] = rWid[r]]
    /\ Goto(r, "artifacts")
    /\ UNCHANGED <<mayProvision, reservedBy, token, records, access, profiled,
                   certificates, outside, lock, rUser, rKey, rToken, rWid, clouds>>

\* Mutant: the certificates are only fetched when a script is asked for.
LoadArtifacts_Skipped(r) ==
    /\ pc[r] = "artifacts"
    /\ Goto(r, "memfault")
    /\ UNCHANGED <<tables, outside, lock, rUser, rKey, rToken, rWid, clouds>>

\* What _load_or_refresh_artifacts leaves in row w (315-336): what is cached
\* stays, good or bad; what is not is fetched with the row's profile.
LoadInto(w) ==
    \/ /\ w \in artifacts \cup bad
       /\ UNCHANGED certificates
    \/ /\ w \in profiled \ (artifacts \cup bad)
       /\ \/ artifacts' = artifacts \cup {w} /\ UNCHANGED bad
          \/ bad' = bad \cup {w} /\ UNCHANGED artifacts
       /\ UNCHANGED <<asked, overwritten>>

\* 645: cached, or fetched from AWS and stored.
LoadArtifacts(r) ==
    /\ pc[r] = "artifacts"
    /\ LoadInto(rWid[r])
    /\ Goto(r, "validate")
    /\ UNCHANGED <<mayProvision, reservedBy, token, linked, records, access,
                   profiled, outside, lock, rUser, rKey, rToken, rWid, clouds>>

\* 323-324: a row without a profile has nothing to be fetched with, now and
\* on every retry.
NoProfile(r) ==
    /\ pc[r] = "artifacts"
    /\ rWid[r] \notin profiled \cup artifacts \cup bad
    /\ Answer(r, "idle")
    /\ UNCHANGED <<tables, outside, clouds>>

\* 646-648: the row is read again and its certificates decoded; rejected
\* ones stay cached.
Validate(r) ==
    /\ pc[r] = "validate"
    /\ IF rWid[r] \in artifacts
       THEN Goto(r, "memfault") /\ UNCHANGED <<lock, rUser, rKey, rToken, rWid>>
       ELSE Answer(r, "idle")
    /\ UNCHANGED <<tables, outside, clouds>>

\* 649: registered in Memfault; a 409 (registered before) is success too.
RegisterMemfault(r) ==
    /\ pc[r] = "memfault"
    /\ memfaultReady
    /\ registered' = registered \cup {rWid[r]}
    /\ Goto(r, "sync")
    /\ UNCHANGED <<tables, outside, lock, rUser, rKey, rToken, rWid, sent, aws>>

\* memfault.py:110-124: ensure_device asks nobody and reports the failure.
MemfaultUnconfigured(r) ==
    /\ pc[r] = "memfault"
    /\ ~memfaultReady
    /\ Answer(r, "idle")
    /\ UNCHANGED <<tables, outside, clouds>>

\* The registration arrived but its response did not: a 502 (650-651).
MemfaultResponseLost(r) ==
    /\ pc[r] = "memfault"
    /\ memfaultReady
    /\ Fault
    /\ registered' = registered \cup {rWid[r]}
    /\ Answer(r, "idle")
    /\ UNCHANGED <<tables, environment, sent, aws>>

\* 652-658: topics synced, 200.
Succeed(r) ==
    /\ pc[r] = "sync"
    /\ Answer(r, "ok")
    /\ UNCHANGED <<tables, outside, clouds>>

\* iot.py:650 waits for a SUBACK without a timeout: the thread may stay in
\* _sync_topics(), and the lock with it, until the process ends.
SyncHangs(r) ==
    /\ pc[r] = "sync"
    /\ Fault
    /\ Goto(r, "hung")
    /\ UNCHANGED <<tables, environment, lock, rUser, rKey, rToken, rWid, clouds>>

\* 650-651 and 659-661: any other step under the lock may fail.
Interrupted(r) ==
    /\ pc[r] \in Critical \ {"hung"}
    /\ Fault
    /\ Answer(r, "idle")
    /\ UNCHANGED <<tables, environment, clouds>>

-----------------------------------------------------------------------------
(***************************************************************************)
(* What happens around the endpoint.                                       *)
(***************************************************************************)

\* POST /admin/customers/<id>/permissions.
SetPermission(c, allowed) ==
    /\ mayProvision' = IF allowed THEN mayProvision \cup {c} ELSE mayProvision \ {c}
    /\ UNCHANGED <<reservedBy, token, linked, records, access, profiled,
                   certificates, outside, threads, clouds>>

\* POST /admin/devices/<id>/assign: the customers of a row are replaced.
AssignDevice(w, cs) ==
    /\ w \in records
    /\ access' = [access EXCEPT ![w] = cs]
    /\ UNCHANGED <<mayProvision, reservedBy, token, linked, records, profiled,
                   certificates, outside, threads, clouds>>

\* What an import can leave in a row: nothing, a profile, or artifacts too.
Imports == {"bare", "profile only", "good", "bad"}

\* POST /admin/devices/import: a row for a device AWS already holds, for at
\* most one customer.  The profile is optional; the artifacts are fetched
\* with it, and like the registration in Memfault they are best effort.
ImportDevice(w, cs, row, known) ==
    /\ w \notin records
    /\ \E t \in Tokens : aws[t] = w
    /\ records' = records \cup {w}
    /\ access' = [access EXCEPT ![w] = cs]
    /\ profiled' = IF row # "bare" THEN profiled \cup {w} ELSE profiled
    /\ artifacts' = IF row = "good" THEN artifacts \cup {w} ELSE artifacts
    /\ bad' = IF row = "bad" THEN bad \cup {w} ELSE bad
    /\ registered' = IF known /\ memfaultReady THEN registered \cup {w} ELSE registered
    /\ UNCHANGED <<mayProvision, reservedBy, token, linked, asked, overwritten,
                   outside, threads, sent, aws>>

\* Every other endpoint that needs a row's artifacts loads them the same way
\* (firmware images, provisioning scripts, the administrator's refresh).
LoadElsewhere(w) ==
    /\ w \in records
    /\ LoadInto(w)
    /\ UNCHANGED <<mayProvision, reservedBy, token, linked, records, access,
                   profiled, outside, threads, clouds>>

\* POST /admin/devices/<id>/certificate-json: artifacts that passed validation.
UploadCertificate(w) ==
    /\ w \in records
    /\ artifacts' = artifacts \cup {w}
    /\ bad' = bad \ {w}
    /\ UNCHANGED <<mayProvision, reservedBy, token, linked, records, access, profiled,
                   asked, overwritten, outside, threads, clouds>>

\* GET /api/device-identity reads a row that shows no SMSN, asks AWS for the
\* wireless device ...
LookupBegins(w) ==
    /\ w \in records \ (artifacts \cup bad \cup overwritten)
    /\ Cardinality(asked \cup overwritten) < MaxLookups
    /\ asked' = asked \cup {w}
    /\ UNCHANGED <<mayProvision, reservedBy, token, linked, records, access, profiled,
                   artifacts, bad, overwritten, outside, threads, clouds>>

\* ... and writes the answer back together with the other two columns as it
\* had read them: artifacts stored meanwhile are lost.
LookupEnds(w) ==
    /\ w \in asked
    /\ asked' = asked \ {w}
    /\ overwritten' = overwritten \cup ({w} \cap (artifacts \cup bad))
    /\ artifacts' = artifacts \ {w}
    /\ bad' = bad \ {w}
    /\ UNCHANGED <<mayProvision, reservedBy, token, linked, records, access, profiled,
                   outside, threads, clouds>>

\* The process dies and starts again, perhaps with another environment: the
\* threads and the lock are gone, the tables and the clouds are not.
Restart ==
    /\ Fault
    /\ environment' \in Environments
    /\ asked' = {}
    /\ lock' = None
    /\ pc' = [r \in Requests |-> "idle"]
    /\ rUser' = [r \in Requests |-> None]
    /\ rKey' = [r \in Requests |-> None]
    /\ rToken' = [r \in Requests |-> None]
    /\ rWid' = [r \in Requests |-> None]
    /\ UNCHANGED <<mayProvision, reservedBy, token, linked, records, access, profiled,
                   artifacts, bad, overwritten, clouds>>

-----------------------------------------------------------------------------
ReserveStep(r) ==
    \/ ReserveForeign(r)
    \/ ReserveUnconfigured(r)
    \/ \E t \in Tokens : ReserveNew(r, t)
    \/ ReserveAgain(r)

DeviceStep(r) ==
    \/ CheckLinked(r)
    \/ CallAws(r)
    \/ AwsAnswers(r)
    \/ Lookup(r)
    \/ CheckFound(r)
    \/ InsertRecord(r)
    \/ InsertConflict(r)
    \/ Link(r)

FinishStep(r) ==
    \/ LoadArtifacts(r)
    \/ NoProfile(r)
    \/ Validate(r)
    \/ RegisterMemfault(r)
    \/ MemfaultUnconfigured(r)
    \/ Succeed(r)

Mishap(r) ==
    \/ MemfaultResponseLost(r)
    \/ SyncHangs(r)
    \/ Interrupted(r)

ThreadStep(r) ==
    \/ Acquire(r)
    \/ AcquireTimeout(r)
    \/ ReserveStep(r)
    \/ DeviceStep(r)
    \/ FinishStep(r)

AdminStep ==
    \/ \E c \in Customers, allowed \in BOOLEAN : SetPermission(c, allowed)
    \/ \E w \in Wids, cs \in SUBSET Customers : AssignDevice(w, cs)
    \/ \E w \in Wids, cs \in {{}} \cup {{c} : c \in Customers},
          row \in Imports, known \in BOOLEAN :
            ImportDevice(w, cs, row, known)
    \/ \E w \in Wids : LoadElsewhere(w) \/ UploadCertificate(w)
    \/ \E w \in Wids : LookupBegins(w) \/ LookupEnds(w)

Next ==
    \/ \E r \in Requests, u \in Users, k \in Keys : Post(r, u, k)
    \/ \E r \in Requests, u \in Users, ok \in BOOLEAN : PostRefused(r, u, ok)
    \/ \E r \in Requests : ThreadStep(r) \/ Mishap(r)
    \/ \E t \in Tokens, w \in Wids : AwsCreates(t, w)
    \/ AdminStep
    \/ Restart

Spec == Init /\ [][Next]_vars

-----------------------------------------------------------------------------
(***************************************************************************)
(* Safety.                                                                 *)
(***************************************************************************)

\* Two requests never work on the tables at the same time: whoever stands
\* between acquire and release is the one the lock names.
OneAtATime ==
    /\ \A r \in Requests : pc[r] \in Critical => lock = r
    /\ lock # None => pc[lock] \in Critical

\* app.py:573-574: every token AWS was ever asked with is saved in a
\* reservation, and every device AWS made was asked for with such a token, so
\* no failure, lost answer or restart can leave an AWS device behind that a
\* retry of its key would not find.
NoStrayAwsDevice ==
    \A t \in Tokens :
        t \in sent \/ aws[t] # None => \E k \in Keys : token[k] = t

\* A reservation that names a device names the one AWS made for its own
\* token, that device has a local row, and no other key names it.
LinkIsOwnDevice ==
    \A k \in Keys : linked[k] # None =>
        /\ token[k] # None
        /\ aws[token[k]] = linked[k]
        /\ linked[k] \in records
        /\ \A j \in Keys : linked[j] = linked[k] => j = k

\* AWS is not asked to create a device for a board that has one: while a
\* request stands at the call, its reservation still names no device.
NoCallForLinkedBoard ==
    \A r \in Requests : pc[r] \in {"create", "await"} => linked[rKey[r]] = None

\* What a 200 promises: the device answered is the one reserved for this key,
\* for this user, Memfault knows it and its certificates are stored, unless
\* an identity lookup that had read the row before wrote it back (app.py:543).
OkMeansComplete ==
    \A r \in Requests : pc[r] = "ok" =>
        /\ reservedBy[rKey[r]] = rUser[r]
        /\ linked[rKey[r]] = rWid[r]
        /\ rWid[r] \in registered
        /\ rWid[r] \in artifacts \cup overwritten

\* A reservation keeps its user, its token and, once set, its device.
ReservationIsKept ==
    [][\A k \in Keys :
        /\ reservedBy[k] # None =>
              reservedBy'[k] = reservedBy[k] /\ token'[k] = token[k]
        /\ linked[k] # None => linked'[k] = linked[k]]_vars

\* app.py:628-629: automatic setup never changes who may use an existing row;
\* only an administrator's assignment does.
OwnershipNotTransferred ==
    [][\A w \in records :
        access'[w] # access[w] => \E cs \in SUBSET Customers : AssignDevice(w, cs)]_vars

-----------------------------------------------------------------------------
(***************************************************************************)
(* The inductive invariant behind the theorems of AutoProvisionProofs.     *)
(***************************************************************************)
Bearing == {"create", "await", "lookup", "checkFound", "insert", "link"}
Linked == {"checkLinked", "artifacts", "validate", "memfault", "sync", "hung", "ok"}

\* What the rows and the clouds hold, whoever is running.
TablesAgree ==
    /\ \A k \in Keys : reservedBy[k] = None <=> token[k] = None
    /\ \A j, k \in Keys : token[j] = token[k] /\ token[j] # None => j = k
    /\ \A t \in sent : \E k \in Keys : token[k] = t
    /\ \A t \in Tokens : aws[t] # None => t \in sent
    /\ \A s, t \in Tokens : aws[s] = aws[t] /\ aws[s] # None => s = t
    /\ \A k \in Keys : linked[k] # None =>
          token[k] # None /\ aws[token[k]] = linked[k] /\ linked[k] \in records

\* What a thread's locals are worth at each step.
LocalsAgree ==
    \A r \in Requests :
        /\ pc[r] \in Critical \cup {"lock", "ok"} => rUser[r] \in Users /\ rKey[r] \in Keys
        /\ pc[r] \in Bearing \cup Linked => reservedBy[rKey[r]] = rUser[r]
        /\ pc[r] \in Bearing =>
              rToken[r] # None /\ rToken[r] = token[rKey[r]] /\ linked[rKey[r]] = None
        /\ pc[r] \in Bearing \ {"create"} => rToken[r] \in sent
        /\ pc[r] \in Bearing \ {"create", "await"} =>
              rWid[r] # None /\ rWid[r] = aws[rToken[r]]
        /\ pc[r] \in {"checkFound", "link"} => rWid[r] \in records
        /\ pc[r] \in Linked => rWid[r] # None /\ rWid[r] = linked[rKey[r]]
        /\ pc[r] \in {"memfault", "sync", "hung", "ok"} =>
              rWid[r] \in artifacts \cup overwritten
        /\ pc[r] \in {"sync", "hung", "ok"} => rWid[r] \in registered

IInv == TypeOK /\ OneAtATime /\ TablesAgree /\ LocalsAgree

-----------------------------------------------------------------------------
(***************************************************************************)
(* The endpoint implements BoardSetup: a board's device is the one AWS     *)
(* holds for its reservation's token.                                      *)
(***************************************************************************)
madeFor == [k \in Keys |-> IF token[k] = None THEN None ELSE aws[token[k]]]

Setup == INSTANCE BoardSetup WITH
    Devices <- Wids, owner <- reservedBy, made <- madeFor, bound <- linked

\* Every behaviour of the endpoint is one of BoardSetup: whatever is retried,
\* lost or interrupted, a board is claimed once, made once and bound once.
ImplementsSetup == Setup!SetupSpec

=============================================================================
