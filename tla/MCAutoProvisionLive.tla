------------------------- MODULE MCAutoProvisionLive -------------------------
(***************************************************************************)
(* Do retries end?  AutoProvision with at most MaxFaults failures and      *)
(* restarts, and an owner who keeps reconnecting, as the answers ask       *)
(* ("Reconnect to retry", app.py:651, 661).                                *)
(***************************************************************************)
EXTENDS AutoProvision

\* The user who reserved board k posts again, at a moment when no other
\* setup is running.
Retry(k) ==
    /\ lock = None
    /\ reservedBy[k] # None
    /\ \E r \in Requests : Post(r, reservedBy[k], k)

\* The lock goes to one of that user's requests.
OwnerGetsIn(k) ==
    \E r \in Requests : rKey[r] = k /\ rUser[r] = reservedBy[k] /\ Acquire(r)

(***************************************************************************)
(* A thread that can move moves, AWS executes what it was sent and answers *)
(* what it is asked, and, for a board that is reserved, its user keeps     *)
(* retrying, not always while other setups run, and is not turned away     *)
(* with a 409 for ever.  A thread that hangs in _sync_topics() stays there.*)
(***************************************************************************)
LiveSpec ==
    /\ Spec
    /\ \A r \in Requests : WF_vars(ThreadStep(r))
    /\ \A t \in Tokens : WF_vars(\E w \in Wids : AwsCreates(t, w))
    /\ \A k \in Keys : SF_vars(Retry(k)) /\ SF_vars(OwnerGetsIn(k))

\* The user lost the right to provision, or an administrator gave the board's
\* device to somebody else.
OwnerShutOut(k) ==
    \/ reservedBy[k] \notin Admins \cup mayProvision
    \/ /\ madeFor[k] \in records
       /\ ~MayUse(reservedBy[k], madeFor[k])

\* The board's row holds artifacts that are rejected, or none and no profile
\* to fetch them with: app.py:320-324 fails on every retry.
NoCredentials(k) ==
    madeFor[k] \in records \ artifacts /\ (madeFor[k] \in bad \/ madeFor[k] \notin profiled)

\* A thread waits for ever inside the lock: every later request gets a 409.
EndpointHung == \E r \in Requests : pc[r] = "hung"

\* "Retries reuse the same AWS ClientRequestToken" (README): once a board is
\* reserved, retrying ends in a 200 for that board, from whatever state a
\* failure or restart left behind, unless one of four things a retry cannot
\* mend stands in its way: its user has been shut out, its row has no usable
\* credentials, the process runs without Memfault's settings, or a topic
\* synchronisation never returned.
SetupCompletes ==
    \A k \in Keys :
        reservedBy[k] # None ~>
            \/ \E r \in Requests : pc[r] = "ok" /\ rKey[r] = k
            \/ OwnerShutOut(k)
            \/ NoCredentials(k)
            \/ ~memfaultReady
            \/ EndpointHung
=============================================================================
