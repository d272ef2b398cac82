------------------------------ MODULE BoardSetup ------------------------------
(***************************************************************************)
(* What automatic provisioning promises (app.py:573-663), without requests,*)
(* locks or clouds: a connection key is claimed once by one user, one      *)
(* device is ever made for it, and that device is the one the key is bound *)
(* to for good.                                                            *)
(***************************************************************************)
CONSTANTS
    Users,      \* accounts that may claim a board
    Keys,       \* boards, by connection key
    Devices,    \* AWS Sidewalk devices
    None        \* nobody, nothing

VARIABLES
    owner,      \* who claimed a board
    made,       \* the device made for a board
    bound       \* the device a board is bound to

setupVars == <<owner, made, bound>>

SetupInit ==
    /\ owner = [k \in Keys |-> None]
    /\ made = [k \in Keys |-> None]
    /\ bound = [k \in Keys |-> None]

Claim(k, u) ==
    /\ owner[k] = None
    /\ owner' = [owner EXCEPT ![k] = u]
    /\ UNCHANGED <<made, bound>>

Make(k, d) ==
    /\ owner[k] # None
    /\ made[k] = None
    /\ \A j \in Keys : made[j] # d
    /\ made' = [made EXCEPT ![k] = d]
    /\ UNCHANGED <<owner, bound>>

Bind(k) ==
    /\ made[k] # None
    /\ bound' = [bound EXCEPT ![k] = made[k]]
    /\ UNCHANGED <<owner, made>>

SetupNext ==
    \E k \in Keys :
        \/ \E u \in Users : Claim(k, u)
        \/ \E d \in Devices : Make(k, d)
        \/ Bind(k)

SetupSpec == SetupInit /\ [][SetupNext]_setupVars
=============================================================================
