----------------------------- MODULE HostClaims -----------------------------
(***************************************************************************)
(* What the daemon promises about hosts, whatever its handlers interleave: *)
(* a host has at most one owner, named by a claim that is never issued     *)
(* twice; traffic reaches a host only on behalf of its owner; and an owner *)
(* gives the host up only after its route is gone.                         *)
(***************************************************************************)
CONSTANTS Host, Owner, None

VARIABLES
    owner,    \* who owns each host
    visible,  \* on whose behalf each host is served
    used      \* the claims issued so far

vars == <<owner, visible, used>>

Nobody == [h \in Host |-> None]

Init == owner = Nobody /\ visible = Nobody /\ used = {}

Acquire(h) ==
    /\ owner[h] = None
    /\ visible[h] = None
    /\ \E o \in Owner \ used :
        /\ owner' = [owner EXCEPT ![h] = o]
        /\ used' = used \union {o}
    /\ UNCHANGED visible

Show(h) ==
    /\ owner[h] # None
    /\ visible' = [visible EXCEPT ![h] = owner[h]]
    /\ UNCHANGED <<owner, used>>

Hide(h) ==
    /\ visible' = [visible EXCEPT ![h] = None]
    /\ UNCHANGED <<owner, used>>

Drop(h) ==
    /\ visible[h] = None
    /\ owner' = [owner EXCEPT ![h] = None]
    /\ UNCHANGED <<visible, used>>

\* The daemon dies: nobody owns anything, but Caddy serves on.
Forget == owner' = Nobody /\ UNCHANGED <<visible, used>>

\* Bootstrap and Close take every route down.
Sweep == visible' = Nobody /\ UNCHANGED <<owner, used>>

Next ==
    \/ \E h \in Host : Acquire(h) \/ Show(h) \/ Hide(h) \/ Drop(h)
    \/ Forget
    \/ Sweep

Spec == Init /\ [][Next]_vars
=============================================================================
