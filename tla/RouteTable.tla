----------------------------- MODULE RouteTable -----------------------------
(***************************************************************************)
(* What the route runtime promises its callers: one table, host by host,   *)
(* where a Publish or an Unpublish takes effect at one instant or not at   *)
(* all, and never touches another host.  Nothing of it outlives the        *)
(* daemon's process.                                                       *)
(***************************************************************************)
CONSTANTS Host, Publication, None

VARIABLE table

Empty == [h \in Host |-> None]

Init == table = Empty

Put(h, p) == p.host = h /\ table' = [table EXCEPT ![h] = p]

Remove(h) == table' = [table EXCEPT ![h] = None]

Forget == table' = Empty

Next ==
    \/ \E h \in Host, p \in Publication : Put(h, p)
    \/ \E h \in Host : Remove(h)
    \/ Forget

Spec == Init /\ [][Next]_table
=============================================================================
