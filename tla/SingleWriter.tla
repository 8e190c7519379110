---------------------------- MODULE SingleWriter ----------------------------
(***************************************************************************)
(* What scheduler leadership promises to the writers behind it, without    *)
(* saying how: at any time at most one database session may write, and     *)
(* the one that writes is the one that holds leadership at that moment.    *)
(* LeaderElection implements this specification.                           *)
(***************************************************************************)
CONSTANTS Sessions, Nobody

VARIABLES
    holder,    \* the session that holds leadership, or Nobody
    written    \* the session of the last durable write, or Nobody

Init == holder = Nobody /\ written = Nobody

\* Leadership passes to a session only from nobody.
Take(s) ==
    /\ holder = Nobody
    /\ holder' = s
    /\ UNCHANGED written

\* Leadership ends: by a release, or with the session.
Drop ==
    /\ holder # Nobody
    /\ holder' = Nobody
    /\ UNCHANGED written

\* Only the holder writes.
Write(s) ==
    /\ holder = s
    /\ written' = s
    /\ UNCHANGED holder

Next == Drop \/ \E s \in Sessions : Take(s) \/ Write(s)

Spec == Init /\ [][Next]_<<holder, written>>
=============================================================================
