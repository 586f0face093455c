----------------------------- MODULE MCRaftLock -----------------------------
(***************************************************************************)
(* An instance of RaftService: three sessions, two paths, two servers, and *)
(* several states to start from.  In each of them some sessions are closed *)
(* and some bounds are spent, so that the state spaces add up instead of   *)
(* multiplying.                                                            *)
(***************************************************************************)
EXTENDS RaftService

CONSTANTS a, b, d, p1, p2

\* What the users call
Users == [s \in Sessions |->
             (IF s = a THEN {"Acquire", "Release"}
              ELSE IF s = b THEN {"Acquire"} ELSE {"Create", "Remove"}) \X {p1}]

\* From there on there are no new requests; only a extends its lease.
Seqs == [r \in Requesters |-> IF r \in {<<a, 0>>, <<d, 0>>} THEN 3
                              ELSE IF r \in {<<b, 1>>, <<d, 1>>} THEN 0 ELSE 1]

\* What has happened to p1: s created it; s also removed it, or acquired it; a
\* third request of s found it busy.  And d acquired it and another one.
Created(s)     == <<Op("Create", p1, <<s, 0>>, 1, 0)>>
Removed(s)     == Append(Created(s), Op("Remove", p1, <<s, 0>>, 2, 0))
Held(s, lease) == Append(Created(s), Op("Acquire", p1, <<s, 0>>, 2, lease))
Kept(s, lease) == Append(Held(s, lease), Op("Remove", p1, <<s, 0>>, 3, 0))
Both(lease)    == Created(a) \o <<Op("Create", p2, <<d, 0>>, 1, 0), Op("Acquire", p1, <<d, 0>>, 2, lease),
                                  Op("Acquire", p2, <<d, 0>>, 3, lease)>>

\* What is spent at the start.  Clock and terms are spent when they start at
\* MaxTime and at MaxTerm.
Used(nstarts, nrestarts, nfails) == [starts |-> nstarts, restarts |-> nrestarts, fails |-> nfails]

\* The lease of a ends while a and b call.
Ending  == InitIn(MaxTerm, Held(a, DefaultLease), {d}, StartTime, Used(1, MaxRestarts, MaxFails))

\* It has ended, and a revocation races with an Extend and b's Acquire.
Ended   == InitIn(MaxTerm, Kept(a, DefaultLease), {d}, MaxTime, Used(0, MaxRestarts, MaxFails))

\* a is closed, its Release was lost, and the leaders revoke the lock.
Revoking == InitIn(1, Kept(a, DefaultLease), Sessions, MaxTime, Used(0, MaxRestarts, MaxFails))

\* It has ended, and the leader changes: revocations of the old leader and of a
\* new one whose table may lag behind race with an Extend.
Deposed == InitIn(1, Kept(a, DefaultLease), {b, d}, MaxTime, Used(0, MaxRestarts, MaxFails))

\* The leader changes while a releases its lock and KeepAlive extends it.
Changes == InitIn(1, Held(a, MaxTime + 1), {b, d}, MaxTime, Used(1, MaxRestarts, MaxFails))

\* The leader is shut down while d makes a request.
Shutdown == InitIn(1, Removed(d), {a, b}, MaxTime, Used(1, 0, MaxFails))

\* d, which holds two locks, is closed; a call fails and the leader changes.
Closing == InitIn(1, Both(MaxTime + 1), {a, b}, MaxTime, Used(1, MaxRestarts, 0))

MCSpec ==
    /\ Ending \/ Ended \/ Revoking \/ Deposed \/ Changes \/ Shutdown \/ Closing
    /\ [][Next]_vars /\ Fairness
=============================================================================
