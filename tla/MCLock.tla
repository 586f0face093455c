------------------------------- MODULE MCLock -------------------------------
(***************************************************************************)
(* Instances of LockService: two sessions a and b, one path.               *)
(***************************************************************************)
EXTENDS LockService

CONSTANTS a, b, p1

\* The file exists; and a has acquired it at time 0
Created == <<Op("Create", p1, <<a, 0>>, 1, 0)>>
Held    == Append(Created, Op("Acquire", p1, <<a, 0>>, 2, DefaultLease))

\* What the users call
Users == [s \in Sessions |-> (IF s = a THEN {"Acquire", "Release"} ELSE {"Acquire"}) \X Paths]

\* Session a makes as many user requests as its first ones, b one, and a one
\* of KeepAlive.
Bound(n) == [r \in Requesters |-> IF r = <<a, 0>> THEN n ELSE IF r = <<b, 1>> THEN 0 ELSE 1]
Seq3 == Bound(3)
Seq4 == Bound(4)

\* What is spent at the start
Used(nrestarts, nfails) == [restarts |-> nrestarts, fails |-> nfails]

\* The lease of a ends; or it has ended, and a server is shut down.
Ending == InitIn(StartTime, Used(MaxRestarts, MaxFails))
Ended  == InitIn(MaxTime, Used(0, MaxFails))

LeaseSpec == (Ending \/ Ended) /\ [][Next]_vars

\* A call fails; or a server is shut down.
Failing  == InitIn(StartTime, Used(MaxRestarts, 0))
Shutdown == InitIn(StartTime, Used(0, MaxFails))

FaultSpec == (Failing \/ Shutdown) /\ [][Next]_vars /\ Fairness

\* Directs the search for a counterexample: only server 0, which all calls go
\* to, applies and revokes, the first instance goes to a filler, and b calls
\* at the end.
Scenario ==
    /\ applied[1] = Len(InitLog) /\ \A v \in revokes : v.srv = 0
    /\ chosen[Len(InitLog)] \in {Undecided, Nil}
    /\ call[<<b, 0>>].pc # "idle" => now = MaxTime
=============================================================================
