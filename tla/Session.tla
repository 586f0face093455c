------------------------------- MODULE Session -------------------------------
(***************************************************************************)
(* A client session, src/src/session: the user's calls Create, Remove,     *)
(* Acquire, Release, IsHolding and Close on requester 0, and the KeepAlive *)
(* goroutine on requester 1.  Both make their requests with Request, which *)
(* tries one server after another.                                         *)
(***************************************************************************)
EXTENDS LockCalls

CONSTANTS
    UserOps,        \* UserOps[s]: the pairs <<code, path>> of calls the user of session s makes
    Closers,        \* the sessions that are closed
    Refresh,        \* sess.refresh: how long before the end of a lease it is extended
    NoLease         \* alive has no entry for the path

ASSUME RefreshType == Refresh \in Nat

VARIABLES
    alive,          \* alive[s][p]: end of the lease that s believes it has on p
    leader,         \* leader[s]: the server s calls, modulo their number
    closed,         \* closed[s]: Close was called
    keep            \* keep[s]: the KeepAlive goroutine of s

sessVars == <<alive, leader, closed, keep>>

\* sleep between ticks; extend and release: todo are the paths not yet done;
\* release holds sess.mu
Keepers == [pc : {"sleep", "extend", "release", "stopped"}, todo : SUBSET Paths]

MuFree(s) == keep[s].pc # "release"

Alive(s) == {p \in Paths : alive[s][p] # NoLease}

(***************************************************************************)
(* Request                                                                 *)
(***************************************************************************)

\* The first lines of Request: a new sequence number, the current server
Requested(c, s, code, p) ==
    [pc |-> "request", srv |-> leader[s], code |-> code, path |-> p,
     seq |-> c.seq + 1, retry |-> NServers, reply |-> Reply("None", 0)]

Request(r, code, p) == call' = [call EXCEPT ![r] = Requested(@, r[1], code, p)]

Returned(r) == [call EXCEPT ![r].pc = "idle", ![r].srv = 0, ![r].retry = NServers, ![r].reply.Lease = 0]

\* Call returned false, or the server is not the leader: on to the next server
NextServer(r) ==
    /\ leader' = [leader EXCEPT ![r[1]] = (@ + 1) % NServers]
    /\ call' = [call EXCEPT ![r].pc = "retry", ![r].srv = 0, ![r].retry = @ - 1,
                            ![r].reply = Reply("None", 0)]
    /\ UNCHANGED <<alive, closed, keep>>

WrongLeader(r) == call[r].pc = "reply" /\ call[r].reply.Result = "WrongLeader" /\ NextServer(r)

\* The next call.  After a full round Request has waited for it, and gives
\* up instead when the session is closed.
CallAgain(r) ==
    /\ call[r].pc = "retry"
    /\ \/ call' = [call EXCEPT ![r].pc = "request", ![r].srv = leader[r[1]],
                               ![r].retry = IF @ = 0 THEN NServers ELSE @]
       \/ /\ call[r].retry = 0 /\ closed[r[1]]
          /\ call' = Replied(r, Reply("Terminated", 0))
    /\ UNCHANGED sessVars

\* The reply says that an earlier copy was applied: Request starts over
\* under a new sequence number.
RequestAgain(r) ==
    /\ call[r].pc = "reply" /\ call[r].reply.Result = "RepeatedRequest"
    /\ Request(r, call[r].code, call[r].path)
    /\ UNCHANGED sessVars

(***************************************************************************)
(* The user's calls                                                        *)
(***************************************************************************)

\* The user makes one call at a time, and none after Close.
MayCall(s) == call[<<s, 0>>].pc = "idle" /\ call[<<s, 0>>].seq < MaxSeq[<<s, 0>>] /\ ~ closed[s]

CreateOrRemove(s, code, p) ==
    /\ MayCall(s) /\ <<code, p>> \in UserOps[s]
    /\ Request(<<s, 0>>, code, p)
    /\ UNCHANGED sessVars

\* Acquire of a lock that the session believes to hold returns LockReacquire
Acquire(s, p) ==
    /\ MayCall(s) /\ <<"Acquire", p>> \in UserOps[s] /\ MuFree(s)
    /\ alive[s][p] = NoLease
    /\ Request(<<s, 0>>, "Acquire", p)
    /\ UNCHANGED sessVars

\* Release of any other lock returns LockNotAcquired
Release(s, p) ==
    /\ MayCall(s) /\ <<"Release", p>> \in UserOps[s] /\ MuFree(s)
    /\ alive[s][p] # NoLease
    /\ alive' = [alive EXCEPT ![s][p] = NoLease]
    /\ Request(<<s, 0>>, "Release", p)
    /\ UNCHANGED <<leader, closed, keep>>

\* IsHolding answers TRUE as long as the lease lasts, waits during the grace
\* period, and then gives the lock up.
Holding(s, p) == alive[s][p] # NoLease /\ now <= alive[s][p]

GiveUp(s, p) ==
    /\ call[<<s, 0>>].pc = "idle" /\ MuFree(s)
    /\ alive[s][p] # NoLease /\ now > alive[s][p] + GracePeriod
    /\ alive' = [alive EXCEPT ![s][p] = NoLease]
    /\ UNCHANGED <<leader, closed, keep, call>>

Close(s) ==
    /\ s \in Closers /\ ~ closed[s]
    /\ closed' = [closed EXCEPT ![s] = TRUE]
    /\ UNCHANGED <<alive, leader, keep, call>>

\* A user's request returns; Acquire records the lease.
UserReturn(s) ==
    LET r == <<s, 0>>
        c == call[r]
    IN /\ c.pc = "reply" /\ c.reply.Result \notin {"RepeatedRequest", "WrongLeader"}
       /\ IF c.code = "Acquire" /\ c.reply.Result = "OK"
          THEN MuFree(s) /\ alive' = [alive EXCEPT ![s][c.path] = c.reply.Lease]
          ELSE UNCHANGED alive
       /\ call' = Returned(r)
       /\ UNCHANGED <<leader, closed, keep>>

(***************************************************************************)
(* KeepAlive                                                               *)
(***************************************************************************)

\* The timer fires (perhaps together with doneCh): the leases about to end are extended one after another.
KeepTick(s) ==
    LET todo == {p \in Alive(s) : now >= alive[s][p] - Refresh}
    IN /\ keep[s].pc = "sleep" /\ todo # {} /\ call[<<s, 1>>].seq < MaxSeq[<<s, 1>>]
       /\ keep' = [keep EXCEPT ![s] = [pc |-> "extend", todo |-> todo]]
       /\ \E p \in todo : Request(<<s, 1>>, "Extend", p)
       /\ UNCHANGED <<alive, leader, closed>>

\* The session was closed: every lock is released, under sess.mu.
KeepClose(s) ==
    /\ keep[s].pc = "sleep" /\ closed[s]
    /\ IF Alive(s) = {}
       THEN keep' = [keep EXCEPT ![s].pc = "stopped"] /\ UNCHANGED call
       ELSE /\ keep' = [keep EXCEPT ![s] = [pc |-> "release", todo |-> Alive(s)]]
            /\ \E p \in Alive(s) : Request(<<s, 1>>, "Release", p)
    /\ UNCHANGED <<alive, leader, closed>>

Extended(s, p, reply) ==
    [alive EXCEPT ![s][p] = IF reply.Result # "OK" THEN NoLease
                            ELSE IF @ # NoLease THEN reply.Lease ELSE @]

\* A request of KeepAlive returns: on to the next path, or to the end of
\* the loop body.
KeepReturn(s) ==
    LET r == <<s, 1>>
        c == call[r]
        todo == keep[s].todo \ {c.path}
    IN /\ c.pc = "reply" /\ c.reply.Result \notin {"RepeatedRequest", "WrongLeader"}
       /\ IF c.code = "Extend" THEN alive' = Extended(s, c.path, c.reply) ELSE UNCHANGED alive
       /\ IF todo # {}
          THEN /\ \E p \in todo : Request(r, c.code, p)
               /\ keep' = [keep EXCEPT ![s].todo = todo]
          ELSE /\ call' = Returned(r)
               /\ keep' = [keep EXCEPT ![s] = [pc |-> IF @.pc = "extend" THEN "sleep" ELSE "stopped",
                                               todo |-> {}]]
       /\ UNCHANGED <<leader, closed>>

\* Init; the sessions in gone have been closed since.
SessInit(gone) ==
    /\ leader = [s \in Sessions |-> 0]
    /\ closed = [s \in Sessions |-> s \in gone]
    /\ keep = [s \in Sessions |-> [pc |-> IF s \in gone THEN "stopped" ELSE "sleep", todo |-> {}]]

SessNext ==
    \/ \E r \in Requesters : RequestAgain(r) \/ WrongLeader(r) \/ CallAgain(r)
    \/ \E s \in Sessions, p \in Paths :
         \/ \E code \in {"Create", "Remove"} : CreateOrRemove(s, code, p)
         \/ Acquire(s, p) \/ Release(s, p) \/ GiveUp(s, p)
    \/ \E s \in Sessions : UserReturn(s) \/ Close(s) \/ KeepTick(s) \/ KeepClose(s) \/ KeepReturn(s)

SessTypeOK ==
    /\ alive \in [Sessions -> [Paths -> 0 .. MaxTime + DefaultLease \cup {NoLease}]]
    /\ leader \in [Sessions -> Servers]
    /\ closed \in [Sessions -> BOOLEAN]
    /\ keep \in [Sessions -> Keepers]
=============================================================================
