----------------------------- MODULE LockService -----------------------------
(***************************************************************************)
(* The lock service: client sessions and the lock servers over Paxos,      *)
(* connected by calls that may fail (src/src/labrpc).                      *)
(***************************************************************************)
EXTENDS PaxosServer, Session

CONSTANT MaxFails   \* bound: calls that fail although their server lives

ASSUME FailBound == MaxFails \in Nat

VARIABLE fails      \* number of such calls so far

vars == <<now, call, srvVars, sessVars, fails>>

\* The sessions have the answers to the operations of InitLog; used says how
\* much of the bounds on restarts and failing calls is spent.
InitIn(time, used) ==
    /\ now = time
    /\ SrvInit /\ SessInit({})
    /\ restarts = used.restarts /\ fails = used.fails
    /\ alive = [s \in Sessions |-> [p \in Paths |->
                 IF HeldBy(table[0].files[p], <<s, 0>>) THEN table[0].files[p].Lease ELSE NoLease]]
    /\ call = [r \in Requesters |->
                 [pc |-> "idle", srv |-> 0, code |-> "Create", path |-> CHOOSE p \in Paths : TRUE,
                  seq |-> table[0].sessions[r], retry |-> NServers, reply |-> Reply("None", 0)]]

Init == InitIn(StartTime, [restarts |-> 0, fails |-> 0])

(***************************************************************************)
(* A call fails: the request is dropped or finds no server, the server is  *)
(* deleted or cut off while the handler runs, or the reply is dropped.  A  *)
(* handler that runs goes on without a caller.                             *)
(***************************************************************************)
Abandoned(r) == {IF h.op.Sessid = r THEN [h EXCEPT !.live = FALSE] ELSE h : h \in handlers}

ServerGone(r) ==
    call[r].pc = "running" /\ \A h \in handlers : ~ (h.live /\ h.op.Sessid = r)

CallFails(r) ==
    /\ call[r].pc \in {"request", "running", "reply"} /\ call[r].reply.Result # "Terminated"
    /\ IF ServerGone(r) THEN UNCHANGED fails ELSE fails < MaxFails /\ fails' = fails + 1
    /\ handlers' = Abandoned(r)
    /\ NextServer(r)
    /\ UNCHANGED <<now, pxVars, table, applied, revokes, restarts, lowered>>

Next ==
    \/ SrvNext /\ UNCHANGED <<sessVars, fails>>
    \/ SessNext /\ UNCHANGED <<srvVars, now, fails>>
    \/ \E r \in Requesters : CallFails(r)
    \/ Tick /\ UNCHANGED <<call, srvVars, sessVars, fails>>

Spec == Init /\ [][Next]_vars

\* What the code does without its users: handlers, appliers and the loops of
\* Request go on, and Paxos decides an instance that somebody started.
Progress(r) ==
    \/ /\ \/ Handle(r)
          \/ \E h \in handlers : h.live /\ h.op.Sessid = r /\ (Finish(h) \/ ProposeAgain(h))
       /\ UNCHANGED <<sessVars, fails>>
    \/ /\ RequestAgain(r) \/ CallAgain(r)
          \/ (r[2] = 0 /\ UserReturn(r[1])) \/ (r[2] = 1 /\ KeepReturn(r[1]))
       /\ UNCHANGED <<srvVars, now, fails>>
    \/ ServerGone(r) /\ CallFails(r)

ServersProgress ==
    /\ (\E s \in Servers : Apply(s)) \/ (\E n \in Slots : PxDecide(n) /\ UNCHANGED <<call, now>>)
    /\ UNCHANGED <<sessVars, fails>>

\* The system does not rest while one of its own steps is possible.
Fairness == WF_vars(ServersProgress \/ \E r \in Requesters : Progress(r))

FairSpec == Spec /\ Fairness

\* Every variable has its type; instances, leases and sequence numbers stay within
\* what the handlers compute.
TypeOK ==
    /\ now \in StartTime .. MaxTime
    /\ call \in [Requesters -> Calls]
    /\ SrvTypeOK /\ SessTypeOK
    /\ fails \in 0 .. MaxFails

(***************************************************************************)
(* Properties                                                              *)
(***************************************************************************)
Holds(s, p) == ~ closed[s] /\ Holding(s, p)

\* The instances decided without a gap, and the table they make
Prefix == CHOOSE n \in 0 .. MaxSlots :
              /\ \A m \in Slots : m < n => chosen[m] # Undecided
              /\ n \in Slots => chosen[n] = Undecided

DecidedTable == TableAt[Prefix]

\* At most one session at a time holds a lock in the sense of IsHolding: the
\* lease it was told has not ended.
MutualExclusion ==
    \A s, t \in Sessions, p \in Paths : s # t => ~ (Holds(s, p) /\ Holds(t, p))

\* As long as no Extend has lowered a lease by more than the grace period, a
\* lock that a session believes to hold is its own in the decided log: neither
\* a revocation that races with an Extend, nor a late reply, nor a server whose
\* table lags behind takes it away before the lease that the session was told.
BelievedIsHeld ==
    lowered \/ \A s \in Sessions, p \in Paths : Holds(s, p) => HeldBy(DecidedTable.files[p], <<s, 0>>)

\* A request that returned, other than by giving up, is in the decided log, also
\* when the server that handled it is shut down before anybody applied it.
AnsweredIsDecided ==
    \A r \in Requesters :
        (call[r].pc = "idle" /\ call[r].reply.Result \notin {"None", "Terminated"})
        => DecidedTable.sessions[r] >= call[r].seq

\* Once Release has returned, no copy of the session's earlier Acquire that is
\* proposed or decided late gives it the lock back.
ReleasedStays ==
    \A s \in Sessions, p \in Paths :
        LET c == call[<<s, 0>>]
        IN (c.pc = "idle" /\ c.code = "Release" /\ c.path = p /\ c.reply.Result = "OK")
           => ~ HeldBy(DecidedTable.files[p], <<s, 0>>)

\* An applied revocation frees a lock whose lease and grace period are over,
\* whatever happened to the lock since the revocation was proposed.
RevokedIsExpired ==
    [][\A s \in Servers, p \in Paths :
         (/\ applied'[s] = applied[s] + 1
          /\ chosen[applied[s]] # Nil
          /\ chosen[applied[s]].Code = "Revoke"
          /\ table'[s].files[p] # table[s].files[p])
         => table[s].files[p].Lease + GracePeriod < now]_vars

\* Every request of a user returns, also when its operation loses its instance
\* to another one or to a filler, when a reply says RepeatedRequest, and when
\* its server is shut down; unless there is no instance left to propose it for.
RequestReturns ==
    \A s \in Sessions :
        LET c == call[<<s, 0>>]
            Proposes == \/ c.pc = "request"
                        \/ \E h \in handlers : h.op.Sessid = <<s, 0>> /\ applied[h.srv] > h.pxseq
        IN c.pc # "idle" ~> c.pc = "idle" \/ (Proposes /\ PxTop = MaxSlots - 1)
=============================================================================
