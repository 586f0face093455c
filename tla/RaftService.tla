----------------------------- MODULE RaftService -----------------------------
(***************************************************************************)
(* The lock service over Raft: client sessions and the lock servers of     *)
(* module RaftServer, connected by calls that may fail (src/src/labrpc).   *)
(***************************************************************************)
EXTENDS RaftServer, Session

CONSTANT MaxFails   \* bound: calls that fail although their server lives

ASSUME FailBound == MaxFails \in Nat

VARIABLE fails      \* number of such calls so far

vars == <<now, call, srvVars, sessVars, fails>>

\* The sessions have the answers to the committed operations ops, and those
\* in gone have been closed; used says how much of the bounds on starts,
\* restarts and failing calls is spent.
InitIn(term, ops, gone, time, used) ==
    /\ now = time
    /\ SrvInit(term, ops) /\ SessInit(gone)
    /\ starts = used.starts /\ restarts = used.restarts /\ fails = used.fails
    /\ alive = [s \in Sessions |-> [p \in Paths |->
                 IF HeldBy(table[0].files[p], <<s, 0>>) THEN table[0].files[p].Lease ELSE NoLease]]
    /\ call = [r \in Requesters |->
                 [pc |-> "idle", srv |-> 0, code |-> "Create", path |-> CHOOSE p \in Paths : TRUE,
                  seq |-> table[0].sessions[r], retry |-> NServers, reply |-> Reply("None", 0)]]

(***************************************************************************)
(* A call fails: the request is dropped or finds no server, the server is  *)
(* deleted or cut off while the handler runs, or the reply is dropped.  A  *)
(* handler that runs goes on without a caller.                             *)
(***************************************************************************)
ServerGone(r) ==
    call[r].pc = "running" /\ \A h \in handlers : ~ (h.live /\ h.op.Sessid = r)

CallFails(r) ==
    /\ call[r].pc \in {"request", "running", "reply"} /\ call[r].reply.Result # "Terminated"
    /\ IF ServerGone(r) THEN UNCHANGED fails ELSE fails < MaxFails /\ fails' = fails + 1
    /\ handlers' = {IF h.op.Sessid = r THEN [h EXCEPT !.live = FALSE] ELSE h : h \in handlers}
    /\ NextServer(r)
    /\ UNCHANGED <<now, rfVars, nowTerm, table, applied, revokes, restarts>>

Next ==
    \/ SrvNext /\ UNCHANGED <<sessVars, fails>>
    \/ SessNext /\ UNCHANGED <<srvVars, now, fails>>
    \/ \E r \in Requesters : CallFails(r)
    \/ Tick /\ UNCHANGED <<call, srvVars, sessVars, fails>>

(***************************************************************************)
(* Fairness.  The servers do not rest while Raft has a leader to elect, a  *)
(* server to tell of the latest term or an entry to commit, while there is *)
(* something to apply, or a tick would change something; and no session    *)
(* rests while one of its requests can go on: the handler once it is woken *)
(* up, and the loop of Request.                                            *)
(***************************************************************************)
ServersProgress ==
    /\ \E s \in Servers :
         \/ /\ (RfElect(s) /\ \A u \in Servers : ~ leads[u]) \/ RfLearn(s) \/ RfCommit(s)
            /\ UNCHANGED <<call, now>>
         \/ Apply(s) \/ ticker(s)
    /\ UNCHANGED <<sessVars, fails>>

Progress(r) ==
    \/ /\ Handle(r) \/ \E h \in handlers : h.live /\ h.op.Sessid = r /\ Wake(h)
       /\ UNCHANGED <<sessVars, fails>>
    \/ /\ RequestAgain(r) \/ WrongLeader(r) \/ CallAgain(r)
          \/ (r[2] = 0 /\ UserReturn(r[1])) \/ (r[2] = 1 /\ KeepReturn(r[1]))
       /\ UNCHANGED <<srvVars, now, fails>>
    \/ ServerGone(r) /\ CallFails(r)

Fairness ==
    /\ WF_vars(ServersProgress)
    /\ \A s \in Sessions : WF_vars(Progress(<<s, 0>>) \/ Progress(<<s, 1>>))

Init == InitIn(1, <<>>, {}, StartTime, [starts |-> 0, restarts |-> 0, fails |-> 0])

Spec == Init /\ [][Next]_vars /\ Fairness

\* Every variable has its type; terms, leases and sequence numbers stay within
\* what the handlers compute.
TypeOK ==
    /\ now \in 0 .. MaxTime
    /\ call \in [Requesters -> Calls]
    /\ SrvTypeOK /\ SessTypeOK
    /\ fails \in 0 .. MaxFails

(***************************************************************************)
(* Properties                                                              *)
(***************************************************************************)
CommittedTable == TableAt[Len(log)]

\* At most one session at a time holds a lock in the sense of IsHolding.  Over
\* Raft this needs no condition: the lease of an Extend is computed and the
\* operation put into the log in one step under srv.mu, so leases grow along
\* the log.
MutualExclusion ==
    \A s, t \in Sessions, p \in Paths :
        s # t => ~ (/\ ~ closed[s] /\ Holding(s, p)
                    /\ ~ closed[t] /\ Holding(t, p))

\* A lock that a session believes to hold is its own in the committed log: no
\* revocation that a lagging or deposed leader started takes it away before the
\* lease that the session was told.
BelievedIsHeld ==
    \A s \in Sessions, p \in Paths :
        (~ closed[s] /\ Holding(s, p)) => HeldBy(CommittedTable.files[p], <<s, 0>>)

\* A request that returned, other than by giving up, is in the committed log:
\* handlers that a broadcast wakes up too early, or for an older request of the
\* session, do not answer.
AnsweredIsCommitted ==
    \A r \in Requesters :
        (call[r].pc = "idle" /\ call[r].reply.Result \notin {"None", "Terminated"})
        => CommittedTable.sessions[r] >= call[r].seq

\* Every request of a user returns, through changes of leader and shutdowns of
\* servers: when its entry is lost with its leader, the next tick sees the new
\* term and wakes its handler up.  Unless KeepAlive makes requests again and
\* again at the same time, which moves the server that both call next, or the
\* model's bound lets no leader start it.
RequestReturns ==
    \A s \in Sessions :
        LET c == call[<<s, 0>>]
        IN c.pc # "idle" ~> \/ c.pc = "idle"
                            \/ call[<<s, 1>>].pc # "idle"
                            \/ c.pc = "request" /\ starts = MaxStarts
=============================================================================
