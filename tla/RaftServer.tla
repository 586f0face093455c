----------------------------- MODULE RaftServer -----------------------------
(***************************************************************************)
(* The lock server over Raft, src/src/raftserver: request handlers that    *)
(* start an operation and wait on a condition variable, the applier, the   *)
(* ticker with its lease check, shutdown and restart.                      *)
(*                                                                         *)
(* The Raft library is abstracted to what module Raft checks: one log of   *)
(* committed operations that every server applies in order, and behind it, *)
(* for every server, the entries it holds and nobody has committed.  Only  *)
(* a leader of the latest term commits, and only once it has an entry of   *)
(* its own term; what conflicts with a committed entry is lost.  A new     *)
(* leader starts with a prefix of somebody's uncommitted entries, unless   *)
(* they are older than the last committed one.                             *)
(***************************************************************************)
EXTENDS LockCalls, Sequences

CONSTANTS
    MaxStarts,          \* bound: calls of rf.Start on a leader
    MaxTerm,            \* bound: terms
    Restarting,         \* bound: the servers that are shut down and restarted
    MaxRestarts,        \* bound: shutdowns
    MaxRevokes          \* bound: goroutines that are about to start a revocation

ASSUME LogBounds == MaxStarts \in Nat /\ MaxTerm \in Nat
ASSUME ServerBounds == MaxRestarts \in Nat /\ MaxRevokes \in Nat

VARIABLES
    rfterm, leads,  \* GetState() of the Raft object of each server
    tail,           \* tail[s]: uncommitted entries in the log of s
    log,            \* the committed entries
    starts,         \* number of calls of rf.Start on a leader so far
    nowTerm,        \* nowTerm[s]: the latest term the lock server s has seen
    table,          \* table[s]: files and sessions of s
    applied,        \* applied[s]: number of operations in table[s]
    handlers,       \* request handlers in operateL
    revokes,        \* goroutines that checkLeaseL started
    restarts        \* number of shutdowns so far

rfVars  == <<rfterm, leads, tail, log, starts>>
srvVars == <<rfVars, nowTerm, table, applied, handlers, revokes, restarts>>

Terms == 0 .. MaxTerm

Ops == [Code : Codes, Path : Paths, Sessid : Requesters, Seq : Nat, Lease : 0 .. MaxTime + DefaultLease]

\* A handler waits; a broadcast wakes it up, and it then has to get srv.mu.
\* It is live while its caller waits for the reply.
Handlers == [srv : Servers, op : Ops, term : Terms, woken : BOOLEAN, live : BOOLEAN]

Entries == [Term : Terms, Command : Ops]

\* The table that the first n committed entries make
TableAt[n \in 0 .. Len(log)] == IF n = 0 THEN EmptyTable ELSE Applied(TableAt[n - 1], log[n].Command)

(***************************************************************************)
(* The Raft library as the server uses it                                  *)
(***************************************************************************)
LastTerm == CHOOSE t \in Terms : t \in {rfterm[s] : s \in Servers} /\ \A s \in Servers : rfterm[s] <= t

\* rf.Start(op) on a leader
RfStart(s, op) ==
    /\ starts < MaxStarts /\ starts' = starts + 1
    /\ tail' = [tail EXCEPT ![s] = Append(@, [Term |-> rfterm[s], Command |-> op])]
    /\ UNCHANGED <<rfterm, leads, log>>

\* s becomes leader of a new term, with what has reached it of anybody's log.
RfElect(s) ==
    /\ ~ leads[s] /\ LastTerm < MaxTerm
    /\ rfterm' = [rfterm EXCEPT ![s] = LastTerm + 1]
    /\ leads' = [leads EXCEPT ![s] = TRUE]
    /\ \E u \in Servers : \E n \in 0 .. Len(tail[u]) :
         /\ \A i \in 1 .. n : log # <<>> => tail[u][i].Term >= log[Len(log)].Term
         /\ tail' = [tail EXCEPT ![s] = SubSeq(tail[u], 1, n)]
    /\ UNCHANGED <<log, starts, nowTerm, table, applied, handlers, revokes, restarts>>

\* s hears of the latest term
RfLearn(s) ==
    /\ rfterm[s] < LastTerm
    /\ rfterm' = [rfterm EXCEPT ![s] = LastTerm]
    /\ leads' = [leads EXCEPT ![s] = FALSE]
    /\ UNCHANGED <<tail, log, starts, nowTerm, table, applied, handlers, revokes, restarts>>

RfCommit(s) ==
    /\ leads[s] /\ rfterm[s] = LastTerm
    /\ \E i \in 1 .. Len(tail[s]) : tail[s][i].Term = rfterm[s]
    /\ log' = Append(log, Head(tail[s]))
    /\ tail' = [u \in Servers |-> IF tail[u] # <<>> /\ Head(tail[u]) = Head(tail[s]) THEN Tail(tail[u]) ELSE <<>>]
    /\ UNCHANGED <<rfterm, leads, starts, nowTerm, table, applied, handlers, revokes, restarts>>

(***************************************************************************)
(* StartServer                                                             *)
(***************************************************************************)

\* Server 0 leads the given term; the operations ops are committed, and
\* applied everywhere.
SrvInit(term, ops) ==
    /\ rfterm = [s \in Servers |-> term]
    /\ leads = [s \in Servers |-> s = 0]
    /\ tail = [s \in Servers |-> <<>>]
    /\ log = [n \in 1 .. Len(ops) |-> [Term |-> 1, Command |-> ops[n]]]
    /\ nowTerm = rfterm
    /\ table = [s \in Servers |-> TableAt[Len(ops)]]
    /\ applied = [s \in Servers |-> Len(ops)]
    /\ handlers = {} /\ revokes = {}

(***************************************************************************)
(* Request handlers: Create, Remove, Acquire, Release, Extend              *)
(***************************************************************************)
Woken(hs, s) == {IF h.srv = s THEN [h EXCEPT !.woken = TRUE] ELSE h : h \in hs}

\* Mutant: a new term is noted without waking the handlers of the old one
checkTermQuietly(s) ==
    /\ nowTerm' = [nowTerm EXCEPT ![s] = IF rfterm[s] > @ THEN rfterm[s] ELSE @]
    /\ UNCHANGED handlers

\* checkTermL with the term of the Raft object, as the ticker calls it
checkTermL(s) ==
    /\ nowTerm' = [nowTerm EXCEPT ![s] = IF rfterm[s] > @ THEN rfterm[s] ELSE @]
    /\ handlers' = IF rfterm[s] > nowTerm[s] THEN Woken(handlers, s) ELSE handlers

\* Mutant: the grace period is part of the lease
LeaseWithGrace(r) ==
    Op(call[r].code, call[r].path, r, call[r].seq,
       IF call[r].code \in {"Acquire", "Extend"} THEN now + DefaultLease + GracePeriod ELSE 0)

\* Acquire and Extend carry the lease their handler computes
OpOf(r) ==
    Op(call[r].code, call[r].path, r, call[r].seq,
       IF call[r].code \in {"Acquire", "Extend"} THEN now + DefaultLease ELSE 0)

\* The handler of r's request starts, up to its first Wait
Handle(r) ==
    LET s == call[r].srv
        h == [srv |-> s, op |-> OpOf(r), term |-> rfterm[s], woken |-> FALSE, live |-> TRUE]
    IN /\ call[r].pc = "request"
       /\ \/ /\ Repeated(table[s], r, call[r].seq)
             /\ call' = Replied(r, Reply("RepeatedRequest", 0))
             /\ UNCHANGED srvVars
          \/ /\ ~ Repeated(table[s], r, call[r].seq) /\ ~ leads[s]
             /\ call' = Replied(r, Reply("WrongLeader", 0))
             /\ UNCHANGED srvVars
          \/ /\ ~ Repeated(table[s], r, call[r].seq) /\ leads[s]
             /\ RfStart(s, h.op)
             /\ nowTerm' = [nowTerm EXCEPT ![s] = rfterm[s]]
             /\ handlers' = {h} \cup IF rfterm[s] > nowTerm[s] THEN Woken(handlers, s) ELSE handlers
             /\ call' = [call EXCEPT ![r].pc = "running"]
             /\ UNCHANGED <<table, applied, revokes, restarts>>
       /\ UNCHANGED now

Done(h, reply) ==
    /\ handlers' = handlers \ {h}
    /\ call' = IF h.live THEN Replied(h.op.Sessid, reply) ELSE call

\* Mutant: the handler does not look at the session after a broadcast
WakeAnswers(h) ==
    /\ h.woken
    /\ Done(h, IF h.term # nowTerm[h.srv] THEN Reply("WrongLeader", 0) ELSE Answer(table[h.srv], h.op))
    /\ UNCHANGED <<rfVars, nowTerm, table, applied, revokes, restarts, now>>

\* A handler returns from Wait
Wake(h) ==
    /\ h.woken
    /\ \/ /\ h.term # nowTerm[h.srv]
          /\ Done(h, Reply("WrongLeader", 0))
       \/ /\ h.term = nowTerm[h.srv] /\ Repeated(table[h.srv], h.op.Sessid, h.op.Seq)
          /\ Done(h, Answer(table[h.srv], h.op))
       \/ /\ h.term = nowTerm[h.srv] /\ ~ Repeated(table[h.srv], h.op.Sessid, h.op.Seq)
          /\ handlers' = (handlers \ {h}) \cup {[h EXCEPT !.woken = FALSE]}
          /\ UNCHANGED call
    /\ UNCHANGED <<rfVars, nowTerm, table, applied, revokes, restarts, now>>

(***************************************************************************)
(* The applier; updSessL wakes the handlers of the session                 *)
(***************************************************************************)
Apply(s) ==
    /\ applied[s] < Len(log)
    /\ LET op == log[applied[s] + 1].Command
           t == Applied(table[s], op)
       IN /\ table' = [table EXCEPT ![s] = t]
          /\ handlers' = {IF h.srv = s /\ h.op.Sessid = op.Sessid /\ t.sessions # table[s].sessions
                          THEN [h EXCEPT !.woken = TRUE] ELSE h : h \in handlers}
    /\ applied' = [applied EXCEPT ![s] = @ + 1]
    /\ UNCHANGED <<rfVars, nowTerm, revokes, restarts, call, now>>

(***************************************************************************)
(* The ticker                                                              *)
(***************************************************************************)

Expired(s, p) ==
    LET f == table[s].files[p] IN f # NoFile /\ f.Sessid # Free /\ f.Lease + GracePeriod < now

\* The revocations that checkLeaseL starts
checkLeaseL(s) ==
    {[srv |-> s, op |-> Op("Revoke", p, table[s].files[p].Sessid, 0, table[s].files[p].Lease)] :
        p \in {q \in Paths : Expired(s, q)}}

ticker(s) ==
    LET new == IF leads[s] THEN checkLeaseL(s) ELSE {}
    IN /\ checkTermL(s)
       /\ revokes' = IF Cardinality(revokes \cup new) <= MaxRevokes THEN revokes \cup new ELSE revokes
       /\ UNCHANGED <<rfVars, table, applied, restarts, call, now>>

\* rf.Start of a revocation; nobody waits for it
RevokeStart(v) ==
    /\ revokes' = revokes \ {v}
    /\ IF leads[v.srv] THEN RfStart(v.srv, v.op) ELSE UNCHANGED rfVars
    /\ UNCHANGED <<nowTerm, table, applied, handlers, restarts, call, now>>

(***************************************************************************)
(* Shutdown, which saves the Raft state, and Start: the table is empty and *)
(* the log is applied again.  The old handlers answer nobody, and requests *)
(* that the network took for the old server are lost with it.  (Bound: a   *)
(* leader is shut down only when another one can follow it.)               *)
(***************************************************************************)
Restart(s) ==
    /\ s \in Restarting /\ restarts < MaxRestarts
    /\ leads[s] => LastTerm < MaxTerm
    /\ restarts' = restarts + 1
    /\ leads' = [leads EXCEPT ![s] = FALSE]
    /\ nowTerm' = [nowTerm EXCEPT ![s] = 0]
    /\ table' = [table EXCEPT ![s] = EmptyTable]
    /\ applied' = [applied EXCEPT ![s] = 0]
    /\ handlers' = {h \in handlers : h.srv # s}
    /\ revokes' = {v \in revokes : v.srv # s}
    /\ \E lost \in SUBSET {r \in Requesters : call[r].pc = "request" /\ call[r].srv = s} :
         call' = [r \in Requesters |-> IF r \in lost THEN [call[r] EXCEPT !.pc = "running"] ELSE call[r]]
    /\ UNCHANGED <<rfterm, tail, log, starts, now>>

SrvNext ==
    \/ \E s \in Servers : (RfElect(s) \/ RfLearn(s) \/ RfCommit(s)) /\ UNCHANGED <<call, now>>
    \/ \E r \in Requesters : Handle(r)
    \/ \E h \in handlers : Wake(h)
    \/ \E s \in Servers : Apply(s) \/ ticker(s) \/ Restart(s)
    \/ \E v \in revokes : RevokeStart(v)

SrvTypeOK ==
    /\ rfterm \in [Servers -> Terms] /\ leads \in [Servers -> BOOLEAN]
    /\ tail \in [Servers -> Seq(Entries)]
    /\ log \in Seq(Entries) /\ starts \in 0 .. MaxStarts
    /\ nowTerm \in [Servers -> Terms] /\ \A s \in Servers : nowTerm[s] <= rfterm[s]
    /\ table \in [Servers -> Tables]
    /\ \A s \in Servers : applied[s] \in 0 .. Len(log)
    /\ handlers \subseteq Handlers
    /\ revokes \subseteq [srv : Servers, op : Ops]
    /\ restarts \in 0 .. MaxRestarts
=============================================================================
