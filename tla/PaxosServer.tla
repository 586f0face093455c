----------------------------- MODULE PaxosServer -----------------------------
(***************************************************************************)
(* The lock server over Paxos, src/src/paxosserver: request handlers that  *)
(* propose an operation and poll until it is applied, the applier, the     *)
(* lease ticker with its revoke goroutines, shutdown and restart.          *)
(*                                                                         *)
(* The Paxos library is the abstract object that module Paxos checks: an   *)
(* instance decides at most one of the values started for it, or nil, and  *)
(* a server learns of that any time later.  Px...  definitions model it    *)
(* from how the server uses it (Start, Max, Status).                       *)
(***************************************************************************)
EXTENDS LockCalls, Sequences

CONSTANTS
    Undecided, Nil,     \* an instance without a decision; decided without an operation
    InitLog,            \* operations decided and applied everywhere at the start
    MaxSlots,           \* bound: instances 0 .. MaxSlots - 1
    MaxFillers,         \* bound: instances decided with nil
    Restarting,         \* bound: the servers that are shut down and restarted
    MaxRestarts,        \* bound: shutdowns
    MaxRevokes          \* bound: revoke goroutines at a time

ASSUME SlotBound == MaxSlots \in Nat /\ MaxFillers \in Nat
ASSUME ServerBounds == MaxRestarts \in Nat /\ MaxRevokes \in Nat

VARIABLES
    started,        \* started[n]: operations proposed for the undecided instance n
    chosen,         \* chosen[n]: what instance n decided
    known,          \* known[s]: the highest instance s has used, px.Max() or less
    table,          \* table[s]: files and sessions of server s
    applied,        \* applied[s]: instances 0 .. applied[s] - 1 are in table[s]
    handlers,       \* request handlers in operateL
    revokes,        \* revoke goroutines
    restarts,       \* number of shutdowns so far
    lowered         \* history: an Extend lowered a lease by more than the grace period

pxVars  == <<started, chosen, known>>
srvVars == <<pxVars, table, applied, handlers, revokes, restarts, lowered>>

Slots == 0 .. MaxSlots - 1

Leases == 0 .. MaxTime + DefaultLease

Ops == [Code : Codes, Path : Paths, Sessid : Requesters, Seq : Nat, Lease : Leases]

\* A handler in operateL: live while its caller waits for the reply.
Handlers == [srv : Servers, op : Ops, pxseq : Slots, live : BOOLEAN]

\* A revoke goroutine; pxseq is -1 before it calls px.Max, and started tells
\* whether it has called px.Start.
Revokes == [srv : Servers, op : Ops, pxseq : Slots \cup {-1}, started : BOOLEAN]

\* The table of a server that has applied instances 0 .. n - 1
TableAt[n \in 0 .. MaxSlots] ==
    IF n = 0 THEN EmptyTable
    ELSE IF chosen[n - 1] = Nil THEN TableAt[n - 1] ELSE Applied(TableAt[n - 1], chosen[n - 1])

(***************************************************************************)
(* The Paxos library as the server uses it                                 *)
(***************************************************************************)

\* The instances that some server has created
PxTop == CHOOSE n \in Slots \cup {-1} :
             /\ \A m \in Slots : m > n => chosen[m] = Undecided /\ started[m] = {}
             /\ n >= 0 => chosen[n] # Undecided \/ started[n] # {}

\* px.Max() + 1.  A server knows the instances it used and, when messages
\* of its peers have reached it, any that they created.
PxNext(s) == {n \in Slots : n > known[s] /\ n <= PxTop + 1}

\* px.Start(n, op); for an instance that has been decided it changes nothing
PxStart(s, n, op) ==
    /\ known' = [known EXCEPT ![s] = IF n > @ THEN n ELSE @]
    /\ started' = IF chosen[n] = Undecided THEN [started EXCEPT ![n] = @ \cup {op}] ELSE started
    /\ UNCHANGED chosen

\* Agreement: an operation started for the instance, or the nil of a filler
PxDecide(n) ==
    /\ chosen[n] = Undecided /\ n <= PxTop
    /\ \E v \in started[n] \cup {Nil} :
         /\ v = Nil => Cardinality({m \in Slots : chosen[m] = Nil}) < MaxFillers
         /\ chosen' = [chosen EXCEPT ![n] = v]
    /\ started' = [started EXCEPT ![n] = {}]
    /\ UNCHANGED <<known, table, applied, handlers, revokes, restarts, lowered>>

(***************************************************************************)
(* StartServer                                                             *)
(***************************************************************************)
SrvInit ==
    /\ chosen = [n \in Slots |-> IF n < Len(InitLog) THEN InitLog[n + 1] ELSE Undecided]
    /\ started = [n \in Slots |-> {}]
    /\ known = [s \in Servers |-> Len(InitLog) - 1]
    /\ table = [s \in Servers |-> TableAt[Len(InitLog)]]
    /\ applied = [s \in Servers |-> Len(InitLog)]
    /\ handlers = {} /\ revokes = {}
    /\ lowered = FALSE

(***************************************************************************)
(* Request handlers: Create, Remove, Acquire, Release, Extend              *)
(***************************************************************************)

\* Mutant: the lease includes the grace period
LeaseWithGrace(code) == IF code \in {"Acquire", "Extend"} THEN now + DefaultLease + GracePeriod ELSE 0

\* Acquire and Extend carry the lease their handler computes
LeaseOf(code) == IF code \in {"Acquire", "Extend"} THEN now + DefaultLease ELSE 0

OpOf(r) == Op(call[r].code, call[r].path, r, call[r].seq, LeaseOf(call[r].code))

\* The handler of r's request starts: it answers a request that was applied
\* before, and proposes any other.
Handle(r) ==
    LET s == call[r].srv
    IN /\ call[r].pc = "request"
       /\ \/ /\ Repeated(table[s], r, call[r].seq)
             /\ call' = Replied(r, Reply("RepeatedRequest", 0))
             /\ UNCHANGED srvVars
          \/ /\ ~ Repeated(table[s], r, call[r].seq)
             /\ \E n \in PxNext(s) :
                  /\ PxStart(s, n, OpOf(r))
                  /\ handlers' = handlers \cup {[srv |-> s, op |-> OpOf(r), pxseq |-> n, live |-> TRUE]}
             /\ call' = [call EXCEPT ![r].pc = "running"]
             /\ UNCHANGED <<table, applied, revokes, restarts, lowered>>
       /\ UNCHANGED now

\* The timer of operateL fires and finds the request applied: the handler
\* answers from the table as it is now.
Finish(h) ==
    /\ Repeated(table[h.srv], h.op.Sessid, h.op.Seq)
    /\ handlers' = handlers \ {h}
    /\ call' = IF h.live THEN Replied(h.op.Sessid, Answer(table[h.srv], h.op)) ELSE call
    /\ UNCHANGED <<pxVars, table, applied, revokes, restarts, lowered, now>>

\* Mutant: an operation is proposed once
ProposeOnce(h) == h.pxseq = -1 /\ UNCHANGED <<srvVars, call, now>>

\* It finds that its instance went to another operation, and proposes again.
ProposeAgain(h) ==
    /\ ~ Repeated(table[h.srv], h.op.Sessid, h.op.Seq)
    /\ applied[h.srv] > h.pxseq
    /\ \E n \in PxNext(h.srv) :
         /\ PxStart(h.srv, n, h.op)
         /\ handlers' = (handlers \ {h}) \cup {[h EXCEPT !.pxseq = n]}
    /\ UNCHANGED <<table, applied, revokes, restarts, lowered, call, now>>

(***************************************************************************)
(* The applier                                                             *)
(***************************************************************************)
LowersLease(t, op) ==
    /\ op # Nil /\ op.Code = "Extend"
    /\ ~ Repeated(t, op.Sessid, op.Seq)
    /\ HeldBy(t.files[op.Path], Other(op.Sessid))
    /\ op.Lease + GracePeriod < t.files[op.Path].Lease

Apply(s) ==
    /\ applied[s] \in Slots
    /\ chosen[applied[s]] # Undecided
    /\ LET op == chosen[applied[s]]
       IN /\ table' = IF op = Nil THEN table ELSE [table EXCEPT ![s] = Applied(@, op)]
          /\ lowered' = (lowered \/ LowersLease(table[s], op))
    /\ known' = [known EXCEPT ![s] = IF applied[s] > @ THEN applied[s] ELSE @]
    /\ applied' = [applied EXCEPT ![s] = @ + 1]
    /\ UNCHANGED <<started, chosen, handlers, revokes, restarts, call, now>>

(***************************************************************************)
(* The lease ticker                                                        *)
(***************************************************************************)
RevokeOf(s, p) == Op("Revoke", p, table[s].files[p].Sessid, 0, table[s].files[p].Lease)

\* Mutant: no grace period
ExpiredNow(s, p) ==
    LET f == table[s].files[p] IN f # NoFile /\ f.Sessid # Free /\ f.Lease < now

Expired(s, p) ==
    LET f == table[s].files[p] IN f # NoFile /\ f.Sessid # Free /\ f.Lease + GracePeriod < now

\* checkLease starts a goroutine per expired lock, on every tick again
CheckLease(s) ==
    LET new == {[srv |-> s, op |-> RevokeOf(s, p), pxseq |-> -1, started |-> FALSE] : p \in {q \in Paths : Expired(s, q)}}
    IN /\ revokes' = IF Cardinality(revokes \cup new) <= MaxRevokes THEN revokes \cup new ELSE revokes
       /\ UNCHANGED <<pxVars, table, applied, handlers, restarts, lowered, call, now>>

\* revoke: px.Max() + 1 and the first px.Start, two calls without srv.mu
RevokeMax(v) ==
    /\ v.pxseq = -1
    /\ \E n \in PxNext(v.srv) : revokes' = (revokes \ {v}) \cup {[v EXCEPT !.pxseq = n]}
    /\ UNCHANGED <<pxVars, table, applied, handlers, restarts, lowered, call, now>>

RevokeStart(v) ==
    /\ v.pxseq # -1 /\ ~ v.started
    /\ PxStart(v.srv, v.pxseq, v.op)
    /\ revokes' = (revokes \ {v}) \cup {[v EXCEPT !.started = TRUE]}
    /\ UNCHANGED <<table, applied, handlers, restarts, lowered, call, now>>

\* nfile == file && nfile.Sessid == op.Sessid && nfile.Lease == op.Lease.  A
\* file that was removed and created again is free or has a later lease.
StillHeld(v) ==
    LET f == table[v.srv].files[v.op.Path] IN HeldBy(f, v.op.Sessid) /\ f.Lease = v.op.Lease

\* ... and one turn of its polling loop, under srv.mu
RevokePoll(v) ==
    /\ v.started
    /\ \/ /\ ~ StillHeld(v)
          /\ revokes' = revokes \ {v}
          /\ UNCHANGED pxVars
       \/ /\ StillHeld(v) /\ applied[v.srv] > v.pxseq
          /\ \E n \in PxNext(v.srv) :
               /\ PxStart(v.srv, n, v.op)
               /\ revokes' = (revokes \ {v}) \cup {[v EXCEPT !.pxseq = n]}
    /\ UNCHANGED <<table, applied, handlers, restarts, lowered, call, now>>

(***************************************************************************)
(* Shutdown, which saves the Paxos state, and Start: the table is empty    *)
(* and the log is applied again from its first instance.  ShutdownServer   *)
(* deletes the server from the network first: the handlers that operateL   *)
(* lets return on doneCh answer nobody, and requests that the network took *)
(* for the old server are lost with it.  Their callers wait in vain.       *)
(***************************************************************************)

\* Mutant: the handlers that doneCh lets return answer their callers
AnsweredOnDone(s, lost) ==
    [r \in Requesters |-> IF \E h \in handlers : h.srv = s /\ h.live /\ h.op.Sessid = r
                          THEN Replied(r, Answer(table[s], OpOf(r)))[r] ELSE call[r]]

\* The calls after the end of s, which leaves those in lost without a handler, too
Deserted(s, lost) ==
    [r \in Requesters |-> IF r \in lost THEN [call[r] EXCEPT !.pc = "running"] ELSE call[r]]

Restart(s) ==
    /\ s \in Restarting /\ restarts < MaxRestarts
    /\ restarts' = restarts + 1
    /\ table' = [table EXCEPT ![s] = EmptyTable]
    /\ applied' = [applied EXCEPT ![s] = 0]
    /\ handlers' = {h \in handlers : h.srv # s}
    /\ revokes' = {v \in revokes : v.srv # s}
    /\ \E lost \in SUBSET {r \in Requesters : call[r].pc = "request" /\ call[r].srv = s} :
         call' = Deserted(s, lost)
    /\ UNCHANGED <<pxVars, lowered, now>>

SrvNext ==
    \/ \E n \in Slots : PxDecide(n) /\ UNCHANGED <<call, now>>
    \/ \E r \in Requesters : Handle(r)
    \/ \E h \in handlers : Finish(h) \/ ProposeAgain(h)
    \/ \E s \in Servers : Apply(s) \/ CheckLease(s) \/ Restart(s)
    \/ \E v \in revokes : RevokeMax(v) \/ RevokeStart(v) \/ RevokePoll(v)

SrvTypeOK ==
    /\ started \in [Slots -> SUBSET Ops]
    /\ chosen \in [Slots -> Ops \cup {Undecided, Nil}]
    /\ known \in [Servers -> Slots \cup {-1}]
    /\ table \in [Servers -> Tables]
    /\ applied \in [Servers -> 0 .. MaxSlots]
    /\ handlers \subseteq Handlers
    /\ revokes \subseteq Revokes
    /\ restarts \in 0 .. MaxRestarts
    /\ lowered \in BOOLEAN
=============================================================================
