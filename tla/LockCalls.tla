------------------------------ MODULE LockCalls ------------------------------
(***************************************************************************)
(* What a lock server and its client sessions share: the clock and the RPC *)
(* calls between them.  Servers and sessions run on one machine and read   *)
(* one clock (time.Now().Unix()).                                          *)
(*                                                                         *)
(* A requester makes one call at a time; call[r] is its current one:       *)
(*   idle      the requester is not in Request                             *)
(*   request   the request is on its way to server srv                     *)
(*   running   its handler runs on srv                                     *)
(*   reply     the reply is on its way, or Request is about to return      *)
(*   retry     the call failed and Request is about to make another        *)
(* seq and retry are the variables of Request; code and path of an idle    *)
(* requester are those of its last request, reply is what it returned.     *)
(***************************************************************************)
EXTENDS LockTable, FiniteSets

CONSTANTS
    NServers,       \* number of lock servers, 0 .. NServers - 1
    StartTime,      \* when the model starts; the operations of the initial log are earlier
    MaxTime,        \* bound: the clock stops there
    MaxSeq          \* bound: r makes no new request when its sequence number is MaxSeq[r]

ASSUME NServersType == NServers \in Nat \ {0}
ASSUME TimeBound == StartTime \in Nat /\ MaxTime \in Nat
ASSUME SeqBound == MaxSeq \in [Requesters -> Nat]

VARIABLES
    now,            \* the clock
    call            \* call[r]: the current call of requester r

Servers == 0 .. NServers - 1

Results == {"None", "OK", "RepeatedRequest", "WrongLeader", "LockNotExist", "LockBusy",
            "LockNotAcquired", "Terminated"}

Calls == [pc : {"idle", "request", "running", "reply", "retry"}, srv : Servers,
          code : Codes, path : Paths, seq : Nat, retry : 0 .. NServers,
          reply : [Result : Results, Lease : 0 .. MaxTime + DefaultLease]]

\* The reply of srv to the current call of r
Replied(r, reply) == [call EXCEPT ![r].pc = "reply", ![r].reply = reply]

Tick == now < MaxTime /\ now' = now + 1
=============================================================================
