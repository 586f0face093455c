------------------------------- MODULE MCPaxos -------------------------------
(***************************************************************************)
(* Instances of Paxos for TLC: three or four servers; Start call c1 on s1  *)
(* with v1 and, in the runs that have it, c2 on s2 with v2.                *)
(***************************************************************************)
EXTENDS Paxos

CONSTANTS s1, s2, s3, s4, c1, c2, v1, v2

MCHome  == [c \in Clients |-> IF c = c1 THEN s1 ELSE s2]
MCInput == [c \in Clients |-> IF c = c1 THEN v1 ELSE v2]

(***************************************************************************)
(* The view of the runs without crashes.  Two states are the same when     *)
(* they differ only in                                                     *)
(*   - requests that nobody waits for and that will find a higher ballot   *)
(*     or a decision, and decisions announced to a server that has decided *)
(*     (executing any of them changes nothing else);                       *)
(*   - promises and disk, which no action of Spec reads.                   *)
(***************************************************************************)
LivePrepares == {m \in prepareArgs : \/ InPrepare(m)
                                     \/ /\ inst[m.to].status # "Decided"
                                        /\ m.bal > inst[m.to].prepare}
LiveAccepts == {m \in acceptArgs : \/ InAccept(m)
                                   \/ /\ inst[m.to].status # "Decided"
                                      /\ m.bal >= inst[m.to].prepare}
LiveDecides == {m \in decideArgs : inst[m.to].status # "Decided"}
LiveLearns  == {d \in decides : inst[d.srv].status # "Decided"}

Effective == <<inst, prop, LivePrepares, prepareReply, LiveAccepts, acceptReply,
               LiveDecides, LiveLearns, votes, proposed>>

(***************************************************************************)
(* The view of the runs with crashes, where Impatient is empty.  It drops  *)
(* the fillers, which never wake up, and the histories that neither an     *)
(* action nor a property of these runs reads.                              *)
(***************************************************************************)
CrashEffective == <<inst, disk, enable, [c \in Clients |-> prop[c]], calls, decides, votes>>
=============================================================================
