----------------------------- MODULE PaxosProofs -----------------------------
(***************************************************************************)
(* Proofs about Paxos: for every set of servers, of Start calls and of     *)
(* values, with fillers and graceful restarts, lost and reordered          *)
(* messages.  This module has the type invariant, the inductive invariant  *)
(* IInv, and the steps that add nothing to a round; PaxosSafety has the    *)
(* steps of a round and the safety theorems.                               *)
(***************************************************************************)
EXTENDS Paxos, FiniteSetTheorems, TLAPS

LEMMA HomeOfType == \A p \in Proposers : HomeOf(p) \in Servers
BY HomeType DEF HomeOf, Proposers

LEMMA InputOfType == \A p \in Proposers : InputOf(p) \in MaybeValue
BY InputType DEF InputOf, Proposers, MaybeValue

LEMMA CreatedType == \A i \in Instance : Created(i) \in Instance
BY DEF Created, Instance

LEMMA IdleType == \A pc \in {"off", "wait", "dead"} : Idle(pc) \in Proposer
BY MaxBallotType DEF Idle, NoProposer, Proposer, Ballots, MaybeValue

LEMMA InitTypeOK == Init => TypeOK
BY MaxBallotType, DurableType DEF Init, TypeOK, Instance, NoInstance, Proposer, NoProposer, Ballots, MaybeValue

PrepareReply == [by : Proposers, bal : Ballots, from : Servers,
                 code : {"Ok", "LowPrepare", "HasDecided"}, acpr : Ballots, val : MaybeValue]

LEMMA WokenType == \A q \in Proposer : [q EXCEPT !.pc = "wait"] \in Proposer
BY DEF Proposer

LEMMA CountedType ==
    \A q \in Proposer : \A S \in SUBSET Servers, n \in Ballots :
        /\ [q EXCEPT !.yes = S] \in Proposer
        /\ [q EXCEPT !.no = S, !.replyPrepare = n] \in Proposer
BY Zenon DEF Proposer

LEMMA InstanceUpdates ==
    \A i \in Instance : \A b \in Ballots, v \in MaybeValue :
        /\ [i EXCEPT !.prepare = b] \in Instance
        /\ [i EXCEPT !.accept = b, !.value = v] \in Instance
        /\ [i EXCEPT !.prepare = b, !.accept = b, !.value = v] \in Instance
        /\ [i EXCEPT !.status = "Decided", !.value = v] \in Instance
BY Zenon DEF Instance

LEMMA HeardType == \A q \in Proposer, r \in PrepareReply : Heard(q, r) \in Proposer
<1> TAKE q \in Proposer, r \in PrepareReply
<1>1. q.yes \cup {r.from} \in SUBSET Servers
  BY DEF Proposer, PrepareReply
<1> QED
  BY Zenon, <1>1 DEF Heard, Proposer, PrepareReply

LEMMA WithFillerType == TypeOK => \A s \in Servers : WithFiller(s) \in [Proposers -> Proposer]
BY WokenType DEF TypeOK, WithFiller, Proposers

LEMMA PersistedType == TypeOK => \A s \in Servers, i \in Instance : Persisted(s, i) \in [Servers -> Instance]
BY DEF TypeOK, Persisted

LEMMA RaisedType == TypeOK => \A s \in Servers, n \in Ballots : Raised(s, n) \in [Servers -> Instance]
<1> SUFFICES ASSUME TypeOK, NEW s \in Servers, NEW n \in Ballots
             PROVE  Raised(s, n) \in [Servers -> Instance]
  OBVIOUS
<1> DEFINE k == IF n > inst[s].prepare THEN n ELSE inst[s].prepare
<1>1. k \in Ballots /\ inst[s] \in Instance /\ inst \in [Servers -> Instance]
  BY DEF TypeOK, Instance
<1>2. Raised(s, n) = [inst EXCEPT ![s] = [inst[s] EXCEPT !.prepare = k]]
  BY DEF Raised
<1> HIDE DEF k
<1>3. [inst[s] EXCEPT !.prepare = k] \in Instance
  BY <1>1 DEF Instance
<1> QED
  BY <1>1, <1>2, <1>3

LEMMA NotAcceptedType ==
    ASSUME TypeOK, NEW p \in Proposers, NEW t \in Servers, NEW n \in Ballots, NotAccepted(p, t, n)
    PROVE  /\ prop' \in [Proposers -> Proposer]
           /\ inst' \in [Servers -> Instance]
           /\ acceptReply' \subseteq acceptReply
<1> DEFINE no   == prop[p].no \cup {t}
           high == IF n > prop[p].replyPrepare THEN n ELSE prop[p].replyPrepare
<1>1. no \in SUBSET Servers /\ high \in Ballots
  BY DEF TypeOK, Proposer
<1>2. prop' \in [Proposers -> Proposer]
  BY Zenon, <1>1, IdleType, CountedType DEF TypeOK, NotAccepted
<1>3. inst' \in [Servers -> Instance]
  BY <1>1, RaisedType, HomeOfType DEF TypeOK, NotAccepted
<1> QED
  BY <1>2, <1>3 DEF NotAccepted

LEMMA NextTypeOK == TypeOK /\ [Next]_vars => TypeOK'
<1> SUFFICES ASSUME TypeOK, [Next]_vars PROVE TypeOK'
  OBVIOUS
<1> USE HomeOfType
<1>1. ASSUME NEW s \in Servers, CreateGap(s) PROVE TypeOK'
  BY <1>1, CreatedType, WithFillerType DEF TypeOK, CreateGap, calls, hist
<1>2. ASSUME NEW s \in Servers, Restart(s) PROVE TypeOK'
  BY <1>2, IdleType DEF TypeOK, Restart, NewLife, hist
<1>3. ASSUME NEW c \in Clients, Start(c) PROVE TypeOK'
  BY <1>3, CreatedType, HomeType, WokenType DEF TypeOK, Start, calls, hist, Proposers
<1>4. ASSUME NEW p \in Proposers, FindDecided(p) PROVE TypeOK'
  BY <1>4, IdleType DEF TypeOK, FindDecided, calls, hist
<1>5. ASSUME NEW p \in Proposers, BeginRound(p) PROVE TypeOK'
  <2> DEFINE h == HomeOf(p)
             i == inst[h]
             b == i.prepare + 1
             q == [pc |-> "prepare", prepare |-> b, accept |-> i.accept, value |-> i.value,
                   yes |-> {h}, no |-> {}, replyPrepare |-> 0]
  <2>1. h \in Servers /\ i \in Instance
    BY HomeOfType DEF TypeOK
  <2>2. i.accept \in Ballots /\ i.value \in MaybeValue /\ i.prepare \in Ballots
    BY <2>1 DEF Instance
  <2>3. b \in Ballots /\ 0 \in Ballots
    BY <1>5, <2>2, MaxBallotType DEF BeginRound, Ballots
  <2>4. inst' = [inst EXCEPT ![h].prepare = b] /\ prop' = [prop EXCEPT ![p] = q]
    BY <1>5 DEF BeginRound
  <2>5. /\ prepareArgs' = prepareArgs \cup {[by |-> p, bal |-> b, to |-> t] : t \in Servers \ {h}}
        /\ promises' = promises \cup {[srv |-> h, bal |-> b, by |-> p,
                                       acc |-> i.accept, val |-> i.value]}
    BY <1>5 DEF BeginRound
  <2>6. UNCHANGED <<disk, enable, prepareReply, acceptArgs, acceptReply, decideArgs, decides,
                    votes, proposed>>
    BY <1>5 DEF BeginRound
  <2>7. [i EXCEPT !.prepare = b] \in Instance
    BY <2>1, <2>3 DEF Instance
  <2>8. q \in Proposer
    BY <2>1, <2>2, <2>3 DEF Proposer
  <2> HIDE DEF h, b, q
  <2>9. inst' \in [Servers -> Instance] /\ prop' \in [Proposers -> Proposer]
    BY <2>1, <2>4, <2>7, <2>8 DEF TypeOK
  <2>10. /\ prepareArgs' \subseteq [by : Proposers, bal : Ballots, to : Servers]
         /\ promises' \subseteq [srv : Servers, bal : Ballots, by : Proposers,
                                 acc : Ballots, val : MaybeValue]
    BY <2>1, <2>2, <2>3, <2>5 DEF TypeOK
  <2> QED
    BY <2>6, <2>9, <2>10 DEF TypeOK
<1>6. ASSUME NEW p \in Proposers, NEW t \in Servers, FailPrepare(p, t) PROVE TypeOK'
  BY <1>6, IdleType DEF TypeOK, FailPrepare, Proposer, hist
<1>7. ASSUME NEW p \in Proposers, NEW t \in Servers, FailAccept(p, t) PROVE TypeOK'
  <2>1. Fail \in Ballots
    BY MaxBallotType DEF Fail, Ballots
  <2> QED
    BY <1>7, <2>1, NotAcceptedType DEF TypeOK, FailAccept, hist
<1>8. ASSUME NEW m \in prepareArgs, Prepare(m) PROVE TypeOK'
  <2> DEFINE i == Created(inst[m.to])
  <2>1. m \in [by : Proposers, bal : Ballots, to : Servers] /\ i \in Instance
    BY CreatedType DEF TypeOK
  <2>2. i.accept \in Ballots /\ i.prepare \in Ballots /\ i.value \in MaybeValue
    BY <2>1 DEF Instance
  <2>3. 0 \in Ballots /\ Nil \in MaybeValue
    BY MaxBallotType DEF Ballots, MaybeValue
  <2>4. [i EXCEPT !.prepare = m.bal] \in Instance
    BY Zenon, <2>1, <2>2, InstanceUpdates
  <2>5. inst' = [inst EXCEPT ![m.to] = i]
           \/ inst' = [inst EXCEPT ![m.to] = [i EXCEPT !.prepare = m.bal]]
    BY <1>8 DEF Prepare
  <2>6. inst' \in [Servers -> Instance]
    BY <2>1, <2>4, <2>5 DEF TypeOK
  <2>7. prop' \in [Proposers -> Proposer]
    BY <1>8, <2>1, WithFillerType DEF Prepare
  <2> QED
    BY <1>8, <2>1, <2>2, <2>3, <2>6, <2>7 DEF TypeOK, Prepare
<1>9. ASSUME NEW r \in prepareReply, ReceivePromise(r) PROVE TypeOK'
  BY Zenon, <1>9, HeardType DEF TypeOK, ReceivePromise, PrepareReply, hist
<1>10. ASSUME NEW r \in prepareReply, SendAccept(r) PROVE TypeOK'
  <2> DEFINE p == r.by
             q == Heard(prop[p], r)
             v == ToPropose(p, q)
  <2>1. p \in Proposers /\ q \in Proposer
    BY HeardType DEF TypeOK, PrepareReply
  <2>2. q.prepare \in Ballots /\ v \in MaybeValue /\ HomeOf(p) \in Servers
    BY <2>1, InputOfType DEF Proposer, ToPropose
  <2>3. [inst[HomeOf(p)] EXCEPT !.accept = q.prepare, !.value = v] \in Instance
    BY Zenon, <2>2, InstanceUpdates DEF TypeOK
  <2>4. inst' \in [Servers -> Instance] /\ disk' \in [Servers -> Instance]
    BY Zenon, <1>10, <2>2, <2>3, PersistedType DEF TypeOK, SendAccept
  <2>5. [pc |-> "accept", prepare |-> q.prepare, accept |-> q.prepare, value |-> v,
         yes |-> {HomeOf(p)}, no |-> {}, replyPrepare |-> q.prepare] \in Proposer
    BY Zenon, <2>2 DEF Proposer
  <2>6. prop' \in [Proposers -> Proposer]
    BY Zenon, <1>10, <2>1, <2>5 DEF TypeOK, SendAccept
  <2> QED
    BY <1>10, <2>1, <2>2, <2>4, <2>6 DEF TypeOK, SendAccept, OthersReplies
<1>11. ASSUME NEW r \in prepareReply, LoseRace(r) PROVE TypeOK'
  BY <1>11, IdleType DEF TypeOK, LoseRace, OthersReplies, hist
<1>12. ASSUME NEW r \in prepareReply, LearnDecided(r) PROVE TypeOK'
  BY <1>12, IdleType DEF TypeOK, LearnDecided, OthersReplies, hist
<1>13. ASSUME NEW r \in prepareReply, ReceiveLow(r) PROVE TypeOK'
  BY Zenon, <1>13, IdleType, RaisedType DEF TypeOK, ReceiveLow, OthersReplies, hist
<1>14. ASSUME NEW m \in acceptArgs, Accept(m) PROVE TypeOK'
  <2> DEFINE i == Created(inst[m.to])
  <2>1. m \in [by : Proposers, bal : Ballots, to : Servers, val : MaybeValue] /\ i \in Instance
    BY CreatedType DEF TypeOK
  <2>2. i.prepare \in Ballots
    BY <2>1 DEF Instance
  <2> DEFINE ni == [i EXCEPT !.prepare = m.bal, !.accept = m.bal, !.value = m.val]
  <2>3. ni \in Instance
    BY Zenon, <2>1, InstanceUpdates
  <2>a. \/ inst' = [inst EXCEPT ![m.to] = ni] /\ disk' = Persisted(m.to, ni)
        \/ inst' = [inst EXCEPT ![m.to] = i] /\ disk' = disk
    BY <1>14 DEF Accept
  <2>4. inst' \in [Servers -> Instance] /\ disk' \in [Servers -> Instance]
    <3> HIDE DEF i, ni
    <3>1. Persisted(m.to, ni) \in [Servers -> Instance]
      BY <2>1, <2>3, PersistedType
    <3> QED
      BY <2>1, <2>3, <2>a, <3>1 DEF TypeOK
  <2>5. prop' \in [Proposers -> Proposer]
    BY <1>14, <2>1, WithFillerType DEF TypeOK, Accept
  <2> QED
    BY <1>14, <2>1, <2>2, <2>4, <2>5 DEF TypeOK, Accept, Refusal
<1>15. ASSUME NEW r \in acceptReply, ReceiveAccepted(r) PROVE TypeOK'
  <2>1. r.by \in Proposers /\ r.from \in Servers
    BY DEF TypeOK
  <2>2. prop[r.by].yes \cup {r.from} \in SUBSET Servers
    BY <2>1 DEF TypeOK, Proposer
  <2>3. prop' \in [Proposers -> Proposer]
    BY Zenon, <1>15, <2>1, <2>2, CountedType, MaxBallotType DEF TypeOK, ReceiveAccepted, Ballots
  <2> QED
    BY <1>15, <2>3 DEF TypeOK, ReceiveAccepted, hist
<1>16. ASSUME NEW r \in acceptReply, SendDecide(r) PROVE TypeOK'
  BY <1>16, IdleType DEF TypeOK, SendDecide, Proposer, OthersReplies, hist
<1>17. ASSUME NEW r \in acceptReply, ReceiveRefused(r) PROVE TypeOK'
  <2>1. r.by \in Proposers /\ r.from \in Servers /\ r.reply \in Ballots
    BY <1>17 DEF TypeOK, ReceiveRefused
  <2> QED
    BY <1>17, <2>1, NotAcceptedType DEF TypeOK, ReceiveRefused, hist
<1>18. ASSUME NEW m \in decideArgs, Decide(m) PROVE TypeOK'
  BY <1>18, CreatedType DEF TypeOK, Decide, hist
<1>19. ASSUME NEW d \in decides, Learn(d) PROVE TypeOK'
  <2> DEFINE v == IF d.val # Nil THEN d.val ELSE inst[d.srv].value
             i == [inst[d.srv] EXCEPT !.status = "Decided", !.value = v]
  <2>1. d.srv \in Servers /\ v \in MaybeValue
    BY DEF TypeOK, Instance
  <2>2. i \in Instance
    <3>1. inst[d.srv] \in Instance /\ 0 \in Ballots
      BY <2>1, MaxBallotType DEF TypeOK, Ballots
    <3> HIDE DEF v
    <3> QED
      BY Zenon, <2>1, <3>1, InstanceUpdates
  <2>a. \/ inst' = [inst EXCEPT ![d.srv] = i] /\ disk' = Persisted(d.srv, i)
        \/ inst' = inst /\ disk' = disk
    BY <1>19 DEF Learn
  <2>3. inst' \in [Servers -> Instance] /\ disk' \in [Servers -> Instance]
    <3> HIDE DEF i
    <3>1. Persisted(d.srv, i) \in [Servers -> Instance]
      BY <2>1, <2>2, PersistedType
    <3> QED
      BY <2>1, <2>2, <2>a, <3>1 DEF TypeOK
  <2> QED
    BY <1>19, <2>3 DEF TypeOK, Learn, calls, hist
<1>20. CASE UNCHANGED vars
  BY <1>20 DEF TypeOK, vars, calls, hist
<1> QED
  BY Zenon, <1>1, <1>2, <1>3, <1>4, <1>5, <1>6, <1>7, <1>8, <1>9, <1>10, <1>11, <1>12, <1>13,
     <1>14, <1>15, <1>16, <1>17, <1>18, <1>19, <1>20, RestartingType DEF Next

\* The type invariant of the Paxos instance: the handlers, the proposers and
\* the persister keep every variable in its type.
THEOREM TypeCorrect == Spec => []TypeOK
BY InitTypeOK, NextTypeOK, PTL DEF Spec

(***************************************************************************)
(* The inductive invariant                                                 *)
(***************************************************************************)
Voted(s, b, v) == [srv |-> s, bal |-> b, val |-> v] \in votes

Promised(s, b, p) == \E m \in promises : m.srv = s /\ m.bal = b /\ m.by = p

\* s has not voted in ballot b and never will: it promised a higher one.
WontVote(s, b) ==
    /\ \A v \in MaybeValue : ~ Voted(s, b, v)
    /\ inst[s].prepare > b

\* No real value but v has been or can be chosen in a ballot below b.
SafeAt(b, v) ==
    \A c \in Ballots : 1 <= c /\ c < b =>
        \E Q \in SUBSET Servers :
            Majority(Q) /\ \A s \in Q : Voted(s, c, v) \/ Voted(s, c, Nil) \/ WontVote(s, c)

\* Proposal numbers start at 1 and never run ahead of inst.prepare.
BallotInv ==
    /\ \A s \in Servers : inst[s].accept <= inst[s].prepare
    /\ \A m \in promises : 1 <= m.bal /\ m.bal <= inst[m.srv].prepare /\ m.acc < m.bal
    /\ \A v \in votes : 1 <= v.bal /\ v.bal <= inst[v.srv].accept
    /\ \A m \in proposed : 1 <= m.bal /\ m.bal <= inst[HomeOf(m.by)].prepare
    /\ \A p \in Proposers : prop[p].pc \in {"prepare", "accept"} =>
          1 <= prop[p].prepare /\ prop[p].prepare <= inst[HomeOf(p)].prepare
    /\ \A m \in prepareArgs : 1 <= m.bal
    /\ \A m \in acceptArgs : 1 <= m.bal

\* A server promises each number once, to one proposer, and reports the last
\* value it accepted.
PromiseInv ==
    /\ \A m, n \in promises : m.srv = n.srv /\ m.bal = n.bal => m = n
    /\ \A m \in promises :
          /\ (m.acc = 0 /\ m.val = Nil) \/ Voted(m.srv, m.acc, m.val)
          /\ \A v \in votes : v.srv = m.srv /\ v.bal < m.bal => v.bal <= m.acc

\* accept and value of an undecided instance are its last acceptance.
AcceptedInv ==
    \A s \in Servers : inst[s].status # "Decided" =>
        (inst[s].accept = 0 /\ inst[s].value = Nil) \/ Voted(s, inst[s].accept, inst[s].value)

\* The votes a proposer counted are promises it got, and the value it holds
\* is the one accepted with the highest number among them.
PrepareInv ==
    /\ \A r \in prepareReply : r.code = "Ok" =>
          [srv |-> r.from, bal |-> r.bal, by |-> r.by, acc |-> r.acpr, val |-> r.val] \in promises
    /\ \A p \in Proposers : prop[p].pc = "prepare" =>
          /\ \A t \in prop[p].yes : \E m \in promises :
                m.srv = t /\ m.bal = prop[p].prepare /\ m.by = p /\ m.acc <= prop[p].accept
          /\ prop[p].accept < prop[p].prepare
          /\ \/ prop[p].accept = 0 /\ prop[p].value = Nil
             \/ \E s \in Servers : Voted(s, prop[p].accept, prop[p].value)
          /\ \A m \in proposed : m.by = p => m.bal # prop[p].prepare

\* A proposal was promised by a majority, is alone in its ballot, and is safe.
ProposalInv ==
    /\ \A m \in proposed : \E Q \in SUBSET Servers :
          Majority(Q) /\ \A t \in Q : Promised(t, m.bal, m.by)
    /\ OneProposalPerBallot
    /\ \A m \in proposed : SafeAt(m.bal, m.val)

\* Everything accepted was proposed; the votes a proposer counted were cast.
VoteInv ==
    /\ \A v \in votes : \E m \in proposed : m.bal = v.bal /\ m.val = v.val
    /\ \A m \in acceptArgs : [bal |-> m.bal, val |-> m.val, by |-> m.by] \in proposed
    /\ \A r \in acceptReply : r.reply = Ok => \E v \in votes : v.srv = r.from /\ v.bal = r.bal
    /\ \A p \in Proposers : prop[p].pc = "accept" =>
          /\ [bal |-> prop[p].prepare, val |-> prop[p].value, by |-> p] \in proposed
          /\ \A t \in prop[p].yes : Voted(t, prop[p].prepare, prop[p].value)

\* Every decision that is announced, in flight or taken was chosen.
DecisionInv ==
    NilFree =>
        /\ \A r \in prepareReply : r.code = "HasDecided" => Chosen(r.val)
        /\ \A m \in decideArgs : Chosen(m.val)
        /\ \A d \in decides : Chosen(d.val)
        /\ DecidedWasChosen

IInv ==
    /\ TypeOK
    /\ BallotInv
    /\ PromiseInv
    /\ AcceptedInv
    /\ PrepareInv
    /\ ProposalInv
    /\ VoteInv
    /\ DecisionInv

(***************************************************************************)
(* Majorities                                                              *)
(***************************************************************************)
LEMMA QuorumsMeet ==
    \A Q, R \in SUBSET Servers : Majority(Q) /\ Majority(R) => \E s \in Servers : s \in Q /\ s \in R
<1> SUFFICES ASSUME NEW Q \in SUBSET Servers, NEW R \in SUBSET Servers, Majority(Q), Majority(R)
             PROVE  Q \cap R # {}
  OBVIOUS
<1>1. Cardinality(Q) \in Nat /\ Cardinality(R) \in Nat /\ Cardinality(Servers) \in Nat
  BY ServersFinite, FS_Subset, FS_CardinalityType
<1>2. Cardinality(Q) + Cardinality(R) > Cardinality(Servers)
  BY <1>1 DEF Majority
<1> QED
  BY <1>2, ServersFinite, FS_MajoritiesIntersect

LEMMA MajorityGrows ==
    \A Q, R \in SUBSET Servers : Q \subseteq R /\ Majority(Q) => Majority(R)
<1> TAKE Q, R \in SUBSET Servers
<1> HAVE Q \subseteq R /\ Majority(Q)
<1>1. Cardinality(Q) \in Nat /\ Cardinality(R) \in Nat /\ Cardinality(Servers) \in Nat
  BY ServersFinite, FS_Subset, FS_CardinalityType
<1>2. Cardinality(Q) <= Cardinality(R)
  BY ServersFinite, FS_Subset
<1> QED
  BY <1>1, <1>2 DEF Majority

(***************************************************************************)
(* What no step undoes                                                     *)
(***************************************************************************)

\* Histories and promised numbers only grow; a new acceptance respects the
\* promises of the server that makes it.
Grows ==
    /\ promises \subseteq promises' /\ votes \subseteq votes' /\ proposed \subseteq proposed'
    /\ \A s \in Servers : inst[s].prepare <= inst'[s].prepare
    /\ \A v \in votes' : v \in votes \/ inst[v.srv].prepare <= v.bal

LEMMA SafeAtStable ==
    ASSUME TypeOK, TypeOK', Grows, NEW b \in Ballots, NEW v \in MaybeValue, SafeAt(b, v)
    PROVE  SafeAt(b, v)'
<1>1. \A s \in Servers, c \in Ballots, w \in MaybeValue : Voted(s, c, w) => Voted(s, c, w)'
  BY DEF Voted, Grows
<1>2. ASSUME NEW s \in Servers, NEW c \in Ballots, WontVote(s, c) PROVE WontVote(s, c)'
  <2>1. inst[s].prepare \in Int /\ inst'[s].prepare \in Int /\ c \in Int
    BY MaxBallotType DEF TypeOK, Instance, Ballots
  <2>2. ASSUME NEW w \in MaybeValue, Voted(s, c, w)' PROVE FALSE
    <3> DEFINE x == [srv |-> s, bal |-> c, val |-> w]
    <3>1. x \in votes' /\ x \notin votes
      BY <1>2, <2>2 DEF Voted, WontVote
    <3>2. inst[s].prepare <= c
      BY <3>1 DEF Grows
    <3> QED
      BY <1>2, <2>1, <3>2 DEF WontVote
  <2> QED
    BY <1>2, <2>1, <2>2 DEF WontVote, Grows
<1> QED
  BY <1>1, <1>2 DEF SafeAt, MaybeValue

LEMMA ChosenStable ==
    ASSUME Grows, NEW v, Chosen(v)
    PROVE  Chosen(v)'
<1>1. PICK b \in Ballots : ChosenAt(b, v)
  BY DEF Chosen
<1> DEFINE Q == {s \in Servers : [srv |-> s, bal |-> b, val |-> v] \in votes}
           R == {s \in Servers : [srv |-> s, bal |-> b, val |-> v] \in votes'}
<1>2. Q \subseteq R
  BY DEF Grows
<1>3. Majority(R)
  BY Zenon, <1>1, <1>2, MajorityGrows DEF ChosenAt
<1> QED
  BY Zenon, <1>3 DEF Chosen, ChosenAt, Majority

(***************************************************************************)
(* Steps that add nothing to a round: they only end rounds, raise a        *)
(* number, create an instance, refuse a request, lose messages or pass on  *)
(* a decision                                                              *)
(***************************************************************************)
SameRound(p) ==
    \/ prop'[p].pc \notin {"prepare", "accept"}
    \/ /\ prop'[p].pc = prop[p].pc /\ prop'[p].prepare = prop[p].prepare
       /\ prop'[p].accept = prop[p].accept /\ prop'[p].value = prop[p].value
       /\ prop'[p].yes = prop[p].yes

SameInst(s) ==
    /\ inst'[s].accept = inst[s].accept /\ inst'[s].value = inst[s].value
    /\ inst[s].prepare <= inst'[s].prepare
    /\ inst'[s].status = "Decided" <=> inst[s].status = "Decided"

Frame ==
    /\ UNCHANGED hist
    /\ \A p \in Proposers : SameRound(p)
    /\ \A s \in Servers : SameInst(s)
    /\ prepareArgs' \subseteq prepareArgs /\ acceptArgs' \subseteq acceptArgs
    /\ \A r \in prepareReply' :
          \/ r \in prepareReply
          \/ r.code # "Ok" /\ (NilFree /\ r.code = "HasDecided" => Chosen(r.val))
    /\ \A r \in acceptReply' : r \in acceptReply \/ r.reply # Ok
    /\ NilFree => /\ \A m \in decideArgs' : m \in decideArgs \/ Chosen(m.val)
                  /\ \A d \in decides' : d \in decides \/ Chosen(d.val)

LEMMA ProposalKept ==
    ASSUME TypeOK, TypeOK', Grows, ProposalInv, proposed' = proposed
    PROVE  ProposalInv'
<1>1. \A m \in proposed : m.bal \in Ballots /\ m.val \in MaybeValue
  BY DEF TypeOK
<1>2. \A m \in proposed' : SafeAt(m.bal, m.val)'
  BY <1>1, SafeAtStable DEF ProposalInv
<1>3. \A m \in proposed' : \E Q \in SUBSET Servers :
         Majority(Q) /\ \A t \in Q : Promised(t, m.bal, m.by)'
  BY DEF ProposalInv, Promised, Grows
<1> QED
  BY <1>2, <1>3 DEF ProposalInv, OneProposalPerBallot, Majority

LEMMA DecisionKept ==
    ASSUME Grows, DecisionInv,
           NilFree' =>
             /\ \A r \in prepareReply' : r.code = "HasDecided" => r \in prepareReply \/ Chosen(r.val)
             /\ \A m \in decideArgs' : m \in decideArgs \/ Chosen(m.val)
             /\ \A d \in decides' : d \in decides \/ Chosen(d.val)
             /\ \A s \in Servers : inst'[s].status = "Decided" =>
                   \/ inst[s].status = "Decided" /\ inst'[s].value = inst[s].value
                   \/ Chosen(inst'[s].value)
    PROVE  DecisionInv'
<1>1. NilFree' => NilFree
  BY DEF NilFree, Grows
<1>2. \A v : Chosen(v) => Chosen(v)'
  BY ChosenStable
<1> QED
  BY <1>1, <1>2 DEF DecisionInv, DecidedWasChosen

LEMMA FrameKeepsIInv == ASSUME IInv, TypeOK', Frame PROVE IInv'
<1>1. /\ promises' = promises /\ votes' = votes /\ proposed' = proposed
      /\ \A s \in Servers : SameInst(s)
      /\ \A p \in Proposers : SameRound(p)
  BY Zenon DEF Frame, hist
<1>2. /\ \A s \in Servers : /\ inst[s].prepare \in Int /\ inst'[s].prepare \in Int
                            /\ inst[s].accept \in Int
      /\ \A p \in Proposers : prop[p].prepare \in Int /\ HomeOf(p) \in Servers
      /\ \A m \in promises : m.bal \in Int /\ m.srv \in Servers
      /\ \A v \in votes : v.bal \in Int /\ v.srv \in Servers
      /\ \A m \in proposed : m.bal \in Ballots /\ m.val \in MaybeValue /\ m.by \in Proposers
      /\ Ballots \subseteq Int
  BY HomeOfType, MaxBallotType DEF IInv, TypeOK, Instance, Proposer, Ballots
<1>3. Grows
  BY Zenon, <1>1 DEF Grows, SameInst
<1>4. BallotInv'
  <2>1. BallotInv
    BY Zenon DEF IInv
  <2>2. /\ \A s \in Servers : inst'[s].accept <= inst'[s].prepare
        /\ \A m \in promises' : 1 <= m.bal /\ m.bal <= inst'[m.srv].prepare /\ m.acc < m.bal
        /\ \A v \in votes' : 1 <= v.bal /\ v.bal <= inst'[v.srv].accept
    BY <1>1, <1>2, <2>1 DEF BallotInv, SameInst
  <2>3. ASSUME NEW m \in proposed' PROVE 1 <= m.bal /\ m.bal <= inst'[HomeOf(m.by)].prepare
    <3>1. m \in proposed /\ m.bal \in Int /\ m.by \in Proposers
      BY Zenon, <1>1, <1>2
    <3>2. HomeOf(m.by) \in Servers
      BY <3>1, HomeOfType
    <3>3. 1 <= m.bal /\ m.bal <= inst[HomeOf(m.by)].prepare
      BY <2>1, <3>1 DEF BallotInv
    <3>4. inst[HomeOf(m.by)].prepare <= inst'[HomeOf(m.by)].prepare
      BY <1>1, <3>2 DEF SameInst
    <3> QED
      BY <1>2, <3>1, <3>2, <3>3, <3>4
  <2>4. ASSUME NEW p \in Proposers, prop'[p].pc \in {"prepare", "accept"}
        PROVE  1 <= prop'[p].prepare /\ prop'[p].prepare <= inst'[HomeOf(p)].prepare
    <3>1. prop'[p].prepare = prop[p].prepare /\ prop[p].pc \in {"prepare", "accept"}
      BY <1>1, <2>4 DEF SameRound
    <3> QED
      BY <1>1, <1>2, <2>1, <3>1 DEF BallotInv, SameInst
  <2>5. (\A m \in prepareArgs' : 1 <= m.bal) /\ (\A m \in acceptArgs' : 1 <= m.bal)
    BY <2>1 DEF BallotInv, Frame
  <2> QED
    BY <2>2, <2>3, <2>4, <2>5 DEF BallotInv, HomeOf
<1>5. PromiseInv'
  BY <1>1 DEF IInv, PromiseInv, Voted
<1>6. AcceptedInv'
  BY Zenon, <1>1 DEF IInv, AcceptedInv, Voted, SameInst
<1>7. PrepareInv'
  <2>1. \A r \in prepareReply' : r.code = "Ok" => r \in prepareReply
    BY DEF Frame
  <2>2. \A p \in Proposers : prop'[p].pc = "prepare" =>
           /\ prop[p].pc = "prepare" /\ prop'[p].prepare = prop[p].prepare
           /\ prop'[p].accept = prop[p].accept /\ prop'[p].value = prop[p].value
           /\ prop'[p].yes = prop[p].yes
    BY <1>1 DEF SameRound
  <2> QED
    BY <1>1, <2>1, <2>2 DEF IInv, PrepareInv, Voted
<1>8. ProposalInv'
  BY Zenon, <1>1, <1>3, ProposalKept DEF IInv
<1>9. VoteInv'
  BY Zenon, <1>1 DEF IInv, VoteInv, Voted, Frame, SameRound
<1>10. DecisionInv'
  <2>1. NilFree' => NilFree
    BY <1>1 DEF NilFree
  <2> QED
    BY <1>1, <1>3, <2>1, DecisionKept DEF IInv, Frame, SameInst
<1> QED
  BY <1>4, <1>5, <1>6, <1>7, <1>8, <1>9, <1>10 DEF IInv

LEMMA RaisedIsSame ==
    ASSUME TypeOK, NEW t \in Servers, NEW n \in Ballots, inst' = Raised(t, n) \/ inst' = inst
    PROVE  \A s \in Servers : SameInst(s)
<1>1. n \in Int /\ \A s \in Servers : inst[s].prepare \in Int
  BY MaxBallotType DEF TypeOK, Instance, Ballots
<1>2. CASE inst' = inst
  BY <1>1, <1>2 DEF SameInst
<1>3. CASE inst' = Raised(t, n)
  <2> SUFFICES ASSUME NEW s \in Servers PROVE SameInst(s)
    OBVIOUS
  <2>1. inst'[s] = IF s = t THEN [inst[t] EXCEPT !.prepare = IF n > @ THEN n ELSE @] ELSE inst[s]
    BY <1>3 DEF Raised, TypeOK
  <2>2. inst[s] \in [prepare : Ballots, accept : Ballots, value : MaybeValue,
                     status : {"Exceeded", "Pending", "Decided"}]
    BY DEF TypeOK, Instance
  <2> QED
    BY <1>1, <2>1, <2>2 DEF SameInst
<1> QED
  BY <1>2, <1>3

LEMMA NotAcceptedIsSame ==
    ASSUME TypeOK, NEW q \in Proposers, NEW t \in Servers, NEW n \in Ballots \cup {Ok},
           NotAccepted(q, t, n)
    PROVE  /\ \A s \in Servers : SameInst(s)
           /\ \A p \in Proposers : SameRound(p)
           /\ acceptReply' \subseteq acceptReply
<1> DEFINE high == IF n > prop[q].replyPrepare THEN n ELSE prop[q].replyPrepare
<1>1. high \in Ballots
  BY MaxBallotType DEF TypeOK, Proposer, Ok, Ballots
<1>2. inst' = Raised(HomeOf(q), high) \/ inst' = inst
  BY DEF NotAccepted
<1> HIDE DEF high
<1>3. \A s \in Servers : SameInst(s)
  BY <1>1, <1>2, HomeOfType, RaisedIsSame
<1>4. \A p \in Proposers : SameRound(p)
  BY DEF TypeOK, NotAccepted, SameRound, Idle, NoProposer, Proposer
<1>5. acceptReply' \subseteq acceptReply
  BY DEF NotAccepted
<1> QED
  BY <1>3, <1>4, <1>5

\* An Ok reply to a proposal is a vote for it.
LEMMA CountedVote ==
    ASSUME IInv, NEW r \in acceptReply, r.reply = Ok, NEW v, NEW p,
           [bal |-> r.bal, val |-> v, by |-> p] \in proposed
    PROVE  [srv |-> r.from, bal |-> r.bal, val |-> v] \in votes
<1>1. PICK w \in votes : w.srv = r.from /\ w.bal = r.bal
  BY DEF IInv, VoteInv
<1>2. PICK m \in proposed : m.bal = w.bal /\ m.val = w.val
  BY Zenon DEF IInv, VoteInv
<1>3. m = [bal |-> r.bal, val |-> v, by |-> p]
  BY Zenon, <1>1, <1>2 DEF IInv, ProposalInv, OneProposalPerBallot
<1>4. w \in [srv : Servers, bal : Ballots, val : MaybeValue]
  BY DEF IInv, TypeOK
<1> QED
  BY Zenon, <1>1, <1>2, <1>3, <1>4

\* A step that leaves the instances alone
LEMMA UnchangedInst ==
    ASSUME TypeOK, inst' = inst
    PROVE  \A s \in Servers : SameInst(s)
<1>1. \A s \in Servers : inst[s].prepare \in Int
  BY MaxBallotType DEF TypeOK, Instance, Ballots
<1> QED
  BY <1>1 DEF SameInst

\* The steps that are frames, one by one
LEMMA FrameSteps ==
    ASSUME IInv, TypeOK'
    PROVE  (\/ \E s \in Servers : CreateGap(s) \/ Restart(s)
            \/ \E c \in Clients : Start(c)
            \/ \E p \in Proposers : FindDecided(p)
            \/ \E p \in Proposers, t \in Servers : FailPrepare(p, t) \/ FailAccept(p, t)
            \/ \E r \in prepareReply : LoseRace(r) \/ LearnDecided(r) \/ ReceiveLow(r)
            \/ \E r \in acceptReply : SendDecide(r) \/ ReceiveRefused(r)
            \/ \E m \in decideArgs : Decide(m)) => Frame
<1> USE HomeOfType
<1>a. TypeOK /\ TypeOK' /\ DecisionInv
  BY Zenon DEF IInv
<1>b. \A s \in Servers : inst[s].prepare \in Int
  BY <1>a, MaxBallotType DEF TypeOK, Instance, Ballots
<1>1. ASSUME NEW s \in Servers, CreateGap(s) PROVE Frame
  BY <1>1, <1>a, <1>b DEF TypeOK, CreateGap, Created, WithFiller, Frame, SameInst, SameRound, Instance, Proposer, Proposers, calls, hist
<1>2. ASSUME NEW s \in Servers, Restart(s) PROVE Frame
  BY <1>2, <1>a, <1>b DEF TypeOK, Restart, NewLife, Idle, NoProposer, Frame, SameInst, SameRound, hist
<1>3. ASSUME NEW c \in Clients, Start(c) PROVE Frame
  BY <1>3, <1>a, <1>b, HomeType DEF TypeOK, Start, Created, Frame, SameInst, SameRound, Instance, Proposer, Proposers, calls, hist
<1>4. ASSUME NEW p \in Proposers, FindDecided(p) PROVE Frame
  BY <1>4, <1>a, <1>b DEF TypeOK, FindDecided, Idle, NoProposer, Frame, SameInst, SameRound, calls, hist
<1>5. ASSUME NEW p \in Proposers, NEW t \in Servers, FailPrepare(p, t) PROVE Frame
  BY <1>5, <1>a, <1>b DEF TypeOK, FailPrepare, Idle, NoProposer, Proposer, Frame, SameInst, SameRound, hist
<1>6. ASSUME NEW p \in Proposers, NEW t \in Servers, FailAccept(p, t) PROVE Frame
  <2>1. Fail \in Ballots \cup {Ok}
    BY MaxBallotType DEF Fail, Ballots
  <2>2. /\ \A s \in Servers : SameInst(s)
        /\ \A q \in Proposers : SameRound(q)
        /\ acceptReply' \subseteq acceptReply
    BY Zenon, <1>6, <1>a, <2>1, NotAcceptedIsSame DEF FailAccept
  <2> QED
    BY <1>6, <2>2 DEF FailAccept, Frame
<1>7. ASSUME NEW r \in prepareReply, LoseRace(r) PROVE Frame
  BY <1>7, <1>a, <1>b DEF TypeOK, LoseRace, OthersReplies, Idle, NoProposer, Frame, SameInst, SameRound, hist
<1>8. ASSUME NEW r \in prepareReply, LearnDecided(r) PROVE Frame
  BY <1>8, <1>a, <1>b DEF DecisionInv, TypeOK, LearnDecided, OthersReplies, Idle, NoProposer, Frame, SameInst, SameRound, hist
<1>9. ASSUME NEW r \in prepareReply, ReceiveLow(r) PROVE Frame
  <2>1. r.by \in Proposers /\ r.acpr \in Ballots
    BY <1>a DEF TypeOK
  <2>2. \A s \in Servers : SameInst(s)
    BY Zenon, <1>9, <1>a, <2>1, RaisedIsSame DEF ReceiveLow
  <2>3. \A q \in Proposers : SameRound(q)
    BY <1>9, <1>a, <2>1 DEF TypeOK, ReceiveLow, Idle, NoProposer, SameRound
  <2> QED
    BY Zenon, <1>9, <2>2, <2>3 DEF ReceiveLow, OthersReplies, Frame
<1>10. ASSUME NEW r \in acceptReply, SendDecide(r) PROVE Frame
  <2> DEFINE p == r.by
             v == prop[p].value
             b == prop[p].prepare
             Q == prop[p].yes \cup {r.from}
             R == {s \in Servers : [srv |-> s, bal |-> b, val |-> v] \in votes}
  <2>0. p \in Proposers /\ r.from \in Servers
    BY Zenon, <1>a DEF TypeOK
  <2>1. /\ p \in Proposers /\ r.from \in Servers /\ Q \in SUBSET Servers
        /\ b \in Ballots /\ r.bal = b /\ r.reply = Ok /\ prop[p].pc = "accept"
        /\ Majority(Q)
    <3>1. prop[p] \in Proposer
      BY <1>a, <2>0 DEF TypeOK
    <3> QED
      BY Zenon, <1>10, <2>0, <3>1 DEF Proposer, SendDecide, InAccept
  <2>2. /\ [bal |-> b, val |-> v, by |-> p] \in proposed
        /\ \A t \in prop[p].yes : [srv |-> t, bal |-> b, val |-> v] \in votes
    BY Zenon, <2>1 DEF IInv, VoteInv, Voted
  <2>3. \A q \in Proposers : SameRound(q)
    BY <1>10, <1>a, <2>1 DEF TypeOK, SendDecide, Idle, NoProposer, SameRound
  <2>4. /\ inst' = inst
        /\ decideArgs' = decideArgs \cup {[to |-> t, val |-> v] : t \in Servers \ {HomeOf(p)}}
        /\ decides' = decides \cup {[srv |-> HomeOf(p), val |-> v]}
    BY Zenon, <1>10 DEF SendDecide
  <2> HIDE DEF p, v, b, Q, R
  <2>5. [srv |-> r.from, bal |-> b, val |-> v] \in votes
    BY Zenon, <2>1, <2>2, CountedVote
  <2>6. Q \subseteq R
    BY Zenon, <2>1, <2>2, <2>5 DEF Q, R
  <2>7. Chosen(v)
    BY Zenon, <2>1, <2>6, MajorityGrows DEF Chosen, ChosenAt, R
  <2>8. \A s \in Servers : SameInst(s)
    BY Zenon, <1>a, <2>4, UnchangedInst
  <2>9. \A m \in decideArgs' : m \in decideArgs \/ m.val = v
    BY <2>4
  <2>10. \A d \in decides' : d \in decides \/ d.val = v
    BY <2>4
  <2>11. /\ \A m \in decideArgs' : m \in decideArgs \/ Chosen(m.val)
         /\ \A d \in decides' : d \in decides \/ Chosen(d.val)
    BY Zenon, <2>7, <2>9, <2>10
  <2> QED
    BY Zenon, <1>10, <2>3, <2>8, <2>11 DEF SendDecide, OthersReplies, Frame
<1>11. ASSUME NEW r \in acceptReply, ReceiveRefused(r) PROVE Frame
  <2>1. r.by \in Proposers /\ r.from \in Servers /\ r.reply \in Ballots \cup {Ok}
    BY <1>a DEF TypeOK
  <2>2. /\ \A s \in Servers : SameInst(s)
        /\ \A q \in Proposers : SameRound(q)
        /\ acceptReply' \subseteq acceptReply
    BY <1>11, <1>a, <2>1, NotAcceptedIsSame DEF ReceiveRefused
  <2> QED
    BY Zenon, <1>11, <2>2 DEF ReceiveRefused, Frame
<1>12. ASSUME NEW m \in decideArgs, Decide(m) PROVE Frame
  <2>1. \A s \in Servers : SameInst(s)
    BY <1>12, <1>a, <1>b DEF TypeOK, Decide, Created, Instance, SameInst
  <2>2. /\ UNCHANGED hist /\ UNCHANGED <<prepareArgs, prepareReply, acceptArgs, acceptReply>>
        /\ prop' = prop /\ decideArgs' \subseteq decideArgs
        /\ decides' \subseteq decides \cup {[srv |-> m.to, val |-> m.val]}
    BY Zenon, <1>12 DEF Decide
  <2>3. NilFree => Chosen(m.val)
    BY Zenon, <1>a, <1>12 DEF DecisionInv
  <2>4. NilFree => \A d \in decides' : d \in decides \/ Chosen(d.val)
    BY <2>2, <2>3
  <2>5. \A p \in Proposers : SameRound(p)
    BY Zenon, <2>2 DEF SameRound
  <2> QED
    BY Zenon, <2>1, <2>2, <2>4, <2>5 DEF Frame
<1> QED
  BY Zenon, <1>1, <1>2, <1>3, <1>4, <1>5, <1>6, <1>7, <1>8, <1>9, <1>10, <1>11, <1>12
=============================================================================
