----------------------------- MODULE PaxosVotes -----------------------------
(***************************************************************************)
(* The second phase of a round keeps the inductive invariant IInv of       *)
(* PaxosProofs: votes, decisions, and new proposals.                       *)
(***************************************************************************)
EXTENDS PaxosRounds

(***************************************************************************)
(* Votes and decisions                                                     *)
(***************************************************************************)
LEMMA AcceptRefused ==
    ASSUME IInv, TypeOK', NEW m \in acceptArgs, Accept(m),
           Created(inst[m.to]).status = "Decided" \/ m.bal < Created(inst[m.to]).prepare
    PROVE  Frame
<1> DEFINE s == m.to
           i == Created(inst[s])
<1>1. /\ TypeOK /\ s \in Servers /\ m.bal \in Int /\ inst[s] \in Instance
      /\ i.prepare \in Int /\ i.prepare # Ok
  BY CreatedIsSame, Numbers, MaxBallotType DEF IInv, TypeOK, Instance, Ballots, Ok
<1>2. /\ inst' = [inst EXCEPT ![s] = i] /\ votes' = votes
      /\ \A r \in acceptReply' : r \in acceptReply \/ r.reply # Ok
      /\ acceptArgs' \subseteq acceptArgs
      /\ UNCHANGED <<prepareArgs, prepareReply, decideArgs, decides, promises, proposed>>
  BY <1>1 DEF Accept, Refusal
<1>3. \A t \in Servers : SameInst(t)
  <2> TAKE t \in Servers
  <2>1. inst'[t] = IF t = s THEN i ELSE inst[t]
    BY <1>1, <1>2 DEF TypeOK
  <2>2. inst[t].prepare \in Int
    BY <1>1, Numbers
  <2> QED
    BY <1>1, <2>1, <2>2, CreatedIsSame DEF SameInst
<1>4. \A p \in Proposers : SameRound(p)
  BY <1>1, WithFillerIsSame DEF Accept
<1> HIDE DEF i, s
<1> QED
  BY Zenon, <1>2, <1>3, <1>4 DEF Frame, hist

LEMMA VoteKeepsIInv ==
    ASSUME IInv, TypeOK', NEW m \in acceptArgs, Accept(m),
           Created(inst[m.to]).status # "Decided", m.bal >= Created(inst[m.to]).prepare
    PROVE  IInv'
<1> DEFINE s == m.to
           i == Created(inst[s])
           b == m.bal
           vt == [srv |-> s, bal |-> b, val |-> m.val]
<1>0. TypeOK /\ s \in Servers /\ b \in Int /\ inst[s] \in Instance
  BY Numbers DEF IInv, TypeOK
<1>i. /\ i \in Instance /\ inst[s].prepare <= b /\ inst[s].prepare \in Int
      /\ i.status # "Decided" /\ inst[s].status # "Decided"
  BY Zenon, <1>0, CreatedIsSame, CreatedType, Numbers
<1>1. /\ inst' = [inst EXCEPT ![s] = [i EXCEPT !.prepare = b, !.accept = b, !.value = m.val]]
      /\ votes' = votes \cup {vt}
      /\ \A r \in acceptReply' : r \in acceptReply \/ (r.from = s /\ r.bal = b)
      /\ acceptArgs' \subseteq acceptArgs
      /\ UNCHANGED <<prepareArgs, prepareReply, decideArgs, decides, promises, proposed>>
  <2>1. i.prepare \in Int
    BY <1>0, CreatedIsSame, Numbers
  <2> QED
    BY <1>0, <1>i, <2>1 DEF Accept
<1>2. /\ inst'[s].prepare = b /\ inst'[s].accept = b /\ inst'[s].value = m.val
      /\ inst'[s].status # "Decided"
      /\ \A t \in Servers \ {s} : inst'[t] = inst[t]
  <2>1. /\ inst'[s] = [i EXCEPT !.prepare = b, !.accept = b, !.value = m.val]
        /\ \A t \in Servers \ {s} : inst'[t] = inst[t]
    BY Zenon, <1>0, <1>1 DEF TypeOK
  <2> HIDE DEF i, s
  <2> QED
    BY <1>i, <2>1 DEF Instance
<1>3. \A p \in Proposers : SameRound(p)
  BY <1>0, WithFillerIsSame DEF Accept
<1> HIDE DEF i
<1>n. /\ \A t \in Servers : inst[t].prepare \in Int /\ inst[t].accept \in Int
      /\ \A q \in Proposers : prop[q].prepare \in Int /\ HomeOf(q) \in Servers
      /\ \A n \in promises : n.bal \in Int /\ n.acc \in Int /\ n.srv \in Servers
      /\ \A v \in votes : v.bal \in Int /\ v.srv \in Servers
      /\ \A n \in proposed : n.bal \in Int /\ n.by \in Proposers
  BY <1>0, Numbers, HomeOfType
<1>4. \A t \in Servers : inst[t].prepare <= inst'[t].prepare /\ inst'[t].prepare \in Int
  BY <1>0, <1>2, <1>i, <1>n
<1>5. Grows
  BY <1>1, <1>4, <1>i DEF Grows
<1>6. BallotInv'
  <2>1. BallotInv
    BY DEF IInv
  <2>2. \A t \in Servers : /\ inst'[t].accept <= inst'[t].prepare
                           /\ inst[t].accept <= inst'[t].accept /\ inst'[t].accept \in Int
    BY <1>0, <1>2, <1>i, <1>n, <2>1 DEF BallotInv
  <2>3. 1 <= b
    BY <2>1 DEF BallotInv
  <2>4. \A n \in promises' : 1 <= n.bal /\ n.bal <= inst'[n.srv].prepare /\ n.acc < n.bal
    BY <1>1, <1>4, <1>n, <2>1 DEF BallotInv
  <2>5. \A v \in votes' : 1 <= v.bal /\ v.bal <= inst'[v.srv].accept
    BY <1>0, <1>1, <1>2, <1>n, <2>1, <2>2, <2>3 DEF BallotInv
  <2>6. \A n \in proposed' : 1 <= n.bal /\ n.bal <= inst'[HomeOf(n.by)].prepare
    BY <1>1, <1>4, <1>n, <2>1 DEF BallotInv
  <2>7. \A q \in Proposers : prop'[q].pc \in {"prepare", "accept"} =>
           1 <= prop'[q].prepare /\ prop'[q].prepare <= inst'[HomeOf(q)].prepare
    BY <1>3, <1>4, <1>n, <2>1 DEF BallotInv, SameRound
  <2>8. (\A n \in prepareArgs' : 1 <= n.bal) /\ (\A n \in acceptArgs' : 1 <= n.bal)
    BY <1>1, <2>1 DEF BallotInv
  <2> QED
    BY Zenon, <2>2, <2>4, <2>5, <2>6, <2>7, <2>8 DEF BallotInv, HomeOf
<1>7. PromiseInv'
  <2>1. PromiseInv /\ BallotInv
    BY DEF IInv
  <2>2. \A n \in promises : n.srv = s => ~ (b < n.bal)
    BY <1>0, <1>i, <1>n, <2>1 DEF BallotInv
  <2> QED
    BY <1>1, <2>1, <2>2 DEF PromiseInv, Voted
<1>8. AcceptedInv'
  BY <1>0, <1>1, <1>2 DEF IInv, AcceptedInv, Voted
<1>9. PrepareInv'
  <2>1. PrepareInv /\ votes \subseteq votes'
    BY <1>1 DEF IInv
  <2>2. \A q \in Proposers : prop'[q].pc = "prepare" =>
           /\ prop[q].pc = "prepare" /\ prop'[q].prepare = prop[q].prepare
           /\ prop'[q].accept = prop[q].accept /\ prop'[q].value = prop[q].value
           /\ prop'[q].yes = prop[q].yes
    BY <1>3 DEF SameRound
  <2>3. prepareReply' = prepareReply /\ promises' = promises /\ proposed' = proposed
    BY <1>1
  <2>4. ASSUME NEW q \in Proposers, prop'[q].pc = "prepare"
        PROVE  \/ prop'[q].accept = 0 /\ prop'[q].value = Nil
               \/ \E t \in Servers :
                    [srv |-> t, bal |-> prop'[q].accept, val |-> prop'[q].value] \in votes'
    BY <2>1, <2>2, <2>4 DEF PrepareInv, Voted
  <2> QED
    BY <2>1, <2>2, <2>3, <2>4 DEF PrepareInv, Voted
<1>10. ProposalInv'
  BY Zenon, <1>0, <1>1, <1>5, ProposalKept DEF IInv
<1>11. VoteInv'
  <2>1. VoteInv /\ [bal |-> b, val |-> m.val, by |-> m.by] \in proposed
    BY DEF IInv, VoteInv
  <2>2. \A v \in votes' : \E n \in proposed : n.bal = v.bal /\ n.val = v.val
    BY <1>1, <2>1 DEF VoteInv
  <2>3. \A r \in acceptReply' : r.reply = Ok => \E v \in votes' : v.srv = r.from /\ v.bal = r.bal
    <3>1. vt \in votes' /\ vt.srv = s /\ vt.bal = b /\ votes \subseteq votes'
      BY <1>1
    <3>2. \A r \in acceptReply : r.reply = Ok => \E v \in votes : v.srv = r.from /\ v.bal = r.bal
      BY <2>1 DEF VoteInv
    <3> HIDE DEF vt, s, b
    <3> QED
      BY <1>1, <3>1, <3>2
  <2>4. \A q \in Proposers : prop'[q].pc = "accept" =>
           /\ prop[q].pc = "accept" /\ prop'[q].prepare = prop[q].prepare
           /\ prop'[q].value = prop[q].value /\ prop'[q].yes = prop[q].yes
    BY <1>3 DEF SameRound
  <2>5. votes \subseteq votes'
    BY <1>1
  <2> HIDE DEF vt
  <2> QED
    BY Zenon, <1>1, <2>1, <2>2, <2>3, <2>4, <2>5 DEF VoteInv, Voted
<1>12. DecisionInv'
  BY Zenon, <1>1, <1>2, <1>5, DecisionKept DEF IInv
<1> QED
  BY Zenon, <1>6, <1>7, <1>8, <1>9, <1>10, <1>11, <1>12 DEF IInv

\* A chosen value was proposed, so it is not nil when nobody proposed nil.
LEMMA ChosenWasProposed ==
    ASSUME IInv, NEW v, Chosen(v)
    PROVE  \E m \in proposed : m.val = v
<1>1. PICK b \in Ballots : ChosenAt(b, v)
  BY DEF Chosen
<1> DEFINE Q == {s \in Servers : [srv |-> s, bal |-> b, val |-> v] \in votes}
<1>2. \E s \in Servers : s \in Q
  <2>1. Q \in SUBSET Servers /\ Majority(Q)
    BY <1>1 DEF ChosenAt
  <2> HIDE DEF Q
  <2> QED
    BY <2>1, QuorumsMeet
<1> QED
  BY <1>2 DEF IInv, VoteInv

LEMMA LearnKeepsIInv ==
    ASSUME IInv, TypeOK', NEW d \in decides, Learn(d)
    PROVE  IInv'
<1> DEFINE s == d.srv
           v == IF d.val # Nil THEN d.val ELSE inst[s].value
<1>1. TypeOK /\ s \in Servers /\ inst[s] \in Instance
  BY DEF IInv, TypeOK
<1>2. CASE inst' = inst
  <2>1. \A t \in Servers : SameInst(t)
    BY <1>1, <1>2, Numbers DEF SameInst
  <2>2. Frame
    BY <2>1 DEF Learn, Frame, SameRound, calls, hist
  <2> QED
    BY <2>2, FrameKeepsIInv
<1>3. CASE inst[s].status # "Decided"
  <2>1. inst' = [inst EXCEPT ![s] = [inst[s] EXCEPT !.status = "Decided", !.value = v]]
    BY <1>3 DEF Learn
  <2>2. /\ inst'[s].status = "Decided" /\ inst'[s].value = v
        /\ \A t \in Servers : inst'[t].prepare = inst[t].prepare /\ inst'[t].accept = inst[t].accept
        /\ \A t \in Servers \ {s} : inst'[t] = inst[t]
    <3>1. /\ inst'[s] = [inst[s] EXCEPT !.status = "Decided", !.value = v]
          /\ \A t \in Servers \ {s} : inst'[t] = inst[t]
      BY Zenon, <1>1, <2>1 DEF TypeOK
    <3> HIDE DEF v, s
    <3>2. /\ inst'[s].status = "Decided" /\ inst'[s].value = v
          /\ inst'[s].prepare = inst[s].prepare /\ inst'[s].accept = inst[s].accept
      BY <1>1, <3>1 DEF Instance
    <3> QED
      BY Zenon, <1>1, <3>1, <3>2
  <2>3. /\ decides' \subseteq decides /\ UNCHANGED <<prop, promises, votes, proposed>>
        /\ UNCHANGED <<prepareArgs, prepareReply, acceptArgs, acceptReply, decideArgs>>
    BY DEF Learn, calls, hist
  <2>n. \A t \in Servers : inst[t].prepare \in Int
    BY <1>1, Numbers
  <2>4. Grows
    BY <2>2, <2>3, <2>n DEF Grows
  <2>5. BallotInv'
    <3>1. BallotInv /\ \A p \in Proposers : HomeOf(p) \in Servers
      BY HomeOfType DEF IInv
    <3>2. /\ \A m \in promises : m.srv \in Servers
          /\ \A w \in votes : w.srv \in Servers
          /\ \A m \in proposed : m.by \in Proposers
      BY <1>1, Numbers
    <3> QED
      BY <2>2, <2>3, <3>1, <3>2 DEF BallotInv, HomeOf
  <2>6. PromiseInv' /\ AcceptedInv' /\ PrepareInv' /\ VoteInv'
    <3> HIDE DEF v
    <3>1. PromiseInv'
      BY <2>3 DEF IInv, PromiseInv, Voted
    <3>2. AcceptedInv'
      BY Zenon, <2>2, <2>3 DEF IInv, AcceptedInv, Voted
    <3>3. PrepareInv'
      BY Zenon, <2>3 DEF IInv, PrepareInv, Voted
    <3>4. VoteInv'
      BY <2>3 DEF IInv, VoteInv, Voted
    <3> QED
      BY Zenon, <3>1, <3>2, <3>3, <3>4
  <2>7. ProposalInv'
    BY Zenon, <1>1, <2>3, <2>4, ProposalKept DEF IInv
  <2>8. NilFree => Chosen(v)
    <3>1. NilFree => Chosen(d.val)
      BY DEF IInv, DecisionInv
    <3>2. NilFree => d.val # Nil
      BY Zenon, <3>1, ChosenWasProposed DEF NilFree
    <3> QED
      BY <3>1, <3>2
  <2>9. DecisionInv'
    <3>1. NilFree' => NilFree
      BY <2>3 DEF NilFree
    <3> HIDE DEF v
    <3> QED
      BY Zenon, <2>2, <2>3, <2>4, <2>8, <3>1, DecisionKept DEF IInv
  <2> QED
    BY <2>5, <2>6, <2>7, <2>9 DEF IInv
<1> QED
  BY Zenon, <1>2, <1>3 DEF Learn

(***************************************************************************)
(* A new proposal                                                          *)
(***************************************************************************)

\* A value is safe after a majority of promises if it is the last accepted
\* one that they report, or if they report none or nil.
LEMMA HeardIsSafe ==
    ASSUME IInv, NEW b \in Ballots, NEW a \in Ballots, NEW u \in MaybeValue, NEW v \in MaybeValue,
           NEW Q \in SUBSET Servers, Majority(Q), a < b,
           \A t \in Q : \E m \in promises : m.srv = t /\ m.bal = b /\ m.acc <= a,
           a = 0 \/ \E s \in Servers : Voted(s, a, u),
           u = v \/ u = Nil
    PROVE  SafeAt(b, v)
<1> SUFFICES ASSUME NEW c \in Ballots, 1 <= c, c < b
             PROVE  \E R \in SUBSET Servers :
                        /\ Majority(R)
                        /\ \A s \in R : Voted(s, c, v) \/ Voted(s, c, Nil) \/ WontVote(s, c)
  BY DEF SafeAt
<1>n. /\ a \in Int /\ b \in Int /\ c \in Int
      /\ \A s \in Servers : inst[s].prepare \in Int
      /\ \A m \in promises : m.bal \in Int /\ m.acc \in Int /\ m.srv \in Servers
      /\ \A x \in votes : x.bal \in Int /\ x.srv \in Servers
  BY Numbers DEF IInv
<1>1. \A t \in Q : inst[t].prepare > c
  BY <1>n DEF IInv, BallotInv
<1>2. \A t \in Q : \A x \in votes : x.srv = t /\ x.bal < b => x.bal <= a
  <2> SUFFICES ASSUME NEW t \in Q, NEW x \in votes, x.srv = t, x.bal < b PROVE x.bal <= a
    OBVIOUS
  <2>1. PICK m \in promises : m.srv = t /\ m.bal = b /\ m.acc <= a
    OBVIOUS
  <2>2. x.bal <= m.acc
    BY <2>1 DEF IInv, PromiseInv
  <2> QED
    BY <1>n, <2>1, <2>2
<1>3. CASE a < c
  <2>1. ASSUME NEW t \in Q PROVE WontVote(t, c)
    <3>1. \A w \in MaybeValue : ~ Voted(t, c, w)
      BY <1>2, <1>3, <1>n DEF Voted
    <3> QED
      BY Zenon, <1>1, <3>1 DEF WontVote
  <2> QED
    BY <2>1
<1>4. CASE c <= a
  <2>1. PICK s \in Servers : Voted(s, a, u)
    BY <1>4, <1>n
  <2>2. PICK m \in proposed : m.bal = a /\ m.val = u
    BY <2>1 DEF IInv, VoteInv, Voted
  <2>3. CASE c < a
    <3>1. SafeAt(a, u)
      BY <2>2 DEF IInv, ProposalInv
    <3>2. PICK R \in SUBSET Servers :
             Majority(R) /\ \A t \in R : Voted(t, c, u) \/ Voted(t, c, Nil) \/ WontVote(t, c)
      BY <2>3, <3>1 DEF SafeAt
    <3> QED
      BY <3>2
  <2>4. CASE c = a
    <3>1. ASSUME NEW t \in Q, NEW w \in MaybeValue, Voted(t, c, w) PROVE w = u
      <4>1. PICK k \in proposed : k.bal = c /\ k.val = w
        BY <3>1 DEF IInv, VoteInv, Voted
      <4>2. k = m
        BY Zenon, <2>2, <2>4, <4>1 DEF IInv, ProposalInv, OneProposalPerBallot
      <4> QED
        BY Zenon, <2>2, <4>1, <4>2
    <3>2. ASSUME NEW t \in Q PROVE Voted(t, c, u) \/ WontVote(t, c)
      BY <1>1, <3>1 DEF WontVote
    <3> QED
      BY <3>2
  <2> QED
    BY <1>4, <1>n, <2>3, <2>4
<1> QED
  BY <1>3, <1>4, <1>n

\* No other proposer, and this one no second time, got a majority of promises
\* for the same number.
LEMMA NewProposal ==
    ASSUME IInv, NEW p \in Proposers, NEW b \in Ballots, NEW Q \in SUBSET Servers, Majority(Q),
           \A t \in Q : Promised(t, b, p), \A m \in proposed : m.by = p => m.bal # b
    PROVE  \A m \in proposed : m.bal # b
<1> SUFFICES ASSUME NEW m \in proposed, m.bal = b PROVE FALSE
  OBVIOUS
<1>1. PICK R \in SUBSET Servers : Majority(R) /\ \A t \in R : Promised(t, b, m.by)
  BY DEF IInv, ProposalInv
<1>2. PICK t \in Servers : t \in Q /\ t \in R
  BY <1>1, QuorumsMeet
<1>3. Promised(t, b, p) /\ Promised(t, b, m.by)
  BY Zenon, <1>1, <1>2
<1>4. m.by = p
  BY <1>3 DEF Promised, IInv, PromiseInv
<1> QED
  BY <1>4

LEMMA SendAcceptKeepsIInv ==
    ASSUME IInv, TypeOK', NEW r \in prepareReply, SendAccept(r)
    PROVE  IInv'
<1> DEFINE p == r.by
           h == HomeOf(p)
           q == Heard(prop[p], r)
           b == q.prepare
           v == ToPropose(p, q)
           vt == [srv |-> h, bal |-> b, val |-> v]
           pm == [bal |-> b, val |-> v, by |-> p]
<1>1. /\ TypeOK /\ p \in Proposers /\ q \in Proposer /\ Majority(q.yes)
      /\ q.pc = "prepare" /\ b = prop[p].prepare /\ prop[p].pc = "prepare"
      /\ \A t \in q.yes : \E m \in promises :
            m.srv = t /\ m.bal = b /\ m.by = p /\ m.acc <= q.accept
      /\ q.accept < b
      /\ (q.accept = 0 /\ q.value = Nil) \/ \E s \in Servers : Voted(s, q.accept, q.value)
  BY Zenon, HeardKeeps DEF SendAccept, InPrepare, IInv
<1>2. h \in Servers /\ inst[h] \in Instance
  BY Zenon, <1>1, HomeOfType DEF TypeOK
<1>3. /\ b \in Ballots /\ q.accept \in Ballots /\ q.yes \in SUBSET Servers
      /\ q.value \in MaybeValue /\ v \in MaybeValue
  <2>1. InputOf(p) \in MaybeValue
    BY Zenon, <1>1, InputOfType
  <2> HIDE DEF q, p
  <2> QED
    BY Zenon, <1>1, <2>1 DEF Proposer, ToPropose
<1>4. /\ inst[h].status # "Decided" /\ inst[h].prepare = b
      /\ inst' = [inst EXCEPT ![h] = [inst[h] EXCEPT !.accept = b, !.value = v]]
      /\ prop' = [prop EXCEPT ![p] =
                    [pc |-> "accept", prepare |-> b, accept |-> b,
                     value |-> v, yes |-> {h}, no |-> {}, replyPrepare |-> b]]
      /\ prepareReply' \subseteq prepareReply
      /\ \A m \in acceptArgs' : m \in acceptArgs \/ (m.bal = b /\ m.val = v /\ m.by = p)
      /\ votes' = votes \cup {vt}
      /\ proposed' = proposed \cup {pm}
      /\ UNCHANGED <<prepareArgs, acceptReply, decideArgs, decides, promises>>
  BY DEF SendAccept, OthersReplies
<1> HIDE DEF q, b, v, h, p
<1>5. /\ inst'[h].prepare = b /\ inst'[h].accept = b /\ inst'[h].value = v
      /\ inst'[h].status = inst[h].status
      /\ \A t \in Servers \ {h} : inst'[t] = inst[t]
  <2>1. /\ inst'[h] = [inst[h] EXCEPT !.accept = b, !.value = v]
        /\ \A t \in Servers \ {h} : inst'[t] = inst[t]
    BY Zenon, <1>1, <1>2, <1>4 DEF TypeOK
  <2>2. /\ inst'[h].prepare = inst[h].prepare /\ inst'[h].accept = b /\ inst'[h].value = v
        /\ inst'[h].status = inst[h].status
    BY Zenon, <1>2, <2>1 DEF Instance
  <2> QED
    BY Zenon, <1>4, <2>1, <2>2
<1>6. /\ prop'[p].pc = "accept" /\ prop'[p].prepare = b /\ prop'[p].value = v
      /\ prop'[p].yes = {h} /\ \A k \in Proposers \ {p} : prop'[k] = prop[k]
  BY Zenon, <1>1, <1>4 DEF TypeOK
<1>n. /\ b \in Int /\ \A t \in Servers : inst[t].prepare \in Int /\ inst[t].accept \in Int
      /\ \A k \in Proposers : prop[k].prepare \in Int /\ HomeOf(k) \in Servers
      /\ \A n \in promises : n.bal \in Int /\ n.acc \in Int /\ n.srv \in Servers
      /\ \A x \in votes : x.bal \in Int /\ x.srv \in Servers
      /\ \A n \in proposed : n.bal \in Int /\ n.by \in Proposers
  BY Zenon, <1>1, <1>3, Numbers, HomeOfType
<1>7. \A t \in Servers : inst'[t].prepare = inst[t].prepare
  BY <1>4, <1>5
<1>m. /\ vt \in votes' /\ vt.srv = h /\ vt.bal = b /\ vt.val = v
      /\ pm \in proposed' /\ pm.bal = b /\ pm.val = v /\ pm.by = p
      /\ \A x \in votes' : x \in votes \/ x = vt
      /\ \A m \in proposed' : m \in proposed \/ m = pm
      /\ votes \subseteq votes' /\ proposed \subseteq proposed'
  BY <1>4
<1>8. Grows
  BY <1>2, <1>4, <1>7, <1>m, <1>n DEF Grows
<1>9. 1 <= b /\ inst[h].accept <= b
  BY Zenon, <1>1, <1>2, <1>4 DEF IInv, BallotInv
<1>10. BallotInv'
  <2>1. BallotInv
    BY Zenon DEF IInv
  <2>2. \A t \in Servers : /\ inst'[t].accept <= inst'[t].prepare
                           /\ inst[t].accept <= inst'[t].accept /\ inst'[t].accept \in Int
    BY <1>2, <1>5, <1>9, <1>n, <2>1 DEF BallotInv
  <2>3. \A n \in promises' : 1 <= n.bal /\ n.bal <= inst'[n.srv].prepare /\ n.acc < n.bal
    BY Zenon, <1>4, <1>7, <1>n, <2>1 DEF BallotInv
  <2>4. \A x \in votes' : 1 <= x.bal /\ x.bal <= inst'[x.srv].accept
    <3> HIDE DEF vt, pm
    <3>1. 1 <= vt.bal /\ vt.bal <= inst'[vt.srv].accept
      <4>1. b \in Int /\ 1 <= b /\ inst'[h].accept = b /\ vt.srv = h /\ vt.bal = b
        BY Zenon, <1>5, <1>9, <1>m, <1>n
      <4> QED
        BY <4>1
    <3>2. ASSUME NEW x \in votes PROVE 1 <= x.bal /\ x.bal <= inst'[x.srv].accept
      <4>1. /\ x.bal \in Int /\ x.srv \in Servers /\ inst[x.srv].accept \in Int
            /\ 1 <= x.bal /\ x.bal <= inst[x.srv].accept
        BY Zenon, <1>n, <2>1 DEF BallotInv
      <4>2. inst[x.srv].accept <= inst'[x.srv].accept /\ inst'[x.srv].accept \in Int
        BY Zenon, <2>2, <4>1
      <4> QED
        BY <4>1, <4>2
    <3> QED
      BY Zenon, <1>m, <3>1, <3>2
  <2>5. \A n \in proposed' : 1 <= n.bal /\ n.bal <= inst'[HomeOf(n.by)].prepare
    <3> HIDE DEF vt, pm
    <3>1. 1 <= pm.bal /\ pm.bal <= inst'[HomeOf(pm.by)].prepare
      <4>1. /\ b \in Int /\ 1 <= b /\ inst'[h].prepare = b /\ pm.bal = b
            /\ HomeOf(pm.by) = h
        BY Zenon, <1>5, <1>9, <1>m, <1>n DEF h
      <4> QED
        BY <4>1
    <3> QED
      BY Zenon, <1>7, <1>m, <1>n, <2>1, <3>1 DEF BallotInv
  <2>6. \A k \in Proposers : prop'[k].pc \in {"prepare", "accept"} =>
           1 <= prop'[k].prepare /\ prop'[k].prepare <= inst'[HomeOf(k)].prepare
    BY <1>1, <1>5, <1>6, <1>7, <1>9, <1>n, <2>1 DEF BallotInv, h
  <2>7. (\A n \in prepareArgs' : 1 <= n.bal) /\ (\A n \in acceptArgs' : 1 <= n.bal)
    BY Zenon, <1>4, <1>9, <2>1 DEF BallotInv
  <2> QED
    BY Zenon, <2>2, <2>3, <2>4, <2>5, <2>6, <2>7 DEF BallotInv, HomeOf
<1>11. PromiseInv'
  <2>1. PromiseInv /\ BallotInv
    BY DEF IInv
  <2>2. \A n \in promises : n.srv = h => ~ (b < n.bal)
    BY <1>2, <1>4, <1>n, <2>1 DEF BallotInv
  <2> HIDE DEF vt
  <2> QED
    BY <1>4, <1>m, <2>1, <2>2 DEF PromiseInv, Voted
<1>12. AcceptedInv'
  BY <1>2, <1>4, <1>5 DEF IInv, AcceptedInv, Voted
<1>13. PrepareInv'
  <2>1. PrepareInv
    BY DEF IInv
  <2>2. \A k \in Proposers : prop'[k].pc = "prepare" => k # p /\ prop'[k] = prop[k]
    BY <1>6
  <2>3. ASSUME NEW k \in Proposers, prop'[k].pc = "prepare"
        PROVE  \/ prop'[k].accept = 0 /\ prop'[k].value = Nil
               \/ \E t \in Servers :
                    [srv |-> t, bal |-> prop'[k].accept, val |-> prop'[k].value] \in votes'
    <3>1. prop[k].pc = "prepare" /\ prop'[k] = prop[k]
      BY Zenon, <2>2, <2>3
    <3>2. \/ prop[k].accept = 0 /\ prop[k].value = Nil
          \/ \E t \in Servers : Voted(t, prop[k].accept, prop[k].value)
      BY Zenon, <2>1, <3>1 DEF PrepareInv
    <3>3. votes \subseteq votes'
      BY Zenon, <1>m
    <3> QED
      BY Zenon, <3>1, <3>2, <3>3 DEF Voted
  <2>4. ASSUME NEW k \in Proposers, prop'[k].pc = "prepare"
        PROVE  \A m \in proposed' : m.by = k => m.bal # prop'[k].prepare
    <3>1. k # p /\ prop[k].pc = "prepare" /\ prop'[k] = prop[k]
      BY Zenon, <2>2, <2>4
    <3>2. \A m \in proposed : m.by = k => m.bal # prop[k].prepare
      BY Zenon, <2>1, <3>1 DEF PrepareInv
    <3>3. pm.by = p /\ \A m \in proposed' : m \in proposed \/ m = pm
      BY Zenon, <1>m
    <3> HIDE DEF pm
    <3> QED
      BY Zenon, <3>1, <3>2, <3>3
  <2> QED
    BY <1>4, <2>1, <2>2, <2>3, <2>4 DEF PrepareInv, Voted
<1>14. ProposalInv'
  <2>1. \A t \in q.yes : Promised(t, b, p)
    BY <1>1 DEF Promised
  <2>2. \A m \in proposed : m.by = p => m.bal # b
    BY Zenon, <1>1 DEF IInv, PrepareInv
  <2>3. \A m \in proposed : m.bal # b
    BY Zenon, <1>1, <1>3, <2>1, <2>2, NewProposal
  <2>4. OneProposalPerBallot'
    <3>1. OneProposalPerBallot
      BY DEF IInv, ProposalInv
    <3> HIDE DEF pm
    <3> QED
      BY <1>m, <2>3, <3>1 DEF OneProposalPerBallot
  <2>5. \A m \in proposed' : \E Q \in SUBSET Servers :
           Majority(Q) /\ \A t \in Q : Promised(t, m.bal, m.by)
    <3>1. \A m \in proposed : \E Q \in SUBSET Servers :
             Majority(Q) /\ \A t \in Q : Promised(t, m.bal, m.by)
      BY DEF IInv, ProposalInv
    <3> HIDE DEF pm
    <3> QED
      BY Zenon, <1>1, <1>3, <1>m, <2>1, <3>1
  <2>6. \A m \in proposed' : SafeAt(m.bal, m.val)'
    <3>1. q.accept = 0 \/ \E s \in Servers : Voted(s, q.accept, q.value)
      BY <1>1
    <3>2. q.value = v \/ q.value = Nil
      BY DEF v, ToPropose
    <3>3. \A t \in q.yes : \E m \in promises : m.srv = t /\ m.bal = b /\ m.acc <= q.accept
      BY <1>1
    <3>4. SafeAt(b, v)
      BY <1>1, <1>3, <3>1, <3>2, <3>3, HeardIsSafe
    <3>5. ASSUME NEW m \in proposed', m = pm PROVE SafeAt(m.bal, m.val)'
      <4>1. SafeAt(m.bal, m.val) /\ m.bal \in Ballots /\ m.val \in MaybeValue
        BY Zenon, <1>3, <1>m, <3>4, <3>5
      <4> QED
        BY Zenon, <1>1, <1>8, <4>1, SafeAtStable
    <3>6. \A m \in proposed : SafeAt(m.bal, m.val)'
      <4>1. \A m \in proposed : /\ SafeAt(m.bal, m.val)
                                /\ m.bal \in Ballots /\ m.val \in MaybeValue
        BY Zenon, <1>1 DEF IInv, ProposalInv, TypeOK
      <4> QED
        BY <1>1, <1>8, <4>1, SafeAtStable
    <3> HIDE DEF pm
    <3> QED
      BY <1>m, <3>5, <3>6
  <2> QED
    BY <1>4, <2>4, <2>5, <2>6 DEF ProposalInv, Promised
<1>15. VoteInv'
  <2>1. VoteInv
    BY Zenon DEF IInv
  <2>2. \A x \in votes' : \E m \in proposed' : m.bal = x.bal /\ m.val = x.val
    <3> HIDE DEF vt, pm
    <3> QED
      BY Zenon, <1>m, <2>1 DEF VoteInv
  <2>3. \A m \in acceptArgs' : [bal |-> m.bal, val |-> m.val, by |-> m.by] \in proposed'
    BY Zenon, <1>4, <2>1 DEF VoteInv
  <2>4. \A k \in acceptReply' : k.reply = Ok => \E x \in votes' : x.srv = k.from /\ x.bal = k.bal
    <3> HIDE DEF vt, pm
    <3> QED
      BY Zenon, <1>4, <1>m, <2>1 DEF VoteInv
  <2>5. ASSUME NEW k \in Proposers, prop'[k].pc = "accept"
        PROVE  /\ [bal |-> prop'[k].prepare, val |-> prop'[k].value, by |-> k] \in proposed'
               /\ \A t \in prop'[k].yes :
                     [srv |-> t, bal |-> prop'[k].prepare, val |-> prop'[k].value] \in votes'
    <3>1. CASE k = p
      BY Zenon, <1>6, <1>m, <3>1
    <3>2. CASE k # p
      <4>1. prop'[k] = prop[k]
        BY Zenon, <1>6, <3>2
      <4> HIDE DEF vt, pm
      <4> QED
        BY Zenon, <1>m, <2>1, <2>5, <4>1 DEF VoteInv, Voted
    <3> QED
      BY Zenon, <3>1, <3>2
  <2> QED
    BY Zenon, <2>2, <2>3, <2>4, <2>5 DEF VoteInv, Voted
<1>16. DecisionInv'
  BY <1>4, <1>5, <1>8, DecisionKept DEF IInv
<1> QED
  BY Zenon, <1>10, <1>11, <1>12, <1>13, <1>14, <1>15, <1>16 DEF IInv
=============================================================================
