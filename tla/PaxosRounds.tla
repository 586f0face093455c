---------------------------- MODULE PaxosRounds -----------------------------
(***************************************************************************)
(* The first phase of a round keeps the inductive invariant IInv of        *)
(* PaxosProofs: new rounds, promises, and counting the replies.            *)
(***************************************************************************)
EXTENDS PaxosProofs

(***************************************************************************)
(* The steps of a round                                                    *)
(***************************************************************************)
LEMMA Numbers ==
    ASSUME TypeOK
    PROVE  /\ Ballots \subseteq Int
           /\ \A s \in Servers : inst[s].prepare \in Int /\ inst[s].accept \in Int
           /\ \A p \in Proposers : prop[p].prepare \in Int /\ prop[p].accept \in Int
           /\ \A m \in promises : m.bal \in Int /\ m.acc \in Int /\ m.srv \in Servers
           /\ \A v \in votes : v.bal \in Int /\ v.srv \in Servers
           /\ \A m \in proposed : m.bal \in Int /\ m.by \in Proposers
BY MaxBallotType DEF TypeOK, Instance, Proposer, Ballots

LEMMA BeginRoundKeepsIInv ==
    ASSUME IInv, TypeOK', NEW p \in Proposers, BeginRound(p)
    PROVE  IInv'
<1> DEFINE h == HomeOf(p)
           b == inst[h].prepare + 1
           pr == [srv |-> h, bal |-> b, by |-> p, acc |-> inst[h].accept, val |-> inst[h].value]
<1>1. /\ h \in Servers /\ b \in Int /\ TypeOK /\ inst[h].status # "Decided"
      /\ prop'[p] = [pc |-> "prepare", prepare |-> b, accept |-> inst[h].accept,
                     value |-> inst[h].value, yes |-> {h}, no |-> {}, replyPrepare |-> 0]
      /\ \A q \in Proposers \ {p} : prop'[q] = prop[q]
      /\ promises' = promises \cup {pr}
      /\ \A m \in prepareArgs' : m \in prepareArgs \/ m.bal = b
      /\ UNCHANGED <<prepareReply, acceptArgs, acceptReply, decideArgs, decides, votes, proposed>>
  BY HomeOfType, Numbers DEF BeginRound, IInv, TypeOK
<1>2. /\ inst'[h].prepare = b
      /\ \A s \in Servers : /\ inst'[s].accept = inst[s].accept
                            /\ inst'[s].value = inst[s].value
                            /\ inst'[s].status = inst[s].status
                            /\ s # h => inst'[s].prepare = inst[s].prepare
  BY <1>1 DEF BeginRound, TypeOK, Instance
<1> HIDE DEF h, b
<1>3. inst[h].prepare \in Int /\ b = inst[h].prepare + 1
  BY <1>1, Numbers DEF b
<1>n. /\ \A s \in Servers : inst[s].prepare \in Int /\ inst[s].accept \in Int
      /\ \A q \in Proposers : prop[q].prepare \in Int /\ HomeOf(q) \in Servers
      /\ \A m \in promises : m.bal \in Int /\ m.acc \in Int /\ m.srv \in Servers
      /\ \A v \in votes : v.bal \in Int /\ v.srv \in Servers
      /\ \A m \in proposed : m.bal \in Int /\ m.by \in Proposers
  BY <1>1, Numbers, HomeOfType
<1>4. \A s \in Servers : inst[s].prepare <= inst'[s].prepare
  BY <1>2, <1>3, <1>n
<1>5. Grows
  BY <1>1, <1>4 DEF Grows
<1>6. BallotInv'
  <2>1. BallotInv
    BY DEF IInv
  <2>2. \A s \in Servers : inst'[s].accept <= inst'[s].prepare /\ inst'[s].prepare \in Int
    BY <1>1, <1>2, <1>3, <1>n, <2>1 DEF BallotInv
  <2>3. 1 <= b /\ inst[h].accept < b
    BY <1>1, <1>3, <1>n, <2>1, Numbers DEF BallotInv, TypeOK, Instance, Ballots
  <2>4. \A m \in promises' : 1 <= m.bal /\ m.bal <= inst'[m.srv].prepare /\ m.acc < m.bal
    BY <1>1, <1>2, <1>4, <1>n, <2>1, <2>2, <2>3 DEF BallotInv
  <2>5. \A v \in votes' : 1 <= v.bal /\ v.bal <= inst'[v.srv].accept
    BY Zenon, <1>1, <1>2, <1>n, <2>1 DEF BallotInv
  <2>6. \A m \in proposed' : 1 <= m.bal /\ m.bal <= inst'[HomeOf(m.by)].prepare
    BY <1>1, <1>4, <1>n, <2>1, <2>2 DEF BallotInv
  <2>7. \A q \in Proposers : prop'[q].pc \in {"prepare", "accept"} =>
           1 <= prop'[q].prepare /\ prop'[q].prepare <= inst'[HomeOf(q)].prepare
    BY <1>1, <1>2, <1>4, <1>n, <2>1, <2>2, <2>3 DEF BallotInv, h
  <2>8. (\A m \in prepareArgs' : 1 <= m.bal) /\ (\A m \in acceptArgs' : 1 <= m.bal)
    BY Zenon, <1>1, <2>1, <2>3 DEF BallotInv
  <2> QED
    BY <2>2, <2>4, <2>5, <2>6, <2>7, <2>8 DEF BallotInv, HomeOf
<1>7. PromiseInv'
  <2>1. PromiseInv /\ BallotInv /\ AcceptedInv
    BY DEF IInv
  <2>2. \A m \in promises : m.srv = h => m.bal # b
    BY <1>3, <1>n, <2>1 DEF BallotInv
  <2>3. \A m, n \in promises' : m.srv = n.srv /\ m.bal = n.bal => m = n
    BY <1>1, <2>1, <2>2 DEF PromiseInv
  <2>4. (pr.acc = 0 /\ pr.val = Nil) \/ Voted(pr.srv, pr.acc, pr.val)
    BY Zenon, <1>1, <2>1 DEF AcceptedInv
  <2>5. \A v \in votes : v.srv = h => v.bal <= inst[h].accept
    BY Zenon, <1>1, <2>1 DEF BallotInv
  <2> QED
    BY <1>1, <2>1, <2>3, <2>4, <2>5 DEF PromiseInv, Voted
<1>8. AcceptedInv'
  BY Zenon, <1>1, <1>2 DEF IInv, AcceptedInv, Voted
<1>9. PrepareInv'
  <2>1. PrepareInv /\ BallotInv /\ AcceptedInv
    BY DEF IInv
  <2>2. \A m \in proposed : m.by = p => m.bal # b
    BY <1>1, <1>3, <1>n, <2>1 DEF BallotInv, h
  <2>3. inst[h].accept < b /\ inst[h].accept <= inst[h].accept
    BY <1>1, <1>3, <1>n, <2>1 DEF BallotInv
  <2>4. \/ inst[h].accept = 0 /\ inst[h].value = Nil
        \/ Voted(h, inst[h].accept, inst[h].value)
    BY Zenon, <1>1, <2>1 DEF AcceptedInv
  <2>5. pr \in promises' /\ promises \subseteq promises'
    BY Zenon, <1>1
  <2>6. \A r \in prepareReply' : r.code = "Ok" =>
          [srv |-> r.from, bal |-> r.bal, by |-> r.by, acc |-> r.acpr, val |-> r.val] \in promises'
    BY Zenon, <1>1, <2>1 DEF PrepareInv
  <2>7. ASSUME NEW q \in Proposers, prop'[q].pc = "prepare"
        PROVE  /\ \A t \in prop'[q].yes : \E m \in promises' :
                      m.srv = t /\ m.bal = prop'[q].prepare /\ m.by = q /\ m.acc <= prop'[q].accept
               /\ prop'[q].accept < prop'[q].prepare
               /\ \/ prop'[q].accept = 0 /\ prop'[q].value = Nil
                  \/ \E s \in Servers : Voted(s, prop'[q].accept, prop'[q].value)
               /\ \A m \in proposed' : m.by = q => m.bal # prop'[q].prepare
    <3>1. CASE q = p
      <4>1. /\ prop'[q].yes = {h} /\ prop'[q].prepare = b
            /\ prop'[q].accept = inst[h].accept /\ prop'[q].value = inst[h].value
        BY <1>1, <3>1
      <4>2. /\ pr.srv = h /\ pr.bal = b /\ pr.by = q /\ pr.acc <= inst[h].accept
        BY Zenon, <2>3, <3>1
      <4> HIDE DEF pr
      <4> QED
        BY Zenon, <1>1, <2>2, <2>3, <2>4, <2>5, <3>1, <4>1, <4>2
    <3>2. CASE q # p
      <4>1. prop'[q] = prop[q]
        BY Zenon, <1>1, <3>2
      <4> HIDE DEF pr
      <4> QED
        BY <1>1, <2>1, <2>5, <2>7, <4>1 DEF PrepareInv, Voted
    <3> QED
      BY Zenon, <3>1, <3>2
  <2> QED
    BY Zenon, <1>1, <2>6, <2>7 DEF PrepareInv, Voted
<1>10. ProposalInv'
  BY Zenon, <1>1, <1>5, ProposalKept DEF IInv
<1>11. VoteInv'
  <2>1. VoteInv
    BY Zenon DEF IInv
  <2> QED
    BY <1>1, <2>1 DEF VoteInv, Voted
<1>12. DecisionInv'
  BY <1>1, <1>2, <1>5, DecisionKept DEF IInv
<1> QED
  BY Zenon, <1>6, <1>7, <1>8, <1>9, <1>10, <1>11, <1>12 DEF IInv

LEMMA CreatedIsSame ==
    \A i \in Instance : /\ Created(i).prepare = i.prepare /\ Created(i).accept = i.accept
                        /\ Created(i).value = i.value
                        /\ Created(i).status = "Decided" <=> i.status = "Decided"
BY DEF Created, Instance

LEMMA WithFillerIsSame ==
    ASSUME TypeOK, NEW s \in Servers, prop' = WithFiller(s)
    PROVE  \A p \in Proposers : SameRound(p)
BY DEF TypeOK, WithFiller, SameRound, Proposer

\* A request that is turned down changes nothing that matters.
LEMMA PrepareRefused ==
    ASSUME IInv, TypeOK', NEW m \in prepareArgs, Prepare(m),
           Created(inst[m.to]).status = "Decided" \/ m.bal <= Created(inst[m.to]).prepare
    PROVE  Frame
<1> DEFINE s == m.to
           i == Created(inst[s])
<1>1. TypeOK /\ s \in Servers /\ m.bal \in Int /\ inst[s] \in Instance /\ i.prepare \in Int
  BY Zenon, CreatedIsSame, Numbers DEF IInv, TypeOK
<1>2. /\ inst' = [inst EXCEPT ![s] = i] /\ promises' = promises
      /\ \A r \in prepareReply' :
            \/ r \in prepareReply
            \/ r.code = "LowPrepare"
            \/ i.status = "Decided" /\ r.code = "HasDecided" /\ r.val = i.value
  BY <1>1 DEF Prepare
<1>3. \A t \in Servers : SameInst(t)
  <2> TAKE t \in Servers
  <2>1. inst'[t] = IF t = s THEN i ELSE inst[t]
    BY Zenon, <1>1, <1>2 DEF TypeOK
  <2>2. inst[t].prepare \in Int
    BY Zenon, <1>1, Numbers
  <2> QED
    BY <1>1, <2>1, <2>2, CreatedIsSame DEF SameInst
<1>4. \A p \in Proposers : SameRound(p)
  BY <1>1, WithFillerIsSame DEF Prepare
<1>5. NilFree /\ i.status = "Decided" => Chosen(i.value)
  BY Zenon, <1>1, CreatedIsSame DEF IInv, DecisionInv, DecidedWasChosen
<1>6. prepareArgs' \subseteq prepareArgs
      /\ UNCHANGED <<acceptArgs, acceptReply, decideArgs, decides, votes, proposed>>
  BY DEF Prepare
<1> HIDE DEF i, s
<1> QED
  BY Zenon, <1>2, <1>3, <1>4, <1>5, <1>6 DEF Frame, hist

LEMMA PromiseKeepsIInv ==
    ASSUME IInv, TypeOK', NEW m \in prepareArgs, Prepare(m),
           Created(inst[m.to]).status # "Decided", m.bal > Created(inst[m.to]).prepare
    PROVE  IInv'
<1> DEFINE s == m.to
           i == Created(inst[s])
           b == m.bal
           pr == [srv |-> s, bal |-> b, by |-> m.by, acc |-> inst[s].accept, val |-> inst[s].value]
<1>0. TypeOK /\ s \in Servers /\ b \in Int /\ inst[s] \in Instance
  BY Zenon, Numbers DEF IInv, TypeOK
<1>i. /\ i \in Instance /\ i.accept = inst[s].accept /\ i.value = inst[s].value
      /\ i.prepare = inst[s].prepare /\ i.status # "Decided" /\ inst[s].status # "Decided"
      /\ i.prepare \in Int
  BY Zenon, <1>0, CreatedIsSame, CreatedType, Numbers
<1>1. /\ inst' = [inst EXCEPT ![s] = [i EXCEPT !.prepare = b]]
      /\ promises' = promises \cup {pr}
      /\ \A r \in prepareReply' :
            \/ r \in prepareReply
            \/ /\ r.code = "Ok" /\ r.by = m.by /\ r.bal = b /\ r.from = s
               /\ r.acpr = inst[s].accept /\ r.val = inst[s].value
      /\ prepareArgs' \subseteq prepareArgs
      /\ UNCHANGED <<acceptArgs, acceptReply, decideArgs, decides, votes, proposed>>
  BY <1>0, <1>i DEF Prepare
<1>2. /\ inst'[s].prepare = b /\ inst[s].prepare < b
      /\ \A t \in Servers : /\ inst'[t].accept = inst[t].accept
                            /\ inst'[t].value = inst[t].value
                            /\ inst'[t].status = "Decided" <=> inst[t].status = "Decided"
                            /\ t # s => inst'[t].prepare = inst[t].prepare
  <2>1. inst'[s] = [i EXCEPT !.prepare = b] /\ \A t \in Servers \ {s} : inst'[t] = inst[t]
    BY Zenon, <1>0, <1>1 DEF TypeOK
  <2>2. inst[s].prepare < b
    BY <1>0, <1>i
  <2> HIDE DEF i, s
  <2>3. /\ inst'[s].prepare = b /\ inst'[s].accept = i.accept /\ inst'[s].value = i.value
        /\ inst'[s].status = i.status
    BY Zenon, <1>i, <2>1 DEF Instance
  <2> QED
    BY Zenon, <1>i, <2>1, <2>2, <2>3
<1>3. \A p \in Proposers : SameRound(p)
  BY Zenon, <1>0, WithFillerIsSame DEF Prepare
<1> HIDE DEF i
<1>n. /\ \A t \in Servers : inst[t].prepare \in Int /\ inst[t].accept \in Int
      /\ \A q \in Proposers : prop[q].prepare \in Int /\ HomeOf(q) \in Servers
      /\ \A n \in promises : n.bal \in Int /\ n.acc \in Int /\ n.srv \in Servers
      /\ \A v \in votes : v.bal \in Int /\ v.srv \in Servers
      /\ \A n \in proposed : n.bal \in Int /\ n.by \in Proposers
  BY Zenon, <1>0, Numbers, HomeOfType
<1>4. \A t \in Servers : inst[t].prepare <= inst'[t].prepare /\ inst'[t].prepare \in Int
  BY <1>0, <1>2, <1>n
<1>5. Grows
  BY Zenon, <1>1, <1>4 DEF Grows
<1>6. BallotInv'
  <2>1. BallotInv
    BY Zenon DEF IInv
  <2>2. \A t \in Servers : inst'[t].accept <= inst'[t].prepare
    BY <1>2, <1>4, <1>n, <2>1 DEF BallotInv
  <2>3. 1 <= b /\ inst[s].accept < b
    BY <1>0, <1>2, <1>n, <2>1 DEF BallotInv
  <2>4. \A n \in promises' : 1 <= n.bal /\ n.bal <= inst'[n.srv].prepare /\ n.acc < n.bal
    BY <1>0, <1>1, <1>2, <1>4, <1>n, <2>1, <2>3 DEF BallotInv
  <2>5. \A v \in votes' : 1 <= v.bal /\ v.bal <= inst'[v.srv].accept
    BY Zenon, <1>1, <1>2, <1>n, <2>1 DEF BallotInv
  <2>6. \A n \in proposed' : 1 <= n.bal /\ n.bal <= inst'[HomeOf(n.by)].prepare
    BY <1>1, <1>4, <1>n, <2>1 DEF BallotInv
  <2>7. \A q \in Proposers : prop'[q].pc \in {"prepare", "accept"} =>
           1 <= prop'[q].prepare /\ prop'[q].prepare <= inst'[HomeOf(q)].prepare
    BY <1>3, <1>4, <1>n, <2>1 DEF BallotInv, SameRound
  <2>8. (\A n \in prepareArgs' : 1 <= n.bal) /\ (\A n \in acceptArgs' : 1 <= n.bal)
    BY Zenon, <1>1, <2>1 DEF BallotInv
  <2> QED
    BY Zenon, <2>2, <2>4, <2>5, <2>6, <2>7, <2>8 DEF BallotInv, HomeOf
<1>7. PromiseInv'
  <2>1. PromiseInv /\ BallotInv /\ AcceptedInv
    BY Zenon DEF IInv
  <2>2. \A n \in promises : n.srv = s => n.bal # b
    BY <1>0, <1>2, <1>n, <2>1 DEF BallotInv
  <2>3. \A n, k \in promises' : n.srv = k.srv /\ n.bal = k.bal => n = k
    BY <1>1, <2>1, <2>2 DEF PromiseInv
  <2>4. (pr.acc = 0 /\ pr.val = Nil) \/ Voted(pr.srv, pr.acc, pr.val)
    BY Zenon, <1>0, <1>i, <2>1 DEF AcceptedInv
  <2>5. \A v \in votes : v.srv = s => v.bal <= inst[s].accept
    BY Zenon, <1>0, <2>1 DEF BallotInv
  <2> QED
    BY <1>1, <2>1, <2>3, <2>4, <2>5 DEF PromiseInv, Voted
<1>8. AcceptedInv'
  BY <1>1, <1>2 DEF IInv, AcceptedInv, Voted
<1>9. PrepareInv'
  <2>1. PrepareInv
    BY DEF IInv
  <2>2. \A r \in prepareReply' : r.code = "Ok" =>
          [srv |-> r.from, bal |-> r.bal, by |-> r.by, acc |-> r.acpr, val |-> r.val] \in promises'
    BY Zenon, <1>1, <2>1 DEF PrepareInv
  <2>3. \A q \in Proposers : prop'[q].pc = "prepare" =>
           /\ prop[q].pc = "prepare" /\ prop'[q].prepare = prop[q].prepare
           /\ prop'[q].accept = prop[q].accept /\ prop'[q].value = prop[q].value
           /\ prop'[q].yes = prop[q].yes
    BY <1>3 DEF SameRound
  <2>4. promises \subseteq promises'
    BY <1>1
  <2> HIDE DEF pr
  <2> QED
    BY <1>1, <2>1, <2>2, <2>3, <2>4 DEF PrepareInv, Voted
<1>10. ProposalInv'
  BY Zenon, <1>0, <1>1, <1>5, ProposalKept DEF IInv
<1>11. VoteInv'
  BY Zenon, <1>1, <1>3 DEF IInv, VoteInv, Voted, SameRound
<1>12. DecisionInv'
  BY Zenon, <1>1, <1>2, <1>5, DecisionKept DEF IInv
<1> QED
  BY Zenon, <1>6, <1>7, <1>8, <1>9, <1>10, <1>11, <1>12 DEF IInv

\* What counting one more promise leaves in the proposer
LEMMA HeardKeeps ==
    ASSUME IInv, NEW r \in prepareReply, InPrepare(r), r.code = "Ok"
    PROVE  LET p == r.by
               q == Heard(prop[p], r)
           IN  /\ p \in Proposers /\ q \in Proposer
               /\ q.pc = "prepare" /\ q.prepare = prop[p].prepare
               /\ \A t \in q.yes : \E m \in promises :
                     m.srv = t /\ m.bal = q.prepare /\ m.by = p /\ m.acc <= q.accept
               /\ q.accept < q.prepare
               /\ \/ q.accept = 0 /\ q.value = Nil
                  \/ \E s \in Servers : Voted(s, q.accept, q.value)
<1> DEFINE p == r.by
           o == prop[p]
           q == Heard(o, r)
           pr == [srv |-> r.from, bal |-> r.bal, by |-> p, acc |-> r.acpr, val |-> r.val]
<1>1. TypeOK /\ BallotInv /\ PromiseInv /\ PrepareInv /\ r \in PrepareReply /\ p \in Proposers
  BY DEF IInv, TypeOK, PrepareReply
<1>2. o \in Proposer /\ q \in Proposer
  BY Zenon, <1>1, HeardType DEF TypeOK
<1>3. pr \in promises /\ r.bal = o.prepare /\ o.pc = "prepare"
  BY <1>1 DEF PrepareInv, InPrepare
<1>4. /\ q.pc = o.pc /\ q.prepare = o.prepare /\ q.yes = o.yes \cup {r.from}
      /\ q.accept = IF r.acpr > o.accept THEN r.acpr ELSE o.accept
      /\ q.value = IF r.acpr > o.accept THEN r.val ELSE o.value
  <2> HIDE DEF o
  <2> QED
    BY Zenon, <1>2 DEF Heard, Proposer
<1>5. r.acpr \in Int /\ o.accept \in Int /\ r.acpr < o.prepare /\ r.from \in Servers
  BY Zenon, <1>1, <1>3, Numbers DEF BallotInv, PrepareReply
<1>6. \A t \in o.yes : \E m \in promises :
         m.srv = t /\ m.bal = o.prepare /\ m.by = p /\ m.acc <= o.accept
  BY Zenon, <1>1, <1>3 DEF PrepareInv
<1>7. o.accept < o.prepare /\ ((o.accept = 0 /\ o.value = Nil) \/ \E s \in Servers : Voted(s, o.accept, o.value))
  BY Zenon, <1>1, <1>3 DEF PrepareInv
<1>8. (r.acpr = 0 /\ r.val = Nil) \/ Voted(r.from, r.acpr, r.val)
  BY Zenon, <1>1, <1>3 DEF PromiseInv
<1>9. \A m \in promises : m.acc \in Int
  BY Zenon, <1>1, Numbers
<1> HIDE DEF o, q, p
<1>10. \A t \in q.yes : \E m \in promises :
          m.srv = t /\ m.bal = q.prepare /\ m.by = p /\ m.acc <= q.accept
  <2> TAKE t \in q.yes
  <2>1. CASE t = r.from
    BY <1>3, <1>4, <1>5, <2>1
  <2>2. CASE t \in o.yes
    <3>1. PICK m \in promises : m.srv = t /\ m.bal = o.prepare /\ m.by = p /\ m.acc <= o.accept
      BY <1>6, <2>2
    <3>2. m.acc <= q.accept
      BY <1>4, <1>5, <1>9, <3>1
    <3> QED
      BY <1>4, <3>1, <3>2
  <2> QED
    BY Zenon, <1>4, <2>1, <2>2
<1>11. /\ q.accept < q.prepare
       /\ (q.accept = 0 /\ q.value = Nil) \/ \E s \in Servers : Voted(s, q.accept, q.value)
  BY Zenon, <1>4, <1>5, <1>7, <1>8
<1> QED
  BY Zenon, <1>1, <1>2, <1>3, <1>4, <1>10, <1>11 DEF p, q, o

\* PrepareInv after a step that adds no promise, vote or proposal
LEMMA PrepareKept ==
    ASSUME PrepareInv, votes' = votes, proposed' = proposed, promises' = promises,
           prepareReply' \subseteq prepareReply,
           \A k \in Proposers : prop'[k].pc = "prepare" =>
              /\ \A t \in prop'[k].yes : \E m \in promises :
                    m.srv = t /\ m.bal = prop'[k].prepare /\ m.by = k /\ m.acc <= prop'[k].accept
              /\ prop'[k].accept < prop'[k].prepare
              /\ \/ prop'[k].accept = 0 /\ prop'[k].value = Nil
                 \/ \E s \in Servers : Voted(s, prop'[k].accept, prop'[k].value)
              /\ \A m \in proposed : m.by = k => m.bal # prop'[k].prepare
    PROVE  PrepareInv'
BY DEF PrepareInv, Voted

LEMMA ReceivePromiseKeepsIInv ==
    ASSUME IInv, TypeOK', NEW r \in prepareReply, ReceivePromise(r)
    PROVE  IInv'
<1> DEFINE p == r.by
           q == Heard(prop[p], r)
<1>1. /\ p \in Proposers /\ q \in Proposer
      /\ q.pc = "prepare" /\ q.prepare = prop[p].prepare
      /\ \A t \in q.yes : \E m \in promises :
            m.srv = t /\ m.bal = q.prepare /\ m.by = p /\ m.acc <= q.accept
      /\ q.accept < q.prepare
      /\ (q.accept = 0 /\ q.value = Nil) \/ \E s \in Servers : Voted(s, q.accept, q.value)
  BY HeardKeeps DEF ReceivePromise
<1>2. /\ prop'[p] = q /\ \A k \in Proposers \ {p} : prop'[k] = prop[k]
      /\ prepareReply' \subseteq prepareReply /\ prop[p].pc = "prepare"
      /\ UNCHANGED <<inst, prepareArgs, acceptArgs, acceptReply, decideArgs, decides,
                     promises, votes, proposed>>
  BY Zenon, <1>1 DEF ReceivePromise, InPrepare, IInv, TypeOK, hist
<1> HIDE DEF q, p
<1>3. Grows
  <2>1. \A s \in Servers : inst[s].prepare \in Int
    BY Numbers DEF IInv
  <2> QED
    BY <1>2, <2>1 DEF Grows
<1>4. BallotInv'
  <2>1. BallotInv
    BY Zenon DEF IInv
  <2>2. \A k \in Proposers : prop'[k].pc \in {"prepare", "accept"} =>
           1 <= prop'[k].prepare /\ prop'[k].prepare <= inst[HomeOf(k)].prepare
    BY <1>1, <1>2, <2>1 DEF BallotInv
  <2> QED
    BY Zenon, <1>2, <2>1, <2>2 DEF BallotInv, HomeOf
<1>5. PromiseInv' /\ AcceptedInv'
  BY Zenon, <1>2 DEF IInv, PromiseInv, AcceptedInv, Voted
<1>6. PrepareInv'
  <2>1. PrepareInv
    BY Zenon DEF IInv
  <2>2. \A m \in proposed : m.by = p => m.bal # q.prepare
    BY <1>1, <1>2, <2>1 DEF PrepareInv
  <2>3. \A k \in Proposers \ {p} : prop'[k] = prop[k]
    BY <1>2
  <2> QED
    <3>1. ASSUME NEW k \in Proposers, prop'[k].pc = "prepare"
          PROVE  /\ \A t \in prop'[k].yes : \E m \in promises :
                       m.srv = t /\ m.bal = prop'[k].prepare /\ m.by = k /\ m.acc <= prop'[k].accept
                 /\ prop'[k].accept < prop'[k].prepare
                 /\ \/ prop'[k].accept = 0 /\ prop'[k].value = Nil
                    \/ \E s \in Servers : Voted(s, prop'[k].accept, prop'[k].value)
                 /\ \A m \in proposed : m.by = k => m.bal # prop'[k].prepare
      <4>1. CASE k = p
        BY Zenon, <1>1, <1>2, <2>2, <4>1
      <4>2. CASE k # p
        BY <2>1, <2>3, <3>1, <4>2 DEF PrepareInv
      <4> QED
        BY Zenon, <4>1, <4>2
    <3> QED
      BY Zenon, <1>2, <2>1, <3>1, PrepareKept
<1>7. ProposalInv'
  BY Zenon, <1>2, <1>3, ProposalKept DEF IInv
<1>8. VoteInv'
  BY Zenon, <1>1, <1>2 DEF IInv, VoteInv, Voted
<1>9. DecisionInv'
  BY Zenon, <1>2, <1>3, DecisionKept DEF IInv
<1> QED
  BY Zenon, <1>4, <1>5, <1>6, <1>7, <1>8, <1>9 DEF IInv

LEMMA ReceiveAcceptedKeepsIInv ==
    ASSUME IInv, TypeOK', NEW r \in acceptReply, ReceiveAccepted(r)
    PROVE  IInv'
<1> DEFINE p == r.by
           o == prop[p]
<1>1. TypeOK /\ p \in Proposers /\ o \in Proposer
  BY DEF IInv, TypeOK
<1>2. prop'[p] = [o EXCEPT !.yes = o.yes \cup {r.from}]
  BY Zenon, <1>1 DEF ReceiveAccepted, TypeOK
<1>3. /\ \A k \in Proposers \ {p} : prop'[k] = prop[k]
      /\ acceptReply' \subseteq acceptReply /\ o.pc = "accept" /\ o.prepare = r.bal /\ r.reply = Ok
      /\ UNCHANGED <<inst, prepareArgs, prepareReply, acceptArgs, decideArgs, decides,
                     promises, votes, proposed>>
  BY <1>1 DEF ReceiveAccepted, InAccept, TypeOK, hist
<1>4. /\ prop'[p].pc = "accept" /\ prop'[p].prepare = o.prepare /\ prop'[p].value = o.value
      /\ prop'[p].yes = o.yes \cup {r.from}
  <2> HIDE DEF o
  <2> QED
    BY Zenon, <1>1, <1>2, <1>3 DEF Proposer
<1>5. Grows
  <2>1. \A s \in Servers : inst[s].prepare \in Int
    BY <1>1, Numbers
  <2> QED
    BY <1>3, <2>1 DEF Grows
<1>6. BallotInv'
  <2>1. BallotInv
    BY DEF IInv
  <2>2. \A k \in Proposers : prop'[k].pc \in {"prepare", "accept"} =>
           1 <= prop'[k].prepare /\ prop'[k].prepare <= inst[HomeOf(k)].prepare
    BY Zenon, <1>3, <1>4, <2>1 DEF BallotInv
  <2> QED
    BY Zenon, <1>3, <2>1, <2>2 DEF BallotInv, HomeOf
<1>7. PromiseInv' /\ AcceptedInv'
  BY Zenon, <1>3 DEF IInv, PromiseInv, AcceptedInv, Voted
<1>8. PrepareInv'
  <2>1. PrepareInv
    BY Zenon DEF IInv
  <2>2. \A k \in Proposers : prop'[k].pc = "prepare" => prop'[k] = prop[k]
    BY Zenon, <1>3, <1>4
  <2>3. ASSUME NEW k \in Proposers, prop'[k].pc = "prepare"
        PROVE  /\ \A t \in prop'[k].yes : \E m \in promises :
                     m.srv = t /\ m.bal = prop'[k].prepare /\ m.by = k /\ m.acc <= prop'[k].accept
               /\ prop'[k].accept < prop'[k].prepare
               /\ \/ prop'[k].accept = 0 /\ prop'[k].value = Nil
                  \/ \E s \in Servers : Voted(s, prop'[k].accept, prop'[k].value)
               /\ \A m \in proposed : m.by = k => m.bal # prop'[k].prepare
    <3>1. prop'[k] = prop[k] /\ prop[k].pc = "prepare"
      BY Zenon, <2>2, <2>3
    <3> QED
      BY <2>1, <3>1 DEF PrepareInv
  <2> QED
    BY Zenon, <1>3, <2>1, <2>3, PrepareKept
<1>9. ProposalInv'
  BY Zenon, <1>1, <1>3, <1>5, ProposalKept DEF IInv
<1>10. VoteInv'
  <2>1. VoteInv
    BY DEF IInv
  <2>2. [bal |-> o.prepare, val |-> o.value, by |-> p] \in proposed
        /\ \A t \in o.yes : Voted(t, o.prepare, o.value)
    BY Zenon, <1>1, <1>3, <2>1 DEF VoteInv
  <2>3. Voted(r.from, o.prepare, o.value)
    BY Zenon, <1>3, <2>2, CountedVote DEF Voted
  <2> HIDE DEF o, p
  <2> QED
    BY Zenon, <1>3, <1>4, <2>1, <2>2, <2>3 DEF VoteInv, Voted
<1>11. DecisionInv'
  BY <1>3, <1>5, DecisionKept DEF IInv
<1> QED
  BY <1>6, <1>7, <1>8, <1>9, <1>10, <1>11 DEF IInv
=============================================================================
