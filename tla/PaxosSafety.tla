---------------------------- MODULE PaxosSafety -----------------------------
(***************************************************************************)
(* IInv is an invariant of one Paxos instance; the safety theorems that    *)
(* follow from it; and the refinement of module Consensus when no filler   *)
(* wakes up.                                                               *)
(***************************************************************************)
EXTENDS PaxosVotes

(***************************************************************************)
(* Safety                                                                  *)
(***************************************************************************)
LEMMA InitIInv == Init => IInv
<1> SUFFICES ASSUME Init PROVE IInv
  OBVIOUS
<1>1. TypeOK
  BY InitTypeOK
<1>2. BallotInv /\ PromiseInv /\ AcceptedInv /\ PrepareInv /\ VoteInv
  <2>1. /\ prepareArgs = {} /\ prepareReply = {} /\ acceptArgs = {} /\ acceptReply = {}
        /\ promises = {} /\ votes = {} /\ proposed = {}
        /\ \A p \in Proposers : prop[p].pc = "off"
        /\ \A s \in Servers : inst[s].prepare = 0 /\ inst[s].accept = 0 /\ inst[s].value = Nil
    BY DEF Init, NoInstance, NoProposer
  <2>2. BallotInv
    BY <2>1 DEF BallotInv
  <2>3. PromiseInv /\ AcceptedInv
    BY <2>1 DEF PromiseInv, AcceptedInv
  <2>4. PrepareInv
    BY <2>1 DEF PrepareInv
  <2>5. VoteInv
    BY <2>1 DEF VoteInv
  <2> QED
    BY <2>2, <2>3, <2>4, <2>5
<1>3. ProposalInv
  BY DEF Init, ProposalInv, OneProposalPerBallot
<1>4. DecisionInv
  BY Zenon DEF Init, NoInstance, DecisionInv, DecidedWasChosen
<1> QED
  BY <1>1, <1>2, <1>3, <1>4 DEF IInv

\* A refused request, and the steps of FrameSteps, are the frames of Next.
LEMMA StepKeepsIInv == IInv /\ [Next]_vars => IInv'
<1> SUFFICES ASSUME IInv, [Next]_vars PROVE IInv'
  OBVIOUS
<1>1. TypeOK'
  BY NextTypeOK DEF IInv
<1>2. ASSUME Frame PROVE IInv'
  BY <1>1, <1>2, FrameKeepsIInv
<1>3. ASSUME NEW s \in Servers, CreateGap(s) \/ Restart(s) PROVE IInv'
  BY <1>1, <1>2, <1>3, FrameSteps
<1>4. ASSUME NEW c \in Clients, Start(c) PROVE IInv'
  BY <1>1, <1>2, <1>4, FrameSteps
<1>5. ASSUME NEW p \in Proposers, FindDecided(p) PROVE IInv'
  BY <1>1, <1>2, <1>5, FrameSteps
<1>6. ASSUME NEW p \in Proposers, BeginRound(p) PROVE IInv'
  BY <1>1, <1>6, BeginRoundKeepsIInv
<1>7. ASSUME NEW p \in Proposers, NEW t \in Servers, FailPrepare(p, t) \/ FailAccept(p, t)
      PROVE  IInv'
  BY <1>1, <1>2, <1>7, FrameSteps
<1>8. ASSUME NEW m \in prepareArgs, Prepare(m) PROVE IInv'
  <2> DEFINE i == Created(inst[m.to])
  <2>1. m.bal \in Int /\ i.prepare \in Int
    BY Zenon, CreatedIsSame, Numbers DEF IInv, TypeOK
  <2>2. CASE i.status = "Decided" \/ m.bal <= i.prepare
    BY <1>1, <1>2, <1>8, <2>2, PrepareRefused
  <2>3. CASE i.status # "Decided" /\ m.bal > i.prepare
    BY <1>1, <1>8, <2>3, PromiseKeepsIInv
  <2> QED
    BY <2>1, <2>2, <2>3
<1>9. ASSUME NEW r \in prepareReply, LoseRace(r) \/ LearnDecided(r) \/ ReceiveLow(r) PROVE IInv'
  BY <1>1, <1>2, <1>9, FrameSteps
<1>10. ASSUME NEW r \in prepareReply, ReceivePromise(r) PROVE IInv'
  BY <1>1, <1>10, ReceivePromiseKeepsIInv
<1>11. ASSUME NEW r \in prepareReply, SendAccept(r) PROVE IInv'
  BY <1>1, <1>11, SendAcceptKeepsIInv
<1>12. ASSUME NEW m \in acceptArgs, Accept(m) PROVE IInv'
  <2> DEFINE i == Created(inst[m.to])
  <2>1. m.bal \in Int /\ i.prepare \in Int
    BY Zenon, CreatedIsSame, Numbers DEF IInv, TypeOK
  <2>2. CASE i.status = "Decided" \/ m.bal < i.prepare
    BY <1>1, <1>2, <1>12, <2>2, AcceptRefused
  <2>3. CASE i.status # "Decided" /\ m.bal >= i.prepare
    BY <1>1, <1>12, <2>3, VoteKeepsIInv
  <2> QED
    BY <2>1, <2>2, <2>3
<1>13. ASSUME NEW r \in acceptReply, SendDecide(r) \/ ReceiveRefused(r) PROVE IInv'
  BY <1>1, <1>2, <1>13, FrameSteps
<1>14. ASSUME NEW r \in acceptReply, ReceiveAccepted(r) PROVE IInv'
  BY <1>1, <1>14, ReceiveAcceptedKeepsIInv
<1>15. ASSUME NEW m \in decideArgs, Decide(m) PROVE IInv'
  BY <1>1, <1>2, <1>15, FrameSteps
<1>16. ASSUME NEW d \in decides, Learn(d) PROVE IInv'
  BY <1>1, <1>16, LearnKeepsIInv
<1>17. CASE UNCHANGED vars
  <2>1. \A s \in Servers : inst[s].prepare <= inst[s].prepare
    BY Numbers DEF IInv
  <2> QED
    BY <1>2, <1>17, <2>1 DEF vars, calls, hist, Frame, SameRound, SameInst
<1> QED
  BY <1>3, <1>4, <1>5, <1>6, <1>7, <1>8, <1>9, <1>10, <1>11, <1>12, <1>13, <1>14, <1>15,
     <1>16, <1>17, RestartingType DEF Next

\* The inductive invariant: what every promise, proposal, vote and decision
\* of an instance has in common with the others.
THEOREM Invariance == Spec => []IInv
BY InitIInv, StepKeepsIInv, PTL DEF Spec

\* Although all servers count proposal numbers from the same integers, two
\* proposers never send Accept with the same number.
THEOREM UniqueProposals == Spec => []OneProposalPerBallot
<1>1. IInv => OneProposalPerBallot
  BY DEF IInv, ProposalInv
<1> QED
  BY <1>1, Invariance, PTL

\* A value that decide() installs, while no filler proposed nil, is one that
\* a majority accepted in one ballot.
THEOREM DecisionsAreChosen == Spec => []DecidedWasChosen
<1>1. IInv => DecidedWasChosen
  BY DEF IInv, DecisionInv, DecidedWasChosen
<1> QED
  BY <1>1, Invariance, PTL

LEMMA OneVotePerBallot ==
    ASSUME IInv, NEW b, NEW s \in Servers, NEW t \in Servers,
           NEW v \in MaybeValue, NEW w \in MaybeValue, Voted(s, b, v), Voted(t, b, w)
    PROVE  v = w
<1>1. VoteInv /\ OneProposalPerBallot
  BY Zenon DEF IInv, ProposalInv
<1>2. (\E m \in proposed : m.bal = b /\ m.val = v) /\ (\E m \in proposed : m.bal = b /\ m.val = w)
  BY <1>1 DEF Voted, VoteInv
<1> QED
  BY Zenon, <1>1, <1>2 DEF OneProposalPerBallot

LEMMA IInvChosenStays == IInv => ChosenStays
<1> SUFFICES ASSUME IInv, NEW m \in proposed, NEW b \in Ballots, NEW v \in Values,
                    b < m.bal, ChosenAt(b, v)
             PROVE  m.val = v
  BY DEF ChosenStays
<1> DEFINE Q == {s \in Servers : Voted(s, b, v)}
<1>1. Majority(Q) /\ Q \in SUBSET Servers
  BY DEF ChosenAt, Voted
<1>2. PICK s \in Servers : s \in Q
  BY <1>1, QuorumsMeet
<1>3. 1 <= b
  BY Zenon, <1>2 DEF Voted, IInv, BallotInv
<1>4. PICK R \in SUBSET Servers :
         Majority(R) /\ \A t \in R : Voted(t, b, m.val) \/ Voted(t, b, Nil) \/ WontVote(t, b)
  BY <1>3 DEF IInv, ProposalInv, SafeAt
<1> HIDE DEF Q
<1>5. PICK t \in Servers : t \in Q /\ t \in R
  BY <1>1, <1>4, QuorumsMeet
<1>6. Voted(t, b, v) /\ v \in MaybeValue /\ Nil \in MaybeValue /\ m.val \in MaybeValue
  BY <1>5 DEF Q, MaybeValue, IInv, TypeOK
<1>7. Voted(t, b, m.val) \/ Voted(t, b, Nil)
  BY Zenon, <1>4, <1>5, <1>6 DEF WontVote
<1> QED
  BY <1>6, <1>7, OneVotePerBallot, NilIsNotAValue

\* Once a majority has accepted a real value, no proposer, filler or not,
\* ever sends Accept with another one.
THEOREM ChosenValuesStay == Spec => []ChosenStays
BY IInvChosenStays, Invariance, PTL

LEMMA ChosenOnce ==
    ASSUME IInv, NEW v \in Values, NEW w \in Values,
           NEW b \in Ballots, NEW c \in Ballots, ChosenAt(b, v), ChosenAt(c, w), b <= c
    PROVE  v = w
<1> DEFINE Q == {s \in Servers : Voted(s, b, v)}
           R == {s \in Servers : Voted(s, c, w)}
<1>1. Majority(Q) /\ Majority(R) /\ Q \in SUBSET Servers /\ R \in SUBSET Servers
  BY DEF ChosenAt, Voted
<1>2. PICK s \in Servers : s \in Q
  BY <1>1, QuorumsMeet
<1>3. PICK t \in Servers : t \in R
  BY <1>1, QuorumsMeet
<1>4. CASE b = c
  BY <1>2, <1>3, <1>4, OneVotePerBallot DEF MaybeValue
<1>5. CASE b < c
  <2>1. PICK m \in proposed : m.bal = c /\ m.val = w
    BY <1>3 DEF Voted, IInv, VoteInv
  <2> QED
    BY <1>5, <2>1, IInvChosenStays DEF ChosenStays
<1>6. b \in Int /\ c \in Int
  BY Numbers DEF IInv
<1> QED
  BY <1>4, <1>5, <1>6

LEMMA IInvAgreement == IInv => AgreementUnlessFilled
<1> SUFFICES ASSUME IInv, NilFree, NEW s \in Servers, NEW t \in Servers,
                    NEW v \in MaybeValue, NEW w \in MaybeValue, DecidedOn(s, v), DecidedOn(t, w)
             PROVE  v = w
  BY DEF AgreementUnlessFilled, Agreement
<1>1. Chosen(v) /\ Chosen(w)
  BY DEF IInv, DecisionInv, DecidedWasChosen, DecidedOn
<1>0. v \in Values /\ w \in Values
  BY <1>1, ChosenWasProposed DEF NilFree, MaybeValue
<1>2. PICK b \in Ballots, c \in Ballots : ChosenAt(b, v) /\ ChosenAt(c, w)
  BY <1>1 DEF Chosen
<1>3. b \in Int /\ c \in Int
  BY Numbers DEF IInv
<1>4. b <= c \/ c <= b
  BY <1>3
<1> QED
  BY <1>0, <1>2, <1>4, ChosenOnce

\* All servers report the same decided value as long as no filler proposed
\* nil, whatever is lost, delayed, reordered or restarted.
THEOREM ConditionalAgreement == Spec => []AgreementUnlessFilled
BY IInvAgreement, Invariance, PTL

(***************************************************************************)
(* Decisions are final                                                     *)
(***************************************************************************)
KeepsDecided ==
    \A s \in Servers : inst[s].status = "Decided" =>
        inst'[s].status = "Decided" /\ inst'[s].value = inst[s].value

LEMMA StepKeepsDecided == IInv /\ [Next]_vars => KeepsDecided
<1> SUFFICES ASSUME IInv, [Next]_vars PROVE KeepsDecided
  OBVIOUS
<1>1. TypeOK /\ TypeOK'
  BY NextTypeOK DEF IInv
<1>2. ASSUME Frame PROVE KeepsDecided
  BY Zenon, <1>2 DEF Frame, SameInst, KeepsDecided
<1>3. ASSUME UNCHANGED inst PROVE KeepsDecided
  BY <1>3 DEF KeepsDecided
<1>4. ASSUME NEW s \in Servers, NEW x, inst' = [inst EXCEPT ![s] = x], inst[s].status # "Decided"
      PROVE  KeepsDecided
  BY <1>1, <1>4 DEF KeepsDecided, TypeOK
<1>5. ASSUME NEW p \in Proposers, BeginRound(p) PROVE KeepsDecided
  <2>1. HomeOf(p) \in Servers
    BY HomeOfType
  <2> QED
    BY <1>1, <1>5, <2>1 DEF BeginRound, KeepsDecided, TypeOK
<1>6. ASSUME NEW m \in prepareArgs, Prepare(m) PROVE KeepsDecided
  <2> DEFINE i == Created(inst[m.to])
  <2>1. m.bal \in Int /\ i.prepare \in Int /\ m.to \in Servers /\ inst[m.to] \in Instance
    BY Zenon, <1>1, CreatedIsSame, Numbers DEF TypeOK
  <2>2. CASE i.status = "Decided" \/ m.bal <= i.prepare
    BY <1>1, <1>2, <1>6, <2>2, PrepareRefused
  <2>3. CASE i.status # "Decided" /\ m.bal > i.prepare
    <3>1. inst' = [inst EXCEPT ![m.to] = [i EXCEPT !.prepare = m.bal]]
      BY <1>6, <2>1, <2>3 DEF Prepare
    <3>2. inst[m.to].status # "Decided"
      BY Zenon, <2>1, <2>3, CreatedIsSame
    <3> QED
      BY Zenon, <1>4, <2>1, <3>1, <3>2
  <2> QED
    BY <2>1, <2>2, <2>3
<1>7. ASSUME NEW r \in prepareReply, SendAccept(r) PROVE KeepsDecided
  <2>1. HomeOf(r.by) \in Servers
    BY <1>1, HomeOfType DEF TypeOK
  <2> QED
    BY Zenon, <1>4, <1>7, <2>1 DEF SendAccept
<1>8. ASSUME NEW m \in acceptArgs, Accept(m) PROVE KeepsDecided
  <2> DEFINE i == Created(inst[m.to])
  <2>1. m.bal \in Int /\ i.prepare \in Int /\ m.to \in Servers /\ inst[m.to] \in Instance
    BY Zenon, <1>1, CreatedIsSame, Numbers DEF TypeOK
  <2>2. CASE i.status = "Decided" \/ m.bal < i.prepare
    BY <1>1, <1>2, <1>8, <2>2, AcceptRefused
  <2>3. CASE i.status # "Decided" /\ m.bal >= i.prepare
    <3>1. inst' = [inst EXCEPT ![m.to] = [i EXCEPT !.prepare = m.bal, !.accept = m.bal, !.value = m.val]]
      BY <1>8, <2>1, <2>3 DEF Accept
    <3>2. inst[m.to].status # "Decided"
      BY Zenon, <2>1, <2>3, CreatedIsSame
    <3> QED
      BY Zenon, <1>4, <2>1, <3>1, <3>2
  <2> QED
    BY <2>1, <2>2, <2>3
<1>9. ASSUME NEW d \in decides, Learn(d) PROVE KeepsDecided
  <2>1. d.srv \in Servers
    BY <1>1 DEF TypeOK
  <2> QED
    BY <1>3, <1>4, <1>9, <2>1 DEF Learn
<1>10. CASE \E s \in Servers : CreateGap(s) \/ Restart(s)
  BY <1>1, <1>2, <1>10, FrameSteps
<1>11. CASE \E c \in Clients : Start(c)
  BY <1>1, <1>2, <1>11, FrameSteps
<1>12. CASE \E p \in Proposers : FindDecided(p)
  BY <1>1, <1>2, <1>12, FrameSteps
<1>13. CASE \E p \in Proposers, t \in Servers : FailPrepare(p, t) \/ FailAccept(p, t)
  BY <1>1, <1>2, <1>13, FrameSteps
<1>14. CASE \E r \in prepareReply : LoseRace(r) \/ LearnDecided(r) \/ ReceiveLow(r)
  BY <1>1, <1>2, <1>14, FrameSteps
<1>15. CASE \E r \in acceptReply : SendDecide(r) \/ ReceiveRefused(r)
  BY <1>1, <1>2, <1>15, FrameSteps
<1>16. CASE \E m \in decideArgs : Decide(m)
  BY <1>1, <1>2, <1>16, FrameSteps
<1>17. CASE \E r \in prepareReply : ReceivePromise(r)
  BY <1>3, <1>17 DEF ReceivePromise
<1>18. CASE \E r \in acceptReply : ReceiveAccepted(r)
  BY <1>3, <1>18 DEF ReceiveAccepted
<1>19. CASE UNCHANGED vars
  BY <1>3, <1>19 DEF vars
<1> QED
  BY <1>5, <1>6, <1>7, <1>8, <1>9, <1>10, <1>11, <1>12, <1>13, <1>14, <1>15, <1>16, <1>17,
     <1>18, <1>19, RestartingType DEF Next

\* Once Status() reports a decision it never changes: late Accept, Prepare and
\* Decide requests, other proposers and graceful restarts leave it alone.
THEOREM DecisionsAreFinal == Spec => DecidedStable
<1>1. IInv /\ [Next]_vars =>
        [\A s \in Servers : inst[s].status = "Decided" =>
             inst'[s].status = "Decided" /\ inst'[s].value = inst[s].value]_vars
  BY StepKeepsDecided DEF KeepsDecided
<1> QED
  BY <1>1, Invariance, PTL DEF Spec, DecidedStable

(***************************************************************************)
(* Without fillers                                                         *)
(***************************************************************************)

\* A filler that never wakes up is in no round, and no proposal is nil.
AsleepInv ==
    /\ \A s \in Servers : prop[s].pc \notin {"prepare", "accept"}
    /\ NilFree

LEMMA StepKeepsAsleep ==
    ASSUME Impatient = {}, IInv, AsleepInv, [Next]_vars
    PROVE  AsleepInv'
<1>1. TypeOK /\ TypeOK'
  BY NextTypeOK DEF IInv
<1>0. \A s \in Servers : s \in Proposers /\ s \notin Clients
  BY ClientsAreNotServers DEF Proposers
<1>2. ASSUME UNCHANGED proposed, \A p \in Proposers : SameRound(p) PROVE AsleepInv'
  BY <1>0, <1>2 DEF AsleepInv, NilFree, SameRound
<1>3. ASSUME Frame PROVE AsleepInv'
  BY Zenon, <1>2, <1>3 DEF Frame, hist
<1>5. ASSUME NEW p \in Proposers, BeginRound(p) PROVE AsleepInv'
  BY <1>0, <1>1, <1>5 DEF BeginRound, Awake, AsleepInv, NilFree, TypeOK
<1>6. ASSUME NEW m \in prepareArgs, Prepare(m) PROVE AsleepInv'
  <2>1. m.to \in Servers
    BY <1>1 DEF TypeOK
  <2> QED
    BY <1>1, <1>2, <1>6, <2>1, WithFillerIsSame DEF Prepare
<1>7. ASSUME NEW r \in prepareReply, SendAccept(r) PROVE AsleepInv'
  <2> DEFINE p == r.by
             q == Heard(prop[p], r)
             v == ToPropose(p, q)
  <2>1. p \in Proposers /\ prop[p].pc = "prepare"
    BY <1>1, <1>7 DEF TypeOK, SendAccept, InPrepare
  <2>2. p \in Clients
    BY <2>1 DEF AsleepInv, Proposers
  <2>3. v # Nil
    BY <2>2, InputType, NilIsNotAValue DEF ToPropose, InputOf
  <2>4. NilFree'
    BY <1>7, <2>3 DEF SendAccept, AsleepInv, NilFree
  <2>5. \A s \in Servers : prop'[s] = prop[s]
    BY <1>0, <1>1, <1>7, <2>2 DEF SendAccept, TypeOK
  <2> QED
    BY <2>4, <2>5 DEF AsleepInv
<1>8. ASSUME NEW m \in acceptArgs, Accept(m) PROVE AsleepInv'
  <2>1. m.to \in Servers
    BY <1>1 DEF TypeOK
  <2> QED
    BY <1>1, <1>2, <1>8, <2>1, WithFillerIsSame DEF Accept
<1>9. ASSUME NEW d \in decides, Learn(d) PROVE AsleepInv'
  BY <1>9 DEF Learn, AsleepInv, NilFree, hist
<1>10. CASE \E s \in Servers : CreateGap(s) \/ Restart(s)
  BY <1>1, <1>3, <1>10, FrameSteps
<1>11. CASE \E c \in Clients : Start(c)
  BY <1>1, <1>3, <1>11, FrameSteps
<1>12. CASE \E p \in Proposers : FindDecided(p)
  BY <1>1, <1>3, <1>12, FrameSteps
<1>13. CASE \E p \in Proposers, t \in Servers : FailPrepare(p, t) \/ FailAccept(p, t)
  BY <1>1, <1>3, <1>13, FrameSteps
<1>14. CASE \E r \in prepareReply : LoseRace(r) \/ LearnDecided(r) \/ ReceiveLow(r)
  BY <1>1, <1>3, <1>14, FrameSteps
<1>15. CASE \E r \in acceptReply : SendDecide(r) \/ ReceiveRefused(r)
  BY <1>1, <1>3, <1>15, FrameSteps
<1>16. CASE \E m \in decideArgs : Decide(m)
  BY <1>1, <1>3, <1>16, FrameSteps
<1>17. ASSUME NEW r \in prepareReply, ReceivePromise(r) PROVE AsleepInv'
  <2>1. r.by \in Proposers /\ prop[r.by].pc = "prepare"
    BY <1>1, <1>17 DEF TypeOK, ReceivePromise, InPrepare
  <2>2. r.by \in Clients
    BY <2>1 DEF AsleepInv, Proposers
  <2>3. \A s \in Servers : prop'[s] = prop[s]
    BY Zenon, <1>0, <1>1, <1>17, <2>2 DEF ReceivePromise, TypeOK
  <2> QED
    BY <1>17, <2>3 DEF ReceivePromise, AsleepInv, NilFree, hist
<1>18. ASSUME NEW r \in acceptReply, ReceiveAccepted(r) PROVE AsleepInv'
  <2>1. r.by \in Proposers /\ prop[r.by].pc = "accept"
    BY <1>1, <1>18 DEF TypeOK, ReceiveAccepted, InAccept
  <2>2. r.by \in Clients
    BY <2>1 DEF AsleepInv, Proposers
  <2>3. \A s \in Servers : prop'[s] = prop[s]
    BY <1>0, <1>1, <1>18, <2>2 DEF ReceiveAccepted, TypeOK
  <2> QED
    BY <1>18, <2>3 DEF ReceiveAccepted, AsleepInv, NilFree, hist
<1>19. CASE UNCHANGED vars
  BY <1>19 DEF vars, hist, AsleepInv, NilFree
<1> QED
  BY <1>5, <1>6, <1>7, <1>8, <1>9, <1>10, <1>11, <1>12, <1>13, <1>14, <1>15, <1>16, <1>17,
     <1>18, <1>19, RestartingType DEF Next

\* When no filler wakes up, no proposal is nil and all servers agree.
THEOREM UnconditionalAgreement ==
    ASSUME Impatient = {}
    PROVE  Spec => []Agreement
<1>1. Init => AsleepInv
  BY DEF Init, NoProposer, AsleepInv, NilFree, Proposers
<1>2. IInv /\ AsleepInv /\ [Next]_vars => AsleepInv'
  BY StepKeepsAsleep
<1>3. IInv /\ AsleepInv => Agreement
  BY IInvAgreement DEF AgreementUnlessFilled, AsleepInv
<1> QED
  BY <1>1, <1>2, <1>3, Invariance, PTL DEF Spec

\* The values Status() reports, the refinement mapping of C
Reported == {inst[s].value : s \in {t \in Servers : inst[t].status = "Decided"}}

SoundReports ==
    /\ \A s, t \in Servers : inst[s].status = "Decided" /\ inst[t].status = "Decided" =>
                              inst[s].value = inst[t].value
    /\ \A s \in Servers : inst[s].status = "Decided" => inst[s].value \in Values

LEMMA ReportsAreSound == IInv /\ AsleepInv => SoundReports
<1> SUFFICES ASSUME IInv, AsleepInv PROVE SoundReports
  OBVIOUS
<1>1. Agreement
  BY IInvAgreement DEF AgreementUnlessFilled, AsleepInv
<1>2. \A s \in Servers : inst[s].value \in MaybeValue
  BY DEF IInv, TypeOK, Instance
<1>3. ASSUME NEW s \in Servers, inst[s].status = "Decided" PROVE inst[s].value \in Values
  <2>1. Chosen(inst[s].value)
    BY <1>3 DEF IInv, DecisionInv, DecidedWasChosen, AsleepInv
  <2>2. \E m \in proposed : m.val = inst[s].value
    BY <2>1, ChosenWasProposed
  <2> QED
    BY <1>2, <2>2 DEF MaybeValue, AsleepInv, NilFree
<1> QED
  BY <1>1, <1>2, <1>3 DEF SoundReports, Agreement, DecidedOn

LEMMA StepRefines ==
    ASSUME KeepsDecided, SoundReports'
    PROVE  Reported' = Reported \/ \E v \in Values : Reported = {} /\ Reported' = {v}
<1>1. /\ \A s, t \in Servers : inst'[s].status = "Decided" /\ inst'[t].status = "Decided" =>
                                inst'[s].value = inst'[t].value
      /\ \A s \in Servers : inst'[s].status = "Decided" => inst'[s].value \in Values
  BY DEF SoundReports
<1>2. CASE \E s \in Servers : inst[s].status = "Decided"
  <2>1. PICK s \in Servers : inst[s].status = "Decided"
    BY <1>2
  <2>2. inst'[s].status = "Decided" /\ inst'[s].value = inst[s].value
    BY <2>1 DEF KeepsDecided
  <2>3. Reported' = {inst[s].value}
    BY <1>1, <2>2 DEF Reported
  <2>4. \A t \in Servers : inst[t].status = "Decided" => inst[t].value = inst[s].value
    BY <1>1, <2>1 DEF KeepsDecided
  <2>5. Reported = {inst[s].value}
    BY <2>1, <2>4 DEF Reported
  <2> QED
    BY <2>3, <2>5
<1>3. CASE \A s \in Servers : inst[s].status # "Decided"
  <2>1. Reported = {}
    BY <1>3 DEF Reported
  <2>2. CASE \A s \in Servers : inst'[s].status # "Decided"
    BY <2>1, <2>2 DEF Reported
  <2>3. CASE \E s \in Servers : inst'[s].status = "Decided"
    <3>1. PICK s \in Servers : inst'[s].status = "Decided"
      BY <2>3
    <3>2. Reported' = {inst'[s].value} /\ inst'[s].value \in Values
      BY <1>1, <3>1 DEF Reported
    <3> QED
      BY <2>1, <3>2
  <2> QED
    BY <2>2, <2>3
<1> QED
  BY <1>2, <1>3

\* When no filler wakes up, the instance implements the abstract consensus
\* object: the set of reported values is empty, then one proposed value.
THEOREM Refinement ==
    ASSUME Impatient = {}
    PROVE  Spec => RefinesConsensus
<1>1. Init => AsleepInv
  BY DEF Init, NoProposer, AsleepInv, NilFree, Proposers
<1>2. IInv /\ AsleepInv /\ [Next]_vars => AsleepInv'
  BY StepKeepsAsleep
<1>3. Init => C!Init
  BY DEF Init, NoInstance, C!Init
<1>4. IInv /\ SoundReports' /\ [Next]_vars =>
        [C!Next]_({inst[s].value : s \in {t \in Servers : inst[t].status = "Decided"}})
  BY Zenon, StepKeepsDecided, StepRefines DEF Reported, C!Next, C!Choose
<1> QED
  BY <1>1, <1>2, <1>3, <1>4, Invariance, ReportsAreSound, PTL DEF Spec, RefinesConsensus, C!Spec
=============================================================================
