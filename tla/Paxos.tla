-------------------------------- MODULE Paxos --------------------------------
(***************************************************************************)
(* One instance (one sequence number) of the Paxos library of              *)
(* src/src/paxos: the proposer goroutines, the Prepare, Accept and Decide  *)
(* RPC handlers, the decide goroutines, the persister, graceful restarts   *)
(* and crashes.  The instance is never forgotten: the lock server, the     *)
(* only user of the library, never calls Done.                             *)
(*                                                                         *)
(* Proposers.  A client proposer is the goroutine of one Start(seq, v)     *)
(* call, on server Home[c] with value Input[c].  A filler is the goroutine *)
(* that getInstanceL or readPersist starts with a nil value; a server has  *)
(* at most one per life, so the filler of server s is named s.  A filler   *)
(* sleeps 2.5 to 5 seconds before its first round: only the fillers of the *)
(* servers in Impatient ever wake up before the instance is decided.       *)
(*                                                                         *)
(* Network (labrpc).  A request is executed at most once, at any later     *)
(* time, in any order.  A call may fail before or after its execution; the *)
(* caller then reads a zero reply.  A reply to a round that its proposer   *)
(* has left lands in a channel nobody reads, and is not represented.       *)
(***************************************************************************)
EXTENDS Integers, FiniteSets

CONSTANTS
    Servers,    \* the Paxos peers
    Clients,    \* one per Start call on this instance
    Values,     \* the values the application proposes, all non-nil
    Nil,        \* Go's nil interface value
    Home,       \* Home[c]: the server on which Start call c is made
    Input,      \* Input[c]: the value it proposes
    Impatient,  \* servers whose filler may wake up
    Restarting, \* servers that are shut down and started again
    Durable,    \* MakePersister(durable)
    MaxBallot   \* bound: no round uses a higher proposal number

ASSUME ServersFinite == IsFiniteSet(Servers)
ASSUME ClientsAreNotServers == Clients \cap Servers = {}
ASSUME HomeType == Home \in [Clients -> Servers]
ASSUME InputType == Input \in [Clients -> Values]
ASSUME NilIsNotAValue == Nil \notin Values
ASSUME ImpatientType == Impatient \subseteq Servers
ASSUME RestartingType == Restarting \subseteq Servers
ASSUME DurableType == Durable \in BOOLEAN
ASSUME MaxBallotType == MaxBallot \in Nat

VARIABLES
    inst,           \* inst[s]: the Instance of server s
    disk,           \* disk[s]: what the Persister of s holds for it
    enable,         \* enable[s]: Persister.enable, are changes saved as they happen?
    prop,           \* prop[p]: local variables of proposer goroutine p
    prepareArgs,    \* Prepare requests in flight
    prepareReply,   \* Prepare replies in flight
    acceptArgs,     \* Accept requests in flight
    acceptReply,    \* Accept replies in flight
    decideArgs,     \* Decide requests in flight
    decides,        \* "go px.decide" goroutines that have not run yet
    promises,       \* history: every promise made, own ones included
    votes,          \* history: every acceptance, own ones included
    proposed        \* history: every value sent with Accept

calls == <<prepareArgs, prepareReply, acceptArgs, acceptReply, decideArgs>>
hist  == <<promises, votes, proposed>>
vars  == <<inst, disk, enable, prop, calls, decides, hist>>

(***************************************************************************)
(* Data                                                                    *)
(***************************************************************************)
Ballots    == 0 .. MaxBallot
MaybeValue == Values \cup {Nil}
Proposers  == Clients \cup Servers

HomeOf(p)  == IF p \in Clients THEN Home[p] ELSE p
InputOf(p) == IF p \in Clients THEN Input[p] ELSE Nil

\* Mutant: ">=" for ">"
MajorityOrHalf(S) == Cardinality(S) * 2 >= Cardinality(Servers)

\* votes*2 > numServers
Majority(S) == Cardinality(S) * 2 > Cardinality(Servers)

\* (i+1-votes)*2 >= numServers: the calls that did not return Ok
TooManyFailed(S) == Cardinality(S) * 2 >= Cardinality(Servers)

\* Status "Exceeded" stands for a sequence number beyond the instances slice.
Instance == [prepare : Ballots, accept : Ballots, value : MaybeValue,
             status : {"Exceeded", "Pending", "Decided"}]

NoInstance == [prepare |-> 0, accept |-> 0, value |-> Nil, status |-> "Exceeded"]

\* The locals of proposer().  "wait" is the top of the loop, "prepare" and
\* "accept" the two receive loops, "off" before the goroutine exists and
\* "dead" after it returned.  yes holds the servers counted in votes, no the
\* ones that answered otherwise.
Proposer == [pc : {"off", "wait", "prepare", "accept", "dead"},
             prepare : Ballots, accept : Ballots, value : MaybeValue,
             yes : SUBSET Servers, no : SUBSET Servers, replyPrepare : Ballots]

NoProposer == [pc |-> "off", prepare |-> 0, accept |-> 0, value |-> Nil,
               yes |-> {}, no |-> {}, replyPrepare |-> 0]

\* A goroutine between rounds: the locals of the loop body are out of scope.
Idle(pc) == [NoProposer EXCEPT !.pc = pc]

Ok   == -1      \* AcceptReply.Reply of an acceptance
Fail == 0       \* ... and of a failed call

Init ==
    /\ inst = [s \in Servers |-> NoInstance]
    /\ disk = [s \in Servers |-> NoInstance]
    /\ enable = [s \in Servers |-> Durable]
    /\ prop = [p \in Proposers |-> NoProposer]
    /\ prepareArgs = {} /\ prepareReply = {}
    /\ acceptArgs = {} /\ acceptReply = {} /\ decideArgs = {}
    /\ decides = {}
    /\ promises = {} /\ votes = {} /\ proposed = {}

(***************************************************************************)
(* Instances                                                               *)
(***************************************************************************)

\* getInstanceL: the instance a handler works on, created when missing
Created(i) == IF i.status = "Exceeded" THEN [i EXCEPT !.status = "Pending"] ELSE i

\* Mutant: the goroutine is not started
WithoutFiller(s) == prop

\* getInstanceL(seq, true): creating the instance also starts a filler
WithFiller(s) ==
    IF inst[s].status = "Exceeded" THEN [prop EXCEPT ![s].pc = "wait"] ELSE prop

\* Mutant: nothing is saved
NotPersisted(s, i) == disk

\* persistInstanceL
Persisted(s, i) == IF enable[s] THEN [disk EXCEPT ![s] = i] ELSE disk

\* The instance is created because a later sequence number is used, or
\* because the ticker heard of a decision it does not know.
CreateGap(s) ==
    /\ inst[s].status = "Exceeded"
    /\ inst' = [inst EXCEPT ![s] = Created(@)]
    /\ prop' = WithFiller(s)
    /\ UNCHANGED <<disk, enable, calls, decides, hist>>

Start(c) ==
    /\ prop[c].pc = "off"
    /\ inst' = [inst EXCEPT ![Home[c]] = Created(@)]
    /\ prop' = [prop EXCEPT ![c].pc = "wait"]
    /\ UNCHANGED <<disk, enable, calls, decides, hist>>

(***************************************************************************)
(* proposer(): the prepare phase                                           *)
(***************************************************************************)
Awake(p) == prop[p].pc = "wait" /\ (p \in Clients \/ p \in Impatient)

FindDecided(p) ==
    /\ Awake(p)
    /\ inst[HomeOf(p)].status = "Decided"
    /\ prop' = [prop EXCEPT ![p] = Idle("dead")]
    /\ UNCHANGED <<inst, disk, enable, calls, decides, hist>>

BeginRound(p) ==
    LET h == HomeOf(p)
        b == inst[h].prepare + 1
    IN  /\ Awake(p)
        /\ inst[h].status # "Decided"
        /\ b <= MaxBallot
        /\ inst' = [inst EXCEPT ![h].prepare = b]
        /\ prop' = [prop EXCEPT ![p] =
                       [pc |-> "prepare", prepare |-> b, accept |-> inst[h].accept,
                        value |-> inst[h].value, yes |-> {h}, no |-> {}, replyPrepare |-> 0]]
        /\ prepareArgs' = prepareArgs \cup
                             {[by |-> p, bal |-> b, to |-> t] : t \in Servers \ {h}}
        /\ promises' = promises \cup {[srv |-> h, bal |-> b, by |-> p,
                                       acc |-> inst[h].accept, val |-> inst[h].value]}
        /\ UNCHANGED <<disk, enable, prepareReply, acceptArgs, acceptReply, decideArgs,
                       decides, votes, proposed>>

\* The proposer is still in the round that m belongs to.
InPrepare(m) == prop[m.by].pc = "prepare" /\ prop[m.by].prepare = m.bal
InAccept(m)  == prop[m.by].pc = "accept" /\ prop[m.by].prepare = m.bal

\* The reply channel of a round is dropped when the round ends.
OthersReplies(replies, p) == {r \in replies : r.by # p}

\* Handler of the Prepare RPC.  A promise is not persisted.
Prepare(m) ==
    LET s == m.to
        i == Created(inst[s])
        Answer(code, acpr, val) ==
            prepareReply' = IF InPrepare(m)
                            THEN prepareReply \cup
                                   {[by |-> m.by, bal |-> m.bal, from |-> s,
                                     code |-> code, acpr |-> acpr, val |-> val]}
                            ELSE prepareReply
    IN  /\ prepareArgs' = prepareArgs \ {m}
        /\ prop' = WithFiller(s)
        /\ \/ /\ i.status = "Decided"
              /\ inst' = [inst EXCEPT ![s] = i]
              /\ Answer("HasDecided", 0, i.value)
              /\ UNCHANGED promises
           \/ /\ i.status # "Decided" /\ m.bal > i.prepare
              /\ inst' = [inst EXCEPT ![s] = [i EXCEPT !.prepare = m.bal]]
              /\ Answer("Ok", i.accept, i.value)
              /\ promises' = promises \cup {[srv |-> s, bal |-> m.bal, by |-> m.by,
                                             acc |-> i.accept, val |-> i.value]}
           \/ /\ i.status # "Decided" /\ m.bal <= i.prepare
              /\ inst' = [inst EXCEPT ![s] = i]
              /\ Answer("LowPrepare", i.prepare, Nil)
              /\ UNCHANGED promises
        /\ UNCHANGED <<disk, enable, acceptArgs, acceptReply, decideArgs, decides, votes, proposed>>

\* Mutant: the accepted value of the reply is ignored
HeardVoteOnly(q, r) == [q EXCEPT !.yes = @ \cup {r.from}]

\* The locals after an Ok reply: one more vote, the highest accepted value.
Heard(q, r) ==
    [q EXCEPT !.yes = @ \cup {r.from},
              !.accept = IF r.acpr > @ THEN r.acpr ELSE @,
              !.value = IF r.acpr > q.accept THEN r.val ELSE @]

ReceivePromise(r) ==
    LET q == Heard(prop[r.by], r)
    IN  /\ InPrepare(r) /\ r.code = "Ok"
        /\ ~ Majority(q.yes)
        /\ prop' = [prop EXCEPT ![r.by] = q]
        /\ prepareReply' = prepareReply \ {r}
        /\ UNCHANGED <<inst, disk, enable, prepareArgs, acceptArgs, acceptReply, decideArgs,
                       decides, hist>>

\* if value == nil { value = v }
ToPropose(p, q) == IF q.value = Nil THEN InputOf(p) ELSE q.value

\* The last Ok of a majority, and the section under inst.mu that follows it:
\* the proposer accepts its own proposal and sends Accept to the others.
SendAccept(r) ==
    LET p == r.by
        h == HomeOf(p)
        q == Heard(prop[p], r)
        v == ToPropose(p, q)
        i == [inst[h] EXCEPT !.accept = q.prepare, !.value = v]
    IN  /\ InPrepare(r) /\ r.code = "Ok"
        /\ Majority(q.yes)
        /\ inst[h].status # "Decided" /\ inst[h].prepare = q.prepare
        /\ inst' = [inst EXCEPT ![h] = i]
        /\ disk' = Persisted(h, i)
        /\ prop' = [prop EXCEPT ![p] =
                       [pc |-> "accept", prepare |-> q.prepare, accept |-> q.prepare,
                        value |-> v, yes |-> {h}, no |-> {}, replyPrepare |-> q.prepare]]
        /\ prepareReply' = OthersReplies(prepareReply, p)
        /\ acceptArgs' = acceptArgs \cup {[by |-> p, bal |-> q.prepare, to |-> t, val |-> v] :
                                          t \in Servers \ {h}}
        /\ votes' = votes \cup {[srv |-> h, bal |-> q.prepare, val |-> v]}
        /\ proposed' = proposed \cup {[bal |-> q.prepare, val |-> v, by |-> p]}
        /\ UNCHANGED <<enable, prepareArgs, acceptReply, decideArgs, decides, promises>>

\* ... or the instance has moved on: return if decided, else retry.
LoseRace(r) ==
    LET p == r.by
        i == inst[HomeOf(p)]
    IN  /\ InPrepare(r) /\ r.code = "Ok"
        /\ Majority(Heard(prop[p], r).yes)
        /\ i.status = "Decided" \/ i.prepare # prop[p].prepare
        /\ prop' = [prop EXCEPT ![p] = Idle(IF i.status = "Decided" THEN "dead" ELSE "wait")]
        /\ prepareReply' = OthersReplies(prepareReply, p)
        /\ UNCHANGED <<inst, disk, enable, prepareArgs, acceptArgs, acceptReply, decideArgs,
                       decides, hist>>

LearnDecided(r) ==
    /\ InPrepare(r) /\ r.code = "HasDecided"
    /\ decides' = decides \cup {[srv |-> HomeOf(r.by), val |-> r.val]}
    /\ prop' = [prop EXCEPT ![r.by] = Idle("dead")]
    /\ prepareReply' = OthersReplies(prepareReply, r.by)
    /\ UNCHANGED <<inst, disk, enable, prepareArgs, acceptArgs, acceptReply, decideArgs, hist>>

\* Mutant: the next number is taken twice
RaisedPast(s, n) == [inst EXCEPT ![s].prepare = IF n > @ THEN n + 1 ELSE @]

\* if n > inst.prepare { inst.prepare = n }
Raised(s, n) == [inst EXCEPT ![s].prepare = IF n > @ THEN n ELSE @]

ReceiveLow(r) ==
    /\ InPrepare(r) /\ r.code = "LowPrepare"
    /\ inst' = Raised(HomeOf(r.by), r.acpr)
    /\ prop' = [prop EXCEPT ![r.by] = Idle("wait")]
    /\ prepareReply' = OthersReplies(prepareReply, r.by)
    /\ UNCHANGED <<disk, enable, prepareArgs, acceptArgs, acceptReply, decideArgs, decides, hist>>

\* The Prepare call to t fails, its request or its reply is lost.
FailPrepare(p, t) ==
    LET Lost(m) == m.by = p /\ m.bal = prop[p].prepare
        no == prop[p].no \cup {t}
        bad == TooManyFailed(no)
    IN  /\ prop[p].pc = "prepare"
        /\ t \in Servers \ (prop[p].yes \cup prop[p].no)
        /\ prop' = [prop EXCEPT ![p] = IF bad THEN Idle("wait") ELSE [@ EXCEPT !.no = no]]
        /\ prepareArgs' = {m \in prepareArgs : ~ (Lost(m) /\ m.to = t)}
        /\ prepareReply' = {r \in prepareReply : ~ (Lost(r) /\ (r.from = t \/ bad))}
        /\ UNCHANGED <<inst, disk, enable, acceptArgs, acceptReply, decideArgs, decides, hist>>

(***************************************************************************)
(* proposer(): the accept phase                                            *)
(***************************************************************************)

\* Mutant: a decided instance answers Ok
RefusalUnlessDecided(i) == IF i.status = "Decided" THEN Ok ELSE i.prepare

\* reply.Reply = inst.prepare
Refusal(i) == i.prepare

\* Handler of the Accept RPC
Accept(m) ==
    LET s == m.to
        i == Created(inst[s])
        Answer(n) ==
            acceptReply' = IF InAccept(m)
                           THEN acceptReply \cup
                                  {[by |-> m.by, bal |-> m.bal, from |-> s, reply |-> n]}
                           ELSE acceptReply
        ni == [i EXCEPT !.prepare = m.bal, !.accept = m.bal, !.value = m.val]
    IN  /\ acceptArgs' = acceptArgs \ {m}
        /\ prop' = WithFiller(s)
        /\ \/ /\ i.status # "Decided" /\ m.bal >= i.prepare
              /\ inst' = [inst EXCEPT ![s] = ni]
              /\ disk' = Persisted(s, ni)
              /\ Answer(Ok)
              /\ votes' = votes \cup {[srv |-> s, bal |-> m.bal, val |-> m.val]}
           \/ /\ i.status = "Decided" \/ m.bal < i.prepare
              /\ inst' = [inst EXCEPT ![s] = i]
              /\ Answer(Refusal(i))
              /\ UNCHANGED <<disk, votes>>
        /\ UNCHANGED <<enable, prepareArgs, prepareReply, decideArgs, decides, promises, proposed>>

ReceiveAccepted(r) ==
    LET yes == prop[r.by].yes \cup {r.from}
    IN  /\ InAccept(r) /\ r.reply = Ok
        /\ ~ Majority(yes)
        /\ prop' = [prop EXCEPT ![r.by].yes = yes]
        /\ acceptReply' = acceptReply \ {r}
        /\ UNCHANGED <<inst, disk, enable, prepareArgs, prepareReply, acceptArgs, decideArgs,
                       decides, hist>>

\* acceptOk: tell everybody and return
SendDecide(r) ==
    LET p == r.by
        h == HomeOf(p)
    IN  /\ InAccept(r) /\ r.reply = Ok
        /\ Majority(prop[p].yes \cup {r.from})
        /\ decideArgs' = decideArgs \cup {[to |-> t, val |-> prop[p].value] :
                                          t \in Servers \ {h}}
        /\ decides' = decides \cup {[srv |-> h, val |-> prop[p].value]}
        /\ prop' = [prop EXCEPT ![p] = Idle("dead")]
        /\ acceptReply' = OthersReplies(acceptReply, p)
        /\ UNCHANGED <<inst, disk, enable, prepareArgs, prepareReply, acceptArgs, hist>>

\* One more reply that is not Ok: n is the reply, 0 when the call failed.
\* Too many of them end the round.
NotAccepted(p, t, n) ==
    LET no   == prop[p].no \cup {t}
        high == IF n > prop[p].replyPrepare THEN n ELSE prop[p].replyPrepare
        over == TooManyFailed(no)
    IN  /\ prop' = [prop EXCEPT ![p] = IF over THEN Idle("wait")
                                         ELSE [@ EXCEPT !.no = no, !.replyPrepare = high]]
        /\ inst' = IF over /\ high > prop[p].prepare THEN Raised(HomeOf(p), high) ELSE inst
        /\ acceptReply' = {r \in acceptReply : ~ (r.by = p /\ (r.from = t \/ over))}

ReceiveRefused(r) ==
    /\ InAccept(r) /\ r.reply # Ok
    /\ NotAccepted(r.by, r.from, r.reply)
    /\ UNCHANGED <<disk, enable, prepareArgs, prepareReply, acceptArgs, decideArgs, decides, hist>>

FailAccept(p, t) ==
    /\ prop[p].pc = "accept"
    /\ t \in Servers \ (prop[p].yes \cup prop[p].no)
    /\ NotAccepted(p, t, Fail)
    /\ acceptArgs' = {m \in acceptArgs :
                        ~ (m.by = p /\ m.bal = prop[p].prepare /\ m.to = t)}
    /\ UNCHANGED <<disk, enable, prepareArgs, prepareReply, decideArgs, decides, hist>>

(***************************************************************************)
(* Learning                                                                *)
(***************************************************************************)

\* Handler of the Decide RPC
Decide(m) ==
    /\ decideArgs' = decideArgs \ {m}
    /\ inst' = [inst EXCEPT ![m.to] = Created(@)]
    /\ decides' = decides \cup {[srv |-> m.to, val |-> m.val]}
    /\ UNCHANGED <<disk, enable, prop, prepareArgs, prepareReply, acceptArgs, acceptReply, hist>>

\* decide(): a nil value marks the instance Decided and keeps its value
Learn(d) ==
    LET s == d.srv
        i == [inst[s] EXCEPT !.status = "Decided",
                             !.value = IF d.val # Nil THEN d.val ELSE @]
    IN  /\ decides' = decides \ {d}
        /\ \/ /\ inst[s].status # "Decided"
              /\ inst' = [inst EXCEPT ![s] = i]
              /\ disk' = Persisted(s, i)
           \/ /\ inst[s].status = "Decided"
              /\ UNCHANGED <<inst, disk>>
        /\ UNCHANGED <<enable, prop, calls, hist>>

(***************************************************************************)
(* Restarts                                                                *)
(***************************************************************************)

\* A new life of server s: its goroutines are gone, and readPersist starts a
\* filler for a pending instance.
NewLife(s, i) ==
    /\ inst' = [inst EXCEPT ![s] = i]
    /\ prop' = [p \in Proposers |->
                  IF p = s
                  THEN Idle(IF i.status = "Pending" THEN "wait" ELSE "off")
                  ELSE IF HomeOf(p) = s /\ prop[p].pc # "off"
                  THEN Idle("dead")
                  ELSE prop[p]]
    /\ prepareReply' = {r \in prepareReply : HomeOf(r.by) # s}
    /\ acceptReply' = {r \in acceptReply : HomeOf(r.by) # s}
    /\ decides' = {d \in decides : d.srv # s}
    /\ UNCHANGED <<prepareArgs, acceptArgs, decideArgs, hist>>

\* Mutant: the persister is copied before Persist()
RestartUnsaved(s) ==
    /\ inst[s].status # "Exceeded"
    /\ NewLife(s, disk[s])
    /\ UNCHANGED <<disk, enable>>

\* PaxosServers.Shutdown, then Start: Persist saves every instance first
Restart(s) ==
    /\ inst[s].status # "Exceeded"
    /\ disk' = [disk EXCEPT ![s] = inst[s]]
    /\ NewLife(s, inst[s])
    /\ UNCHANGED enable

\* crash1 and start1 of the library's harness: the network is cut, then the
\* server resumes from what persistInstanceL had saved.  The persister that
\* crash1 leaves is not enabled.  A filler of the new life could use a number
\* of the old one again, and (by, bal) would not tell their rounds apart:
\* Impatient is empty where this is used.
Crash(s) ==
    /\ inst[s].status # "Exceeded"
    /\ NewLife(s, disk[s])
    /\ enable' = [enable EXCEPT ![s] = FALSE]
    /\ UNCHANGED disk

(***************************************************************************)
(* Specifications                                                          *)
(***************************************************************************)
Next ==
    \/ \E s \in Servers : CreateGap(s)
    \/ \E s \in Restarting : Restart(s)
    \/ \E c \in Clients : Start(c)
    \/ \E p \in Proposers : FindDecided(p) \/ BeginRound(p)
    \/ \E p \in Proposers, t \in Servers : FailPrepare(p, t) \/ FailAccept(p, t)
    \/ \E m \in prepareArgs : Prepare(m)
    \/ \E r \in prepareReply :
         ReceivePromise(r) \/ SendAccept(r) \/ LoseRace(r) \/ LearnDecided(r) \/ ReceiveLow(r)
    \/ \E m \in acceptArgs : Accept(m)
    \/ \E r \in acceptReply : ReceiveAccepted(r) \/ SendDecide(r) \/ ReceiveRefused(r)
    \/ \E m \in decideArgs : Decide(m)
    \/ \E d \in decides : Learn(d)

Spec == Init /\ [][Next]_vars

CrashNext == Next \/ \E s \in Restarting : Crash(s)

CrashSpec == Init /\ [][CrashNext]_vars

(***************************************************************************)
(* Properties                                                              *)
(***************************************************************************)

\* Every variable stays in its type; in particular the handlers and the
\* proposers never push a proposal number beyond those that rounds use.
TypeOK ==
    /\ inst \in [Servers -> Instance]
    /\ disk \in [Servers -> Instance]
    /\ enable \in [Servers -> BOOLEAN]
    /\ prop \in [Proposers -> Proposer]
    /\ prepareArgs \subseteq [by : Proposers, bal : Ballots, to : Servers]
    /\ prepareReply \subseteq [by : Proposers, bal : Ballots, from : Servers,
                               code : {"Ok", "LowPrepare", "HasDecided"},
                               acpr : Ballots, val : MaybeValue]
    /\ acceptArgs \subseteq [by : Proposers, bal : Ballots, to : Servers, val : MaybeValue]
    /\ acceptReply \subseteq [by : Proposers, bal : Ballots, from : Servers,
                              reply : Ballots \cup {Ok}]
    /\ decideArgs \subseteq [to : Servers, val : MaybeValue]
    /\ decides \subseteq [srv : Servers, val : MaybeValue]
    /\ promises \subseteq [srv : Servers, bal : Ballots, by : Proposers,
                           acc : Ballots, val : MaybeValue]
    /\ votes \subseteq [srv : Servers, bal : Ballots, val : MaybeValue]
    /\ proposed \subseteq [bal : Ballots, val : MaybeValue, by : Proposers]

\* A majority accepted v in ballot b.
ChosenAt(b, v) ==
    Majority({s \in Servers : [srv |-> s, bal |-> b, val |-> v] \in votes})

Chosen(v) == \E b \in Ballots : ChosenAt(b, v)

DecidedOn(s, v) == inst[s].status = "Decided" /\ inst[s].value = v

\* No filler has proposed nil.
NilFree == \A m \in proposed : m.val # Nil

\* Proposal numbers are not tagged with a server id, yet no two proposers
\* (and no proposer twice) send Accept requests with the same number.
OneProposalPerBallot ==
    \A m1, m2 \in proposed : m1.bal = m2.bal => m1 = m2

\* Status() reports the same decided value on every server.
Agreement ==
    \A s, t \in Servers : \A v, w \in MaybeValue :
        DecidedOn(s, v) /\ DecidedOn(t, w) => v = w

\* Servers agree as long as no filler has proposed nil.
AgreementUnlessFilled == NilFree => Agreement

\* A value that Status() reports as decided was accepted by a majority in
\* one ballot, unless a filler proposed nil.
DecidedWasChosen ==
    NilFree => \A s \in Servers :
                  inst[s].status = "Decided" => Chosen(inst[s].value)

\* Nobody waits for ever on an abandoned instance: a server with a pending
\* instance runs a proposer for it, or is about to learn the decision.
NoOrphan ==
    \A s \in Servers :
        inst[s].status = "Pending" =>
            \/ \E p \in Proposers : HomeOf(p) = s /\ prop[p].pc \notin {"off", "dead"}
            \/ \E d \in decides : d.srv = s

\* Once a majority has accepted a real value, every later proposal is of that
\* value: no other Start call and no filler replaces it.
ChosenStays ==
    \A m \in proposed, b \in Ballots, v \in Values :
        b < m.bal /\ ChosenAt(b, v) => m.val = v

\* What Status() reported as decided stays decided with the same value,
\* through late messages and restarts.
DecidedStable ==
    [][\A s \in Servers : inst[s].status = "Decided" =>
           inst'[s].status = "Decided" /\ inst'[s].value = inst[s].value]_vars

\* What a server has accepted, counted by a proposer or not, is on its disk
\* in that ballot or a later one, as long as its persister is enabled.
VotesDurable == \A v \in votes : enable[v.srv] => disk[v.srv].accept >= v.bal

\* A decision that Status() reported survives even a crash, as long as the
\* persister is enabled.
DecidedDurable ==
    [][\A s \in Servers : enable[s] /\ inst[s].status = "Decided" =>
           inst'[s].status = "Decided" /\ inst'[s].value = inst[s].value]_vars

\* The values that Status() reports, as the variable of module Consensus.
C == INSTANCE Consensus
       WITH chosen <- {inst[s].value : s \in {t \in Servers : inst[t].status = "Decided"}}

\* The instance implements the abstract consensus object.
RefinesConsensus == C!Spec
=============================================================================
