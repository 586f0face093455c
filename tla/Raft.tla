-------------------------------- MODULE Raft --------------------------------
(***************************************************************************)
(* The Raft library, src/src/raft: elections, log replication with the     *)
(* fast back-up of nextIndex, commitment, snapshots, the persister, and    *)
(* restarts of a server.                                                   *)
(*                                                                         *)
(* rf[s] is the Raft object of server s.  logs holds the log from          *)
(* startIndex on; its first entry is the sentinel logs[0] of the code, so  *)
(* that index i is logs[i - startIndex + 1].  commitIndex, lastApplied and *)
(* matchIndex are exclusive, as in the code.                               *)
(*                                                                         *)
(* Requests.  While a server is in the term of its leadership, heartbeat   *)
(* calls sendLog again and again, so every AppendEntries request it could  *)
(* send may be under way, in any number of copies: calls holds all the     *)
(* AppendEntries and InstallSnapshot requests that were ever sent, and     *)
(* handling one leaves it there for its next copy.  A request that is lost *)
(* is one that is never handled.  RequestVote is called once per peer and  *)
(* handled once; a reply is received once or lost.  A request belongs to   *)
(* the lives of the two servers between which it was sent: live says that  *)
(* the life that sent it still waits for the reply, and the requests to a  *)
(* server that stops are lost with it.                                     *)
(***************************************************************************)
EXTENDS Integers, Sequences, FiniteSets

CONSTANTS
    Servers,
    None,               \* votedFor before a vote (-1)
    Candidates,         \* bound: the servers whose election timer fires
    MaxTerm,            \* bound: terms
    MaxIndex,           \* bound: log entries
    MaxSnapshots,       \* bound: snapshots the services take
    MaxRestarts,        \* bound: restarts
    MaxReplies          \* bound: replies of AppendEntries and InstallSnapshot under way

ASSUME ServersFinite == IsFiniteSet(Servers) /\ None \notin Servers
ASSUME Bounds == {MaxTerm, MaxIndex, MaxSnapshots, MaxRestarts, MaxReplies} \subseteq Nat

VARIABLES
    rf,         \* rf[s]: the Raft object of s
    disk,       \* disk[s]: what the persister of s holds
    enable,     \* enable[s]: Persister.enable, are changes saved as they happen?
    calls,      \* AppendEntries, InstallSnapshot and RequestVote requests
    replies,    \* replies of AppendEntries and InstallSnapshot, refused votes
    grants,     \* granted votes: [to, from, Term]
    trims,      \* trims[s]: Snapshot goroutines that InstallSnapshot started
    app,        \* app[s]: commands the service of s has applied
    snaps, restarts     \* number of snapshots and restarts so far

vars == <<rf, disk, enable, calls, replies, grants, trims, app, snaps, restarts>>

Terms == 0 .. MaxTerm

\* A command is named after the server it was started on.
Entry == [Term : Terms, Command : Servers \cup {None}]

Sentinel(term) == [Term |-> term, Command |-> None]

Highest(S) == CHOOSE x \in S : \A y \in S : y <= x
Lowest(S)  == CHOOSE x \in S : \A y \in S : x <= y

(***************************************************************************)
(* The log of a Raft object r                                              *)
(***************************************************************************)
End(r) == r.startIndex + Len(r.logs)

TermAt(r, i) == r.logs[i - r.startIndex + 1].Term

\* The entries from index i on
From(r, i) == SubSeq(r.logs, i - r.startIndex + 1, Len(r.logs))

\* Start, and getLastLogL
getLastLogL(r) == [Term |-> TermAt(r, End(r) - 1), Index |-> End(r) - 1]

(***************************************************************************)
(* Make, and the persister                                                 *)
(***************************************************************************)
Persistent(r, snapshot) ==
    [currentTerm |-> r.currentTerm, votedFor |-> r.votedFor, logs |-> r.logs,
     startIndex |-> r.startIndex, snapshot |-> snapshot]

NoState ==
    [currentTerm |-> 0, votedFor |-> None, logs |-> <<Sentinel(0)>>, startIndex |-> 0, snapshot |-> <<>>]

\* Mutant of Make: lastApplied is not taken from the snapshot.
MakeFromOne(d) ==
    [currentTerm |-> d.currentTerm, votedFor |-> d.votedFor, state |-> "Follower",
     logs |-> d.logs, startIndex |-> d.startIndex, snapshot |-> d.snapshot,
     commitIndex |-> d.startIndex + 1, lastApplied |-> 1,
     snapshotApplying |-> FALSE,
     nextIndex |-> [p \in Servers |-> 0], matchIndex |-> [p \in Servers |-> 0],
     newOp |-> 0, newCommit |-> FALSE, heart |-> 0]

\* Make with what readPersist finds; nothing was persisted: NoState
Make(d) ==
    [currentTerm |-> d.currentTerm, votedFor |-> d.votedFor, state |-> "Follower",
     logs |-> d.logs, startIndex |-> d.startIndex, snapshot |-> d.snapshot,
     commitIndex |-> d.startIndex + 1, lastApplied |-> d.startIndex + 1,
     snapshotApplying |-> FALSE,
     nextIndex |-> [p \in Servers |-> 0], matchIndex |-> [p \in Servers |-> 0],
     newOp |-> 0, newCommit |-> FALSE, heart |-> 0]

Init ==
    /\ rf = [s \in Servers |-> Make(NoState)]
    /\ disk = [s \in Servers |-> NoState]
    /\ enable = [s \in Servers |-> TRUE]
    /\ calls = {} /\ replies = {} /\ grants = {}
    /\ trims = [s \in Servers |-> {}]
    /\ app = [s \in Servers |-> <<>>]
    /\ snaps = 0 /\ restarts = 0

persistL(s, r) == disk' = IF enable[s] THEN [disk EXCEPT ![s] = Persistent(r, r.snapshot)] ELSE disk

(***************************************************************************)
(* sendLog and heartbeat                                                   *)
(***************************************************************************)

\* The goroutines of a leadership check the term, not the state.
Leading(r) == r.heart = r.currentTerm /\ r.heart > 0

AppendCall(s, r, p) ==
    [type |-> "AppendEntries", from |-> s, to |-> p, live |-> TRUE, Term |-> r.currentTerm,
     PrevLogIndex |-> r.nextIndex[p] - 1, PrevLogTerm |-> TermAt(r, r.nextIndex[p] - 1),
     Entries |-> From(r, r.nextIndex[p]), LeaderCommit |-> r.commitIndex]

\* What s, in state r, may send to the peers that need no snapshot.  With
\* nextIndex past the log the code would panic: see IndexesInRange.
LogCalls(s, r) ==
    {AppendCall(s, r, p) : p \in {q \in Servers \ {s} :
        Leading(r) /\ r.nextIndex[q] > r.startIndex /\ r.nextIndex[q] <= End(r)}}

\* s is in state r now, and its heartbeats go out
Set(s, r) ==
    /\ rf' = [rf EXCEPT ![s] = r]
    /\ calls' = calls \cup LogCalls(s, r)

\* A peer needs entries that the leader has discarded.
SendSnapshot(s, p) ==
    LET r == rf[s]
    IN /\ Leading(r) /\ p # s /\ r.nextIndex[p] <= r.startIndex
       /\ LET r1 == [r EXCEPT !.nextIndex[p] = r.startIndex + 1]
          IN /\ rf' = [rf EXCEPT ![s] = r1]
             /\ calls' = calls \cup LogCalls(s, r1) \cup
                    {[type |-> "InstallSnapshot", from |-> s, to |-> p, live |-> TRUE, Term |-> r.currentTerm,
                      LastIndex |-> r.startIndex, LastTerm |-> TermAt(r, r.startIndex), Data |-> r.snapshot]}
       /\ UNCHANGED <<disk, enable, replies, grants, trims, app, snaps, restarts>>

(***************************************************************************)
(* Elections                                                               *)
(***************************************************************************)

\* r learns of a higher term
Stepped(r, term) == [r EXCEPT !.currentTerm = term, !.votedFor = None, !.state = "Follower"]

startElection(s) ==
    LET r == rf[s]
        last == getLastLogL(r)
    IN /\ r.state # "Leader" /\ r.currentTerm < MaxTerm /\ s \in Candidates
       /\ rf' = [rf EXCEPT ![s].currentTerm = @ + 1, ![s].votedFor = s, ![s].state = "Candidate"]
       /\ calls' = calls \cup
              {[type |-> "RequestVote", from |-> s, to |-> p, live |-> TRUE, Term |-> r.currentTerm + 1,
                LastLogTerm |-> last.Term, LastLogIndex |-> last.Index] : p \in Servers \ {s}}
       /\ UNCHANGED <<disk, enable, replies, grants, trims, app, snaps, restarts>>

UpToDate(m, r) ==
    \/ m.LastLogTerm > getLastLogL(r).Term
    \/ m.LastLogTerm = getLastLogL(r).Term /\ m.LastLogIndex >= getLastLogL(r).Index

\* Mutant of Granted: the vote already given is not looked at.
GrantedAgain(m, r) == m.Term = r.currentTerm /\ UpToDate(m, r)

Granted(m, r) == m.Term = r.currentTerm /\ r.votedFor \in {None, m.from} /\ UpToDate(m, r)

RequestVote(m) ==
    LET s == m.to
        r == rf[s]
        r1 == IF m.Term > r.currentTerm THEN Stepped(r, m.Term) ELSE r
        granted == Granted(m, r1)
        r2 == IF granted THEN [r1 EXCEPT !.votedFor = m.from] ELSE r1
    IN /\ m.type = "RequestVote"
       /\ rf' = [rf EXCEPT ![s] = r2]
       /\ calls' = calls \ {m}
       /\ IF granted
          THEN /\ grants' = IF m.live THEN grants \cup {[to |-> m.from, from |-> s, Term |-> m.Term]} ELSE grants
               /\ persistL(s, r2)
               /\ UNCHANGED replies
          ELSE /\ replies' = IF m.live /\ r1.currentTerm > m.Term
                             THEN replies \cup {[type |-> "Refused", to |-> m.from, Term |-> r1.currentTerm]}
                             ELSE replies
               /\ UNCHANGED <<grants, disk>>
       /\ UNCHANGED <<enable, trims, app, snaps, restarts>>

\* Replies that their caller would still look at
Pending == {m \in replies : m.type # "Refused" /\ m.Term = rf[m.to].currentTerm}

\* The reply to request m is under way, or lost
Answer(m, reply) ==
    \/ UNCHANGED replies
    \/ m.live /\ Cardinality(Pending \cup {reply}) <= MaxReplies /\ replies' = replies \cup {reply}

Majority(S) == 2 * Cardinality(S) > Cardinality(Servers)

\* The results of startElection: a majority granted its vote, ...
BecomeLeader(s) ==
    LET r == rf[s]
        votes == {g \in grants : g.to = s /\ g.Term = r.currentTerm}
    IN /\ r.state = "Candidate" /\ votes # {} /\ Majority({s} \cup {g.from : g \in votes})
       /\ Set(s, [r EXCEPT !.state = "Leader", !.nextIndex = [p \in Servers |-> End(r)],
                           !.matchIndex = [p \in Servers |-> 1],
                           !.newOp = 0, !.newCommit = FALSE, !.heart = r.currentTerm])
       /\ UNCHANGED <<disk, enable, replies, grants, trims, app, snaps, restarts>>

\* ... or a peer is in a higher term.
VoteRefused(m) ==
    /\ m.type = "Refused" /\ m.Term > rf[m.to].currentTerm
    /\ rf' = [rf EXCEPT ![m.to] = Stepped(@, m.Term)]
    /\ replies' = replies \ {m}
    /\ UNCHANGED <<disk, enable, calls, grants, trims, app, snaps, restarts>>

(***************************************************************************)
(* Start                                                                   *)
(***************************************************************************)
Start(s) ==
    LET r == rf[s]
        r1 == [r EXCEPT !.logs = Append(@, [Term |-> r.currentTerm, Command |-> s]),
                        !.newOp = IF @ = 0 THEN End(r) ELSE @]
    IN /\ r.state = "Leader" /\ End(r) <= MaxIndex
       /\ Set(s, r1)
       /\ persistL(s, r1)
       /\ UNCHANGED <<enable, replies, grants, trims, app, snaps, restarts>>

(***************************************************************************)
(* AppendEntries                                                           *)
(***************************************************************************)

\* The first index of the run of entries of r that ends at i and has its term
RunStart(r, i) ==
    Lowest({j \in r.startIndex .. i : \A k \in j .. i : TermAt(r, k) = TermAt(r, i)})

\* The request without the entries that r has discarded
Discarded(r, m) ==
    LET n == r.startIndex - m.PrevLogIndex
    IN IF n <= 0 THEN m
       ELSE [m EXCEPT !.PrevLogIndex = r.startIndex, !.PrevLogTerm = m.Entries[n].Term,
                      !.Entries = SubSeq(@, n + 1, Len(@))]

\* Positions of the entries of m that are not in the log of r yet
Missing(r, m) ==
    {k \in 1 .. Len(m.Entries) :
        \/ m.PrevLogIndex + k >= End(r)
        \/ TermAt(r, m.PrevLogIndex + k) # m.Entries[k].Term}

\* Mutants of Merged: the entries are added without cutting off the rest of the
\* log; a conflict is not noticed; the rest of the log is always cut off.
MergedAtEnd(r, m) == IF Missing(r, m) = {} THEN r.logs ELSE r.logs \o m.Entries

MergedPastEnd(r, m) ==
    r.logs \o SubSeq(m.Entries, End(r) - m.PrevLogIndex, Len(m.Entries))

MergedAlways(r, m) == SubSeq(r.logs, 1, m.PrevLogIndex + 1 - r.startIndex) \o m.Entries

\* The first missing entry replaces the rest of the log.
Merged(r, m) ==
    IF Missing(r, m) = {} THEN r.logs
    ELSE LET k == Lowest(Missing(r, m))
         IN SubSeq(r.logs, 1, m.PrevLogIndex + k - r.startIndex)
            \o SubSeq(m.Entries, k, Len(m.Entries))

AppendReply(m, term, success, xterm, xindex, xlen) ==
    [type |-> "AppendEntries", to |-> m.from, from |-> m.to, Term |-> m.Term,
     next |-> m.PrevLogIndex + 1, sent |-> Len(m.Entries),
     RTerm |-> term, Success |-> success, XTerm |-> xterm, XIndex |-> xindex, XLen |-> xlen]

\* Mutant of Fits: the term of the previous entry is not compared.
FitsAnyTerm(r, m, d) ==
    IF d.PrevLogIndex >= End(r)
    THEN LET i == RunStart(r, End(r) - 1)
         IN AppendReply(m, m.Term, FALSE, TermAt(r, i), i, End(r))
    ELSE AppendReply(m, m.Term, TRUE, 0, 0, 0)

\* What AppendEntries answers, when the request is of the term of r
Fits(r, m, d) ==
    IF d.PrevLogIndex >= End(r)
    THEN LET i == RunStart(r, End(r) - 1)
         IN AppendReply(m, m.Term, FALSE, TermAt(r, i), i, End(r))
    ELSE IF TermAt(r, d.PrevLogIndex) # d.PrevLogTerm
    THEN LET i == RunStart(r, d.PrevLogIndex)
         IN AppendReply(m, m.Term, FALSE, TermAt(r, i), i, d.PrevLogIndex)
    ELSE AppendReply(m, m.Term, TRUE, 0, 0, 0)

AppendEntries(m) ==
    LET s == m.to
        r == rf[s]
        r1 == [r EXCEPT !.currentTerm = m.Term, !.state = "Follower",
                        !.votedFor = IF m.Term > r.currentTerm THEN None ELSE @]
        old == m.PrevLogIndex < r.startIndex /\ r.startIndex - m.PrevLogIndex >= Len(m.Entries)
        d == Discarded(r, m)
        reply == Fits(r, m, d)
        r2 == [r1 EXCEPT !.logs = Merged(r, d),
                         !.commitIndex = IF m.LeaderCommit > @ THEN m.LeaderCommit ELSE @]
    IN /\ m.type = "AppendEntries"
       /\ \/ /\ m.Term < r.currentTerm
             /\ Answer(m, AppendReply(m, r.currentTerm, FALSE, 0, 0, 0))
             /\ UNCHANGED <<rf, calls, disk>>
          \/ /\ m.Term >= r.currentTerm /\ old
             /\ Answer(m, AppendReply(m, m.Term, TRUE, 0, 0, 0))
             /\ Set(s, r1) /\ UNCHANGED disk
          \/ /\ m.Term >= r.currentTerm /\ ~ old
             /\ Answer(m, reply)
             /\ Set(s, IF reply.Success THEN r2 ELSE r1)
             /\ IF reply.Success /\ r2.logs # r.logs THEN persistL(s, r2) ELSE UNCHANGED disk
       /\ UNCHANGED <<enable, grants, trims, app, snaps, restarts>>

\* Where sendLog continues after a refusal: back over the leader's entries of
\* the follower's last term and later, then up over those that agree.
BackUp(r, m) ==
    LET lo == Highest({r.startIndex} \cup
                      {i \in r.startIndex + 1 .. m.XIndex : TermAt(r, i - 1) < m.XTerm})
        agree(i) == i < End(r) /\ i < m.XLen /\ TermAt(r, i) = m.XTerm
    IN Lowest({i \in lo .. End(r) : ~ agree(i)})

\* Mutant of Moved: tempSave is not compared.
NeverMoved(r, m) == FALSE

\* nextIndex is no longer what it was when the request of reply m was sent.
Moved(r, m) == r.nextIndex[m.from] # m.next

\* sendLog gets a reply
LogReply(m) ==
    LET s == m.to
        r == rf[s]
        up == r.nextIndex[m.from] + m.sent
    IN /\ m.type = "AppendEntries" /\ r.currentTerm = m.Term
       /\ \/ /\ Moved(r, m)
             /\ UNCHANGED <<rf, calls>>
          \/ /\ ~ Moved(r, m) /\ m.Success
             /\ Set(s, [r EXCEPT !.nextIndex[m.from] = up,
                                 !.matchIndex[m.from] = IF up > @ THEN up ELSE @])
          \/ /\ ~ Moved(r, m) /\ ~ m.Success /\ m.RTerm > m.Term
             /\ Set(s, Stepped(r, m.RTerm))
          \/ /\ ~ Moved(r, m) /\ ~ m.Success /\ m.RTerm <= m.Term
             /\ Set(s, [r EXCEPT !.nextIndex[m.from] = BackUp(r, m)])
       /\ replies' = replies \ {m}
       /\ UNCHANGED <<disk, enable, grants, trims, app, snaps, restarts>>

(***************************************************************************)
(* committer and applier                                                   *)
(***************************************************************************)

\* testIndexL: the entry at index i is on a majority.
testIndexL(s, i) == \E p \in Servers \ {s} :
    rf[s].matchIndex[p] > i /\ Majority({s} \cup {q \in Servers \ {s} : rf[s].matchIndex[q] > i})

\* Mutant of committer: entries of earlier terms are counted, too.
CommitAnyTerm(s) ==
    LET r == rf[s]
        first == r.commitIndex
        new == Highest({first} \cup {i + 1 : i \in {j \in first .. End(r) - 1 : testIndexL(s, j)}})
    IN /\ Leading(r) /\ r.newOp # 0 /\ new # r.commitIndex
       /\ Set(s, [r EXCEPT !.newCommit = TRUE, !.commitIndex = new])
       /\ UNCHANGED <<disk, enable, replies, grants, trims, app, snaps, restarts>>

\* One turn of the committer of the current term: nothing is committed before
\* newOp is, then as much as a majority has.
committer(s) ==
    LET r == rf[s]
        first == IF r.newCommit THEN r.commitIndex ELSE r.newOp + 1
        new == Highest({first} \cup {i + 1 : i \in {j \in first .. End(r) - 1 : testIndexL(s, j)}})
    IN /\ Leading(r) /\ r.newOp # 0
       /\ r.newCommit \/ testIndexL(s, r.newOp)
       /\ new # r.commitIndex
       /\ Set(s, [r EXCEPT !.newCommit = TRUE, !.commitIndex = new])
       /\ UNCHANGED <<disk, enable, replies, grants, trims, app, snaps, restarts>>

\* The commands from index i up to, not including, index j
Commands(r, i, j) == [k \in 1 .. j - i |-> r.logs[i + k - r.startIndex].Command]

\* The applier hands a snapshot, or all committed commands, to the service.
applier(s) ==
    LET r == rf[s]
    IN /\ \/ /\ r.snapshotApplying
             /\ rf' = [rf EXCEPT ![s].snapshotApplying = FALSE]
             /\ app' = [app EXCEPT ![s] = r.snapshot]
          \/ /\ ~ r.snapshotApplying /\ r.lastApplied < r.commitIndex /\ r.commitIndex <= End(r)
             /\ rf' = [rf EXCEPT ![s].lastApplied = r.commitIndex]
             /\ app' = [app EXCEPT ![s] = @ \o Commands(r, r.lastApplied, r.commitIndex)]
       /\ UNCHANGED <<disk, enable, calls, replies, grants, trims, snaps, restarts>>

(***************************************************************************)
(* Snapshots                                                               *)
(***************************************************************************)

\* Snapshot(index, data) on r
Trimmed(r, index, data) ==
    IF index <= r.startIndex THEN r
    ELSE [r EXCEPT !.startIndex = index, !.snapshot = data,
                   !.logs = <<Sentinel(TermAt(r, index))>> \o From(r, index + 1)]

\* The service has applied the commands up to index and saves them.
Snapshot(s, index) ==
    LET r == Trimmed(rf[s], index, SubSeq(app[s], 1, index))
    IN /\ snaps < MaxSnapshots /\ snaps' = snaps + 1
       /\ index \in 1 .. Len(app[s]) /\ index > rf[s].startIndex
       /\ Set(s, r) /\ persistL(s, r)
       /\ UNCHANGED <<enable, replies, grants, trims, app, restarts>>

\* The same, for a snapshot that came from the leader
SnapshotLater(s, d) ==
    LET r == Trimmed(rf[s], d.index, d.data)
    IN /\ trims' = [trims EXCEPT ![s] = @ \ {d}]
       /\ Set(s, r)
       /\ IF r = rf[s] THEN UNCHANGED disk ELSE persistL(s, r)
       /\ UNCHANGED <<enable, replies, grants, app, snaps, restarts>>

\* Mutant of Installed: commitIndex is not moved.
InstalledUncommitted(r, m) ==
    [r EXCEPT !.snapshot = m.Data, !.startIndex = m.LastIndex, !.logs = <<Sentinel(m.LastTerm)>>,
              !.lastApplied = m.LastIndex + 1, !.snapshotApplying = TRUE]

Installed(r, m) ==
    LET kept == m.LastIndex < End(r) /\ TermAt(r, m.LastIndex) = m.LastTerm
    IN [r EXCEPT !.snapshot = m.Data, !.startIndex = m.LastIndex,
                 !.logs = <<Sentinel(m.LastTerm)>> \o (IF kept THEN From(r, m.LastIndex + 1) ELSE <<>>),
                 !.commitIndex = IF @ <= m.LastIndex THEN m.LastIndex + 1 ELSE @,
                 !.lastApplied = m.LastIndex + 1, !.snapshotApplying = TRUE]

InstallReply(m, term) ==
    [type |-> "InstallSnapshot", to |-> m.from, from |-> m.to, Term |-> m.Term,
     RTerm |-> term, match |-> m.LastIndex + 1]

InstallSnapshot(m) ==
    LET s == m.to
        r == rf[s]
        r1 == [r EXCEPT !.currentTerm = m.Term, !.state = "Follower",
                        !.votedFor = IF m.Term > r.currentTerm THEN None ELSE @]
    IN /\ m.type = "InstallSnapshot"
       /\ \/ /\ m.Term < r.currentTerm
             /\ Answer(m, InstallReply(m, r.currentTerm)) /\ UNCHANGED <<rf, calls, disk, trims>>
          \/ /\ m.Term >= r.currentTerm /\ r.lastApplied > m.LastIndex
             /\ Answer(m, InstallReply(m, m.Term)) /\ Set(s, r1)
             /\ trims' = IF m.LastIndex > r.startIndex
                         THEN [trims EXCEPT ![s] = @ \cup {[index |-> m.LastIndex, data |-> m.Data]}] ELSE trims
             /\ UNCHANGED disk
          \/ /\ m.Term >= r.currentTerm /\ r.lastApplied <= m.LastIndex
             /\ Answer(m, InstallReply(m, m.Term)) /\ Set(s, Installed(r1, m)) /\ persistL(s, Installed(r1, m))
             /\ UNCHANGED trims
       /\ UNCHANGED <<enable, grants, app, snaps, restarts>>

\* sendSnapshot gets its reply
SnapshotReply(m) ==
    LET s == m.to
        r == rf[s]
    IN /\ m.type = "InstallSnapshot" /\ r.currentTerm = m.Term
       /\ Set(s, IF m.RTerm > m.Term THEN Stepped(r, m.RTerm)
                 ELSE [r EXCEPT !.matchIndex[m.from] = IF m.match > @ THEN m.match ELSE @])
       /\ replies' = replies \ {m}
       /\ UNCHANGED <<disk, enable, grants, trims, app, snaps, restarts>>

(***************************************************************************)
(* A server stops and starts again from its persister.                     *)
(***************************************************************************)

\* What is under way when s stops.  The network hands a request to the server
\* object that it found when it took the request, so those to s are lost with
\* it; a leader goes on with its heartbeats.  The requests of s itself are
\* handled, but nobody gets their replies.
Surviving(s) ==
    {IF m.from = s THEN [m EXCEPT !.live = FALSE] ELSE m : m \in {c \in calls : c.to # s}}
    \cup UNION {LogCalls(p, rf[p]) : p \in Servers \ {s}}

NewLife(s, d) ==
    /\ restarts < MaxRestarts /\ restarts' = restarts + 1
    /\ rf' = [rf EXCEPT ![s] = Make(d)]
    /\ app' = [app EXCEPT ![s] = d.snapshot]
    /\ calls' = Surviving(s)
    /\ replies' = {m \in replies : m.to # s}
    /\ grants' = {g \in grants : g.to # s}
    /\ trims' = [trims EXCEPT ![s] = {}]
    /\ UNCHANGED snaps

\* Shutdown of the lock server, which persists everything, and Start
Restart(s) ==
    LET d == Persistent(rf[s], rf[s].snapshot)
    IN NewLife(s, d) /\ disk' = [disk EXCEPT ![s] = d] /\ UNCHANGED enable

\* crash1 and start1 of the harness: the new life resumes from what was saved,
\* with a persister that is not enabled.
Crash(s) == NewLife(s, disk[s]) /\ enable' = [enable EXCEPT ![s] = FALSE] /\ UNCHANGED disk

Next ==
    \/ \E s \in Servers :
         \/ startElection(s) \/ BecomeLeader(s) \/ Start(s) \/ committer(s) \/ applier(s)
         \/ \E p \in Servers : SendSnapshot(s, p)
         \/ \E i \in 1 .. MaxIndex : Snapshot(s, i)
         \/ \E d \in trims[s] : SnapshotLater(s, d)
         \/ Restart(s)
    \/ \E m \in calls : RequestVote(m) \/ AppendEntries(m) \/ InstallSnapshot(m)
    \/ \E m \in replies : VoteRefused(m) \/ LogReply(m) \/ SnapshotReply(m)

Spec == Init /\ [][Next]_vars

\* ... and with crashes in place of restarts
CrashNext == \/ \E s \in Servers : Crash(s)
             \/ Next /\ UNCHANGED restarts

\* Every variable has its type; in particular no log has an entry beyond the
\* indexes that leaders started.
TypeOK ==
    /\ \A s \in Servers :
         LET r == rf[s]
         IN /\ r.currentTerm \in Terms /\ r.heart \in 0 .. r.currentTerm
            /\ r.votedFor \in Servers \cup {None}
            /\ r.state \in {"Follower", "Candidate", "Leader"}
            /\ r.logs \in Seq(Entry) /\ Len(r.logs) \in 1 .. MaxIndex + 1
            /\ r.startIndex \in 0 .. MaxIndex
            /\ app[s] \in Seq(Servers) /\ r.snapshot \in Seq(Servers)
            /\ disk[s].currentTerm \in Terms
    /\ enable \in [Servers -> BOOLEAN]
    /\ \A m \in calls : m.to \in Servers /\ m.from \in Servers /\ m.live \in BOOLEAN /\ m.Term \in Terms
    /\ \A m \in replies : m.to \in Servers /\ m.Term \in Terms
    /\ grants \subseteq [to : Servers, from : Servers, Term : Terms]
    /\ snaps \in 0 .. MaxSnapshots /\ restarts \in 0 .. MaxRestarts

(***************************************************************************)
(* Properties                                                              *)
(***************************************************************************)

\* At no time do two servers lead in the same term.
ElectionSafety ==
    \A s, t \in Servers :
        (rf[s].state = "Leader" /\ rf[t].state = "Leader" /\ rf[s].currentTerm = rf[t].currentTerm) => s = t

\* The indexes with which the code slices its logs are in range: those of the
\* applier (a commitIndex taken from a leader may not point past the log), and
\* those sendLog computes from a follower's hints.
IndexesInRange ==
    \A s \in Servers :
        LET r == rf[s]
        IN /\ r.startIndex < r.lastApplied /\ r.lastApplied <= r.commitIndex /\ r.commitIndex <= End(r)
           /\ Leading(r) => \A p \in Servers \ {s} : r.nextIndex[p] \in 1 .. End(r)

\* Entries at the same index with the same term are the same, and so are all
\* entries before them.
LogMatching ==
    \A s, t \in Servers : \A i \in 1 .. MaxIndex :
        LET lo == IF rf[s].startIndex > rf[t].startIndex THEN rf[s].startIndex ELSE rf[t].startIndex
        IN (/\ i > lo /\ i < End(rf[s]) /\ i < End(rf[t])
            /\ TermAt(rf[s], i) = TermAt(rf[t], i))
           => \A j \in lo + 1 .. i : From(rf[s], j)[1] = From(rf[t], j)[1]

\* What any server knows to be committed is in the log of every leader of the
\* same or a later term.
LeaderCompleteness ==
    \A s, t \in Servers :
        (rf[s].state = "Leader" /\ rf[s].currentTerm >= rf[t].currentTerm)
        => /\ rf[t].commitIndex <= End(rf[s])
           /\ \A i \in 1 .. MaxIndex :
                (i < rf[t].commitIndex /\ i >= rf[s].startIndex /\ i >= rf[t].startIndex)
                => TermAt(rf[s], i) = TermAt(rf[t], i)

\* A follower that is still in the leader's term has everything that the leader
\* counts as matched, whatever the order in which replies come back.
MatchedIsStored ==
    \A s, p \in Servers :
        (Leading(rf[s]) /\ s # p /\ rf[p].currentTerm = rf[s].currentTerm)
        => /\ rf[s].matchIndex[p] <= End(rf[p])
           /\ \A i \in 1 .. rf[s].matchIndex[p] - 1 :
                (i >= rf[s].startIndex /\ i >= rf[p].startIndex) => TermAt(rf[s], i) = TermAt(rf[p], i)

\* The services of all servers apply the same commands in the same order,
\* whether they come one by one or in a snapshot.
AppliedAgree ==
    \A s, t \in Servers : \A i \in 1 .. MaxIndex :
        (i <= Len(app[s]) /\ i <= Len(app[t])) => app[s][i] = app[t][i]

\* The next command for a service is the successor of its last one.
AppliedInOrder ==
    \A s \in Servers : ~ rf[s].snapshotApplying => rf[s].lastApplied = Len(app[s]) + 1

\* What a server knows to be committed is never cut off from its log or replaced
\* in it: not by a late AppendEntries request of this or an earlier term, nor by
\* a snapshot.  (A restart makes a server forget how far the log is committed.)
CommittedStays ==
    [][\A s \in Servers : rf'[s].commitIndex >= rf[s].commitIndex =>
         \A i \in rf'[s].startIndex .. rf[s].commitIndex - 1 :
            i >= rf[s].startIndex => i < End(rf'[s]) /\ TermAt(rf'[s], i) = TermAt(rf[s], i)]_vars
=============================================================================
