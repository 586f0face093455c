------------------------------- MODULE MCRaft -------------------------------
(***************************************************************************)
(* Instances of Raft.  The runs start where the interesting part of a      *)
(* behaviour begins: in states with logs that earlier leaders left behind, *)
(* each reached from Init in the way its comment says.                     *)
(***************************************************************************)
EXTENDS Raft

CONSTANTS s1, s2, s3

\* What can still matter: the bookkeeping of a server that does not lead, and
\* replies that their caller will not look at, are left out, and so is the disk,
\* which only a crash reads.
Seen(r) ==
    IF Leading(r) THEN r
    ELSE [r EXCEPT !.nextIndex = <<>>, !.matchIndex = <<>>, !.newOp = 0, !.newCommit = FALSE, !.heart = 0]

View ==
    <<[s \in Servers |-> Seen(rf[s])],
      {m \in calls : m.Term >= rf[m.to].currentTerm \/ m.Term >= rf[m.from].currentTerm}, trims, app, snaps, restarts, Pending,
      {m \in replies : m.type = "Refused" /\ m.Term > rf[m.to].currentTerm},
      {g \in grants : g.Term = rf[g.to].currentTerm /\ rf[g.to].state = "Candidate"}>>

Log(term, s) == [Term |-> term, Command |-> s]

\* A server in the given term, with the given vote and entries
Server(term, vote, entries) ==
    Make([NoState EXCEPT !.currentTerm = term, !.votedFor = vote, !.logs = @ \o entries])

\* ... that leads the term, has started its last entry and knows that every
\* peer p has match[p] - 1 entries
LeaderOf(term, s, entries, next, match) ==
    [Server(term, s, entries) EXCEPT !.state = "Leader", !.heart = term,
        !.newOp = Len(entries), !.nextIndex = next, !.matchIndex = match]

\* A start in state r, with the given terms persisted
StartIn(r, persisted, nsnaps, nrestarts) ==
    /\ rf = r
    /\ disk = [s \in Servers |-> Persistent([r[s] EXCEPT !.currentTerm = persisted[s]], r[s].snapshot)]
    /\ enable = [s \in Servers |-> TRUE]
    /\ calls = UNION {LogCalls(s, r[s]) : s \in Servers}
    /\ replies = {} /\ grants = {}
    /\ trims = [s \in Servers |-> {}]
    /\ app = [s \in Servers |-> r[s].snapshot]
    /\ snaps = nsnaps /\ restarts = nrestarts

ByServer(x, y, z) == [s \in Servers |-> CASE s = s1 -> x [] s = s2 -> y [] s = s3 -> z]

\* s1 led term 1 and s3 led term 2, each alone with an entry; s1 leads term 3,
\* has given its first entry to s2 and has just started a second one.  s3 may
\* become leader of term 4.
Contest ==
    StartIn(ByServer(LeaderOf(3, s1, <<Log(1, s1), Log(3, s1)>>, ByServer(2, 2, 2), ByServer(1, 2, 1)),
                    Server(3, s1, <<Log(1, s1)>>),
                    Server(3, None, <<Log(2, s3)>>)),
           ByServer(3, 3, 2), MaxSnapshots, MaxRestarts)

\* The same with s1 leading the last term, s2 up to date and s3 far behind:
\* snapshots and a restart, no election.
Lagging ==
    StartIn(ByServer(LeaderOf(MaxTerm, s1, <<Log(1, s1), Log(MaxTerm, s1)>>, ByServer(2, 3, 2), ByServer(1, 3, 1)),
                    Server(MaxTerm, s1, <<Log(1, s1), Log(MaxTerm, s1)>>),
                    Server(MaxTerm, None, <<Log(2, s3)>>)),
           ByServer(MaxTerm, MaxTerm, 2), 0, 0)

\* s1 led terms 1 and 3, everybody has its two entries, and all have restarted:
\* s1 and s3, which missed term 3, stand for election, and one server restarts
\* once more.
Standing ==
    StartIn(ByServer(Server(3, s1, <<Log(1, s1), Log(1, s1)>>),
                    Server(3, s1, <<Log(1, s1), Log(1, s1)>>),
                    Server(2, None, <<Log(1, s1), Log(1, s1)>>)),
           ByServer(3, 3, 2), MaxSnapshots, 0)

\* s1 leads term 3 with a log that a snapshot has replaced; s3 has nothing, and
\* its timer fires, too.  One server restarts.
Compacted ==
    StartIn(ByServer([LeaderOf(3, s1, <<>>, ByServer(3, 3, 3), ByServer(1, 1, 1)) EXCEPT
                        !.logs = <<Sentinel(1)>>, !.startIndex = 2, !.snapshot = <<s1, s1>>,
                        !.commitIndex = 3, !.lastApplied = 3],
                    [Server(3, s1, <<Log(1, s1), Log(1, s1)>>) EXCEPT !.commitIndex = 3],
                    Server(3, None, <<>>)),
           ByServer(3, 3, 2), MaxSnapshots, 0)

\* s1 leads term 3, elected by s2, and has learnt that s2 has nothing, so that
\* its own entry of term 1 is on its way to s2.  Since term 1 nothing has made s1
\* persist.  s3 led term 2 alone and has heard nothing of term 3.
Unsaved ==
    StartIn(ByServer([LeaderOf(3, s1, <<Log(1, s1)>>, ByServer(2, 1, 2), ByServer(1, 1, 1)) EXCEPT !.newOp = 0],
                     Server(3, s1, <<>>),
                     Server(2, s3, <<Log(2, s3)>>)),
            ByServer(1, 3, 2), MaxSnapshots, 0)

CrashSpec == Unsaved /\ [][CrashNext]_vars

\* The part of the behaviours that matters: s1 crashes, s3 leads term 3, too, and
\* commits two entries with s2 before the request of s1 reaches s2.  Only then
\* does s1 stand for term 4.
Scenario ==
    /\ restarts = 0 => replies = {} /\ Len(rf[s2].logs) = 1 /\ rf[s3].currentTerm = 2 /\ Len(rf[s3].logs) = 2
    /\ replies \subseteq Pending /\ app[s2] = <<>>
    /\ rf[s1].currentTerm < 4 =>
         Len(rf[s1].logs) = 2 /\ rf[s1].commitIndex = 1 /\ (restarts = 1 => rf[s1].state = "Follower")
    /\ rf[s1].currentTerm = 4 => app[s3] # <<>>
    /\ rf[s2].commitIndex = 1
    /\ rf[s3].currentTerm = 4 => rf[s3].state # "Candidate"

MCSpec == (Contest \/ Lagging \/ Standing \/ Compacted) /\ [][Next]_vars
=============================================================================
