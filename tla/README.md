# A TLA+ model of the lock service

The repository is a Chubby-like lock service: clients hold leased locks on
paths, and servers keep the lock table replicated with one of two consensus
libraries, Paxos or Raft. This directory holds TLA+ modules that model the code,
TLC configurations that check them on small instances, and proofs that TLAPS
checks for every instance.

Line numbers below refer to `src/src/`.

## The system

| Part | Where | State | Operations |
|---|---|---|---|
| Paxos library | `paxos/` | per instance: `prepare`, `accept`, `value`, `status`; per server: `instances`, `startIndex`, `done`, `decided`, the persister | `Start`, `Status`, `Done`, `Max`, `Min`; proposer goroutines; handlers `Prepare`, `Accept`, `Decide`, `GetDone`; `decide` goroutines; the ticker; `Persist`, `readPersist` |
| Lock server over Paxos | `paxosserver/` | `files` (path to holder and lease), `sessions` (last request of each requester), `applied` | handlers `Create`, `Remove`, `Acquire`, `Release`, `Extend` (each proposes an operation and polls for its application); the applier; the lease ticker and `revoke`; `Shutdown`, `Start` |
| Lock server over Raft | `raftserver/` | the same table, `wait` (condition variables), `nowTerm` | the same handlers, which wait on a condition variable and give up on a change of term |
| Client session | `session/` | `alive` (path to lease), `seq` of the two requesters, `leader` | `Create`, `Remove`, `Acquire`, `Release`, `IsHolding`, `Close`; the `KeepAlive` goroutine that extends leases |
| Raft library | `raft/` | `currentTerm`, `votedFor`, `logs`, `commitIndex`, `lastApplied`, `nextIndex`, `matchIndex`, `state`, snapshot, the persister | `Start`, `Snapshot`; handlers `RequestVote`, `AppendEntries`, `InstallSnapshot`; elections, `sendLog`, heartbeats, the committer, the applier |
| Network | `labrpc/` | calls in flight | a call runs its handler at most once, at any later time, and may fail before or after it ran |
| Encoding, harnesses, evaluation | `labgob/`, `*/config.go`, `eval/` | none of the protocol | |

How they interact: a session sends a request to one server after another until
one answers. The server proposes the operation to its consensus library, every
server applies the decided operations in order, and the server that waits
answers from its own table. A server's ticker proposes to revoke locks whose
lease and grace period have passed.

Module structure (an arrow is `EXTENDS`; `Paxos` also instantiates `Consensus`, which
it refines):

```
Paxos <- PaxosProofs <- PaxosRounds <- PaxosVotes <- PaxosSafety
Paxos <- MCPaxos
LockTable <- LockCalls <- PaxosServer, Session <- LockService <- MCLock
                       <- RaftServer,  Session <- RaftService <- MCRaftLock
Raft <- MCRaft
```

The two services stand on abstract consensus objects (`Px...` in `PaxosServer`,
`Rf...` in `RaftServer`) that promise what `Paxos` and `Raft` check of the
libraries.

The hard parts are listed, at the line where each one bites, under "hazards" in
`PROJECT.json`.

## What is modelled

### `Paxos.tla`: one instance of the Paxos library

The library runs one independent agreement per sequence number; what couples
them (later sequence numbers create earlier ones, the ticker creates instances
it hears of) is the action `CreateGap`. The model is the agreement on one
sequence number that is never forgotten, which is how the lock server uses it
(its call of `Done` is commented out, `paxosserver/applier.go:39`).

| Variable | Code |
|---|---|
| `inst[s]` | the `Instance` of server `s`; status `Exceeded` when it does not exist |
| `disk[s]`, `enable[s]` | what the `Persister` of `s` holds for it, and `Persister.enable` |
| `prop[p]` | locals of a `proposer` goroutine. A client `c` is one `Start` call; server `s` as a proposer is the nil filler that `getInstanceL` or `readPersist` starts on `s` |
| `prepareArgs`, `prepareReply`, `acceptArgs`, `acceptReply`, `decideArgs` | calls in flight |
| `decides` | `go px.decide(...)` goroutines that have not run |
| `promises`, `votes`, `proposed` | history, read by no action |

| Action | Code |
|---|---|
| `Start`, `CreateGap` | `paxos.go` `Start`, `getInstanceL` |
| `FindDecided`, `BeginRound` | top of the loop of `proposer.go`, up to the `Prepare` calls |
| `ReceivePromise`, `SendAccept`, `LoseRace`, `LearnDecided`, `ReceiveLow`, `FailPrepare` | one receive of the prepare loop. The last `Ok` of a majority and the section under `inst.mu` after it are one action: `SendAccept` when the instance still carries the number, `LoseRace` otherwise |
| `ReceiveAccepted`, `SendDecide`, `ReceiveRefused`, `FailAccept` | one receive of the accept loop, and the end of the round |
| `Prepare`, `Accept`, `Decide` | the handlers of `acceptor.go`; each holds the instance's lock from its test to its reply, so it is one action |
| `Learn` | `decide` of `paxos.go` |
| `Restart` | `PaxosServers.Shutdown` (which saves everything) and `Start`; the evaluation harness cuts the network first, so nothing of the old life is heard afterwards |
| `Crash` | `crash1` and `start1` of the library's harness: the server resumes from what `persistInstanceL` saved, with a persister that is no longer enabled (`config.go:104`) |

Merging the last receive with the locked section is sound because the goroutine
touches only its own locals in between. A filler sleeps 2.5 to 5 seconds first;
the constant `Impatient` names the servers whose filler ever wakes up, so that
the theorems can say what depends on it. `LateRequest` and `Forgotten` belong to
forgetting and do not occur.

### `Consensus.tla`: what an instance promises

One variable, the set of values that `Status` reports as decided. It is empty,
then a singleton for ever. `RefinesConsensus` maps it to the decided values of
the servers.

### `LockTable.tla` and `LockCalls.tla`: what servers and sessions share

`LockTable` has no state. It is the lock table as a value (`files`, `sessions`),
one operator per `apply...L` function of `applier.go`, `Applied` for one decided
operation with the test for repeated requests, and `Answer`, which is what a
handler reads from the table when it is done. Both lock servers apply the same
operations in the same way. A requester is a pair of a session and 0 (the user)
or 1 (`KeepAlive`); `Other` is `sessid^1`.

`LockCalls` has the clock `now` (`time.Now().Unix()`; servers and sessions run on
one machine) and `call[r]`, the current RPC of each requester.

### `PaxosServer.tla`: the lock server over Paxos

| Variable | Code |
|---|---|
| `started`, `chosen`, `known` | the Paxos library: operations started for an instance, its decision, the highest instance each server has used |
| `table[s]`, `applied[s]` | `files` and `sessions`, and `applied`, of server `s` |
| `handlers` | handlers in `operateL`, with the instance they poll; `live` while a caller waits |
| `revokes` | `revoke` goroutines |
| `lowered` | history: an `Extend` has lowered a lease by more than the grace period |

| Action | Code |
|---|---|
| `Handle` | a handler up to its first `Start` in `operateL` |
| `Finish`, `ProposeAgain` | one turn of the polling loop of `operateL`: the request was applied, or its instance went to another operation |
| `Apply` | one instance in the `applier` |
| `CheckLease`, `RevokeMax`, `RevokeStart`, `RevokePoll` | `checkLease` of the ticker; the first `px.Max` and the first `px.Start` of `revoke`, between which another operation may be started for the same instance; one turn of its loop |
| `Restart` | `PaxosServers.Shutdown` and `Start`: the Paxos state is kept, the table is empty, the log is applied again |
| `PxStart`, `PxNext`, `PxDecide` | external: `Start`, `Max() + 1` and the agreement of the library |

A shutdown leaves the handlers' callers without an answer, and that is not the
lock server's own doing. `operateL` returns on `doneCh` (`paxosserver/server.go:45`)
with nothing decided, and its handler goes on to answer from the table, with `OK`
for `Create`. The caller does not see that reply only because `ShutdownServer`
deletes the server from the network before it calls `Shutdown`
(`session/config_test.go:252`) and `labrpc` drops the replies of a deleted server
(`labrpc.go:271`). In the model `Restart` removes the handlers, and `Deserted` is
what their callers are left with; requests that the network took for the old
server share their fate. The mutant of `AnsweredIsDecided` is a shutdown that lets
these replies out.

A handler calls `px.Max` and `px.Start` under `srv.mu`, which only the first two calls
of `revoke` do without. A revocation started between the two calls of a handler
leads to the same two operations in one instance as one whose own two calls enclose
the handler's, so `Handle` and `ProposeAgain` keep the two calls together.

`PxDecide` chooses an operation that was started for the instance, or nil, once.
That all servers see the same decision is what `UnconditionalAgreement` proves
without fillers. With fillers the library does not promise it (finding 1), so the
lock service runs say what the lock server does on top of an agreement that holds.

### `Session.tla`: a client session

| Variable | Code |
|---|---|
| `alive[s][p]` | `sess.alive`: the end of the lease the session was told |
| `leader[s]` | `sess.leader`, which both requesters share and advance |
| `closed[s]` | `doneCh` is closed |
| `keep[s]` | the `KeepAlive` goroutine: asleep, extending, releasing under `sess.mu`, stopped |

`Acquire`, `Release`, `CreateOrRemove`, `GiveUp` (the part of `IsHolding` that
changes state) and `Close` are the user's calls, `UserReturn` their end;
`CallAgain`, `WrongLeader` and `RequestAgain` are the loop of `Request`; `KeepTick`,
`KeepReturn` and `KeepClose` are `KeepAlive`. A user makes one call at a time and
none after `Close`. Early returns that change nothing (`LockReacquire`,
`LockNotAcquired`) are stuttering steps.

### `LockService.tla` and `RaftService.tla`: the compositions

Each composes a server module with `Session`: they share `now` and `call`, and
every action of one leaves the variables of the other alone. They add
`CallFails`, what the network does to a call: the request is lost, the reply is
lost, or the server is deleted while the handler runs. In each case `Request`
goes on to the next server, and a handler that runs goes on without a caller.

### `RaftServer.tla`: the lock server over Raft

The state of the server is as above, with `nowTerm`. A handler waits on a
condition variable: `woken` says that a broadcast has reached it and it has not
run yet. `Handle` is a handler up to its first `Wait`, `Wake` one return from
`Wait`, `Apply` is `applyMsg` with the broadcast of `updSessL`, `ticker` is
`checkTermL` and `checkLeaseL`, `RevokeStart` the goroutine that starts a
revocation and that nobody waits for, `Restart` is `Shutdown` and `Start`, with the
callers left as over Paxos.

Raft is one committed log and, behind it, the uncommitted entries of each server
(`tail`). Only a leader of the latest term commits, and only once it has an entry
of its own term; what conflicts is lost; a new leader starts with a prefix of
somebody's uncommitted entries that is not older than what is committed. These
are the consequences of `LeaderCompleteness` and `LogMatching`.

### `Raft.tla`: the Raft library

| Variable | Code |
|---|---|
| `rf[s]` | the `Raft` object. `logs` starts with the sentinel, `commitIndex`, `lastApplied` and `matchIndex` are exclusive, as in the code. `heart` is the term whose `heartbeat`, `committer` and `sendLog` goroutines run |
| `disk[s]`, `enable[s]` | what the persister of `s` holds, and `Persister.enable` |
| `calls`, `replies`, `grants` | requests, replies and granted votes under way. A request is `live` while the life of the server that sent it waits for the reply |
| `trims[s]` | `go rf.Snapshot(...)` of `InstallSnapshot` that has not run |
| `app[s]` | the commands the service has got, one by one or in a snapshot |

Actions have the names of the functions: `startElection`, `RequestVote`, `Start`,
`AppendEntries`, `committer`, `applier`, `Snapshot`, `InstallSnapshot`. `BecomeLeader`
and `VoteRefused` are the two ways in which the results of an election are used,
`LogReply` and `SnapshotReply` what `sendLog` and `sendSnapshot` do with a reply
(`BackUp` is the search over `XTerm`, `XIndex`, `XLen`), `SnapshotLater` the delayed
goroutine. `Restart` saves everything first; `Crash` resumes from what `persistL`
saved, with a persister that is no longer enabled (`raft/config.go:131`), so that the
new life saves nothing. `labrpc` hands a request to the server object that it found
when it took the request (`labrpc.go:219`, `241`), and drops the reply when either end
is gone. So the requests to a server that stops are lost with it, while its own
requests to others may still be handled, unheard (`Surviving`).

Heartbeats repeat `AppendEntries` as long as a leader is in its term. So `Set`, which
stores a new state of a server, adds the requests that state can send to `calls`,
where they stay: they may be handled late, again, or never. A batch that the
applier has taken counts as applied.

## Runs

### Paxos

All use `MCPaxos.tla`: `Start` call `c1` on `s1` with `v1`, `c2` on `s2` with
`v2`. Deadlock is not checked: a decided instance has nothing left to do.

| Run | Instance | Shows |
|---|---|---|
| `PaxosAgreement` | 3 servers, 2 `Start` calls, ballots to 2, `s1` restarts any number of times | `TypeOK`, `Agreement`, `DecidedWasChosen`, `DecidedStable`, `RefinesConsensus` |
| `PaxosEven` | 4 servers, 2 `Start` calls, ballot 1 | `OneProposalPerBallot` where two servers are not a majority |
| `PaxosFillers` | 3 servers, 1 `Start` call, the filler of `s3` wakes up, `s3` restarts | `ChosenStays`, `NoOrphan` |
| `PaxosCrashDisk` | 3 servers, 1 `Start` call, `s1` and `s3` crash or restart | `VotesDurable`, `DecidedDurable` |
| `PaxosFilledGap` | as `PaxosFillers` | `Agreement` is violated: see Findings |
| `PaxosCrash` | 3 servers, 2 `Start` calls, `s3` crashes | `Agreement` is violated: see Findings |

Bounds. Two ballots are enough for the cases that matter: a value chosen in
ballot 1 and a round with number 2 that must find it, two rounds with the same
number on two servers, and a round that overtakes another between its promises
and its acceptance. With three servers every reply completes a majority;
`PaxosEven` has four so that `ReceivePromise` and `ReceiveAccepted` happen too.
`MaxBallot` is a guard of `BeginRound` only; `TypeOK` includes that no other
action goes past it.

The runs without crashes use the view `Effective`. It drops `disk` and
`promises`, which no action of `Spec` reads, and the requests in flight that can
change nothing but their own presence. Numbers never decrease without crashes,
so such a request stays without effect. The runs with crashes, where an old
request may find a lower number again, use `CrashEffective`, which drops only
what no action of theirs reads: fillers that never wake up, and `promises` and
`proposed`. No symmetry is used: the servers differ
by the calls made on them.

### The lock service over Paxos

`MCLock.tla`: sessions `a` and `b`, one path, two servers, `DefaultLease` 2 and so
`GracePeriod` 1. `a` calls `Acquire` and `Release` and extends its lease once, `b` calls
`Acquire` once. There are five instances of Paxos: in `LockService` two for the initial log
and three for the operations that race, in `LockFaults` one and four.

| Run | Instance | Shows |
|---|---|---|
| `LockService` | the clock passes from 3 to 4, where the lease of `a` (2) and its grace period end; or it is 4, and server 1 restarts | `BelievedIsHeld`, `RevokedIsExpired` |
| `LockFaults` | the file is free, the clock stands still, one filler takes an instance; one call fails, or server 0, which all calls go to first, is shut down and restarted | `TypeOK`, `AnsweredIsDecided`, `ReleasedStays`, `RequestReturns` |
| `LockStaleExtend` | the clock runs from 1 to 5, a filler takes an instance | `MutualExclusion` is violated: see Findings |

`BelievedIsHeld` has the exception `lowered`: it is finding 3, and nothing else, that
breaks it. (In `LockService` nothing lowers a lease, so the exception is not used
there.) Two servers are enough for one that lags behind or replays its log
while the other answers; a third would only add another view of the same decided
log. Time matters at the ends of a lease and of its grace period, so the runs
start just before them.

### The lock service over Raft

`RaftLock` (`MCRaftLock.tla`): three sessions, two paths, two servers. It starts in
one of seven states. In each of them some sessions are closed and some bounds are
spent, so that the state spaces add up instead of multiplying:

| Start | What happens |
|---|---|
| `Ending` | the lease of `a` ends while `a` and `b` call |
| `Ended` | it has ended; a revocation races with an `Extend` and with `Acquire` of `b` |
| `Revoking` | `a` is closed and its `Release` was lost; old and new leaders revoke the lock |
| `Deposed` | the lease has ended and `a` is open; the leader changes, and revocations of the old and the new one race with an `Extend` |
| `Changes` | the leader changes while `a` releases its lock and `KeepAlive` extends it |
| `Shutdown` | the leader is shut down while `d` makes a request |
| `Closing` | `d` holds two locks and is closed; a call fails, the leader changes |

It shows `TypeOK`, `MutualExclusion`, `BelievedIsHeld`, `AnsweredIsCommitted` and
`RequestReturns`. `MutualExclusion` needs no exception here. The lease of an `Extend`
is computed and the operation put into the log in one step under `srv.mu`, and no
handler proposes twice, so leases grow along the log.

### Raft

`MCRaft.tla`: three servers, two entries, terms up to 4. The starts are states that
earlier leaders left behind; the comment of each says how it is reached.

| Run | Starts | Shows |
|---|---|---|
| `Raft` | `Contest` (entries of an old term on a majority, a new leader may follow), `Lagging` (a server far behind, a snapshot and a restart), `Standing` (two candidates and a restart), `Compacted` (a snapshot for a server that stands for election, and a restart) | `TypeOK`, `ElectionSafety`, `IndexesInRange`, `LogMatching`, `LeaderCompleteness`, `MatchedIsStored`, `AppliedAgree`, `AppliedInOrder`, `CommittedStays` |
| `RaftCrash` | `Unsaved` (a leader whose term only its voter has persisted; it crashes once) | `AppliedAgree` is violated: see Findings |

Terms up to 4 and the starting logs are what the classical case needs: an entry of
term 1 that a leader of term 3 puts on a majority and a leader of term 4 replaces.
`MaxReplies` bounds the replies under way, not the requests. The view drops what no
action of `Spec` reads: the disk, the bookkeeping of servers that do not lead, and
messages of terms that both ends have left. Deadlock is not checked: with the bounds
spent there is nothing left to do.

`LockStaleExtend` and `RaftCrash` use a constraint (`Scenario`) that only directs the
search: the behaviour found is one of the specification.

### Fairness

- `LockFaults`: weak fairness of all steps of the system together. It does not rest
  while a handler, an applier or a loop of `Request` can go on, or while an instance
  somebody started is undecided. Goroutines are scheduled, and the loops sleep for a
  bounded time. That Paxos decides in the end rests on its random back-off; it is
  assumed here.
- `RaftLock`: weak fairness of the servers' steps (electing a leader when there is
  none, hearing of the term, committing, applying, the ticker), and of each
  session's steps. That an election succeeds in the end rests on random timeouts;
  it is assumed here.
- Nothing is assumed of users, of the clock, of failing calls, of shutdowns, or of
  a change of leader while there is one.

`RequestReturns` has two exceptions. One is the bound of the model: no instance or
no call of `rf.Start` is left. The other is in the code, and only over Raft: while
`KeepAlive` makes requests, too, the two requesters advance the one `sess.leader` in
turn, so that each may always meet a server that is not the leader.

## Findings

1. **A filler can make servers disagree** (`PaxosFilledGap`). A filler whose
   majority has accepted nothing proposes nil (`proposer.go:84`), and a majority
   may accept it. `decide` with nil marks an instance decided and keeps its value
   (`paxos.go:47`). A server that had accepted `v1` in a lower ballot then reports
   `v1`, the others report nil. Also, a later proposer that is told of the
   accepted nil takes it for no value and proposes its own. The harness checks that
   all servers decide the same value (`paxos/config.go:279`).
2. **Promises do not survive a crash** (`PaxosCrash`). `persistInstanceL` is called
   for acceptances and decisions, not for promises (`acceptor.go:50`,
   `proposer.go:28`). A server that crashes after a promise accepts an older
   proposal. The lock server's own shutdown saves everything, so this concerns
   crashes as the library's harness makes them (same check, `paxos/config.go:279`).
3. **A late `Extend` lowers a newer lease** (`LockStaleExtend`). `applyExtendL` takes the
   lease of the operation as it is (`paxosserver/applier.go:111`). An `Extend` whose
   instance went to something else is proposed again with the lease that its handler
   computed at first. Applied after a `Release` and a new `Acquire` of the same session,
   it lowers the lease the session was just told. The lock is revoked and given to
   another session while `IsHolding` of the first still answers true. The test of
   competing sessions expects one holder (`session/test_test.go:168`).
4. **The term and the vote of a candidate do not survive a crash** (`RaftCrash`).
   `startElection` does not call `persistL` (`election.go:61`), nor does `AppendEntries` when
   it takes over a term. In the behaviour found only `s1` crashes. It leads term 3 with
   the vote of `s2`, and a request with its entry is on its way to `s2`. After the
   crash it is back in term 1 and votes for `s3` in term 3, which `s3` now leads, too.
   `s3` commits two entries with `s2`. The delayed request of `s1` then truncates
   them in the log of `s2`, and with the vote of `s2` the new life of `s1` leads term 4
   and commits other ones. The harness checks that servers apply the same
   commands (`raft/config.go:142`). As in 2, the lock server's own shutdown saves
   everything.

## Proofs

Four modules, each extending the one before: `PaxosProofs` (types, the inductive
invariant, steps that change no round), `PaxosRounds` (the first phase),
`PaxosVotes` (the second phase), `PaxosSafety` (the theorems). They prove, for any
finite set of servers and any clients, values, ballot bound, restarting and
impatient servers, about `Spec` (message loss, reordering and graceful restarts,
no crashes):

| Theorem | Statement |
|---|---|
| `TypeCorrect` | `Spec => []TypeOK` |
| `Invariance` | `Spec => []IInv` |
| `UniqueProposals` | `Spec => []OneProposalPerBallot` |
| `ChosenValuesStay` | `Spec => []ChosenStays`, fillers included |
| `DecisionsAreChosen` | `Spec => []DecidedWasChosen` |
| `ConditionalAgreement` | `Spec => []AgreementUnlessFilled` |
| `UnconditionalAgreement` | `Impatient = {}` implies `Spec => []Agreement` |
| `DecisionsAreFinal` | `Spec => DecidedStable` |
| `Refinement` | `Impatient = {}` implies `Spec => RefinesConsensus` |

The argument. `IInv` says that a server promises each number to one proposer and
reports its last acceptance (`PromiseInv`), that a proposer's value is the one
with the highest number among the promises it counted (`PrepareInv`), that what
was proposed, accepted and counted fit together (`VoteInv`), and that a proposal
`(b, v)` is safe (`SafeAt`): for every lower ballot a majority has voted for `v`
or nil, or will never vote in it. Two proposals cannot share a number because
their majorities of promises meet in a server that promised it once; this is why
the missing server id in the numbers does no harm. `SafeAt` is what makes the
invariant inductive: agreement alone says nothing of the votes still to come.
Most steps add nothing to any round; the lemma `FrameKeepsIInv` disposes of them
together, and the five that do (`BeginRound`, `Prepare`, `SendAccept`, `Accept`,
`Learn`) have a lemma each. The constant assumptions are the named `ASSUME`s of
`Paxos.tla`; majorities meeting is proved from `IsFiniteSet(Servers)`.

Only model-checked: `NoOrphan` and the crash properties of `CrashSpec`; everything
about the lock services and Raft, where nothing is proved; and liveness, which is
beyond the provers. Termination of a Paxos instance is not claimed at all: it rests
on random back-off, which fairness of the actions does not express.

## Not modelled

- **Forgetting in the Paxos library**: `Done`, `Min`, the exchange of `GetDone` by the
  ticker, `LateRequest`, `Forgotten`, and `persistL` while the server runs. The lock
  server never calls `Done` (`paxosserver/applier.go:39` is commented out), so the
  running service never forgets an instance. Hazards that need it have a note in
  `PROJECT.json`.
- **The composition of the lock servers with the detailed libraries.** The services
  use abstract consensus objects: with messages and ballots for every instance the
  state space is out of TLC's reach. That the objects are what the libraries implement is
  argued above, and checked for the libraries on their own.
- **Termination of Paxos and of Raft elections**, which hold with probability one.
- **Time inside the network**: delays and the timeouts of `labrpc`, its counters, its
  dispatch by reflection. A call may fail at any time instead. A leader that is cut
  off and rejoins is one that learns of the latest term late.
- **Calls of one session by several threads, and calls after `Close`.**
- `labgob`, the evaluation programs (`eval/`), and the test harnesses except for
  crashes: no state of the protocol.

## Plan

1. Proofs about the lock table: an operation applied twice in a row has the effect
   of one, and only the holder's session or an expired lease frees a lock.
2. Proofs of `AnsweredIsDecided` and of Raft's `ElectionSafety` from inductive
   invariants.
3. `PaxosLog`: several instances with `Done` and forgetting, should the lock server
   come to use it.
