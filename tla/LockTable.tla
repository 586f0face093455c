------------------------------ MODULE LockTable ------------------------------
(***************************************************************************)
(* The replicated lock table: what the decided operations do to it.  Both  *)
(* lock servers (src/src/paxosserver, src/src/raftserver) apply the same   *)
(* operations in the same way; the definitions here follow paxosserver.    *)
(*                                                                         *)
(* A requester is a pair <<session, rid>>.  A session has two: rid 0 makes *)
(* the user's requests, rid 1 those of its KeepAlive goroutine.  In the    *)
(* code they are an even number and its successor, so that sessid^1 is the *)
(* other requester of the same session.                                    *)
(***************************************************************************)
EXTENDS Integers

CONSTANTS
    Sessions,       \* client sessions
    Paths,          \* paths of lock files
    Free,           \* File.Sessid of a lock that nobody holds (-1)
    NoFile,         \* the entry of a path that does not exist
    DefaultLease    \* length of a lease, in units of the clock

ASSUME DefaultLeaseType == DefaultLease \in Nat

GracePeriod == DefaultLease \div 2

Requesters == Sessions \X {0, 1}

\* sessid^1
Other(r) == <<r[1], 1 - r[2]>>

Codes == {"Create", "Remove", "Acquire", "Release", "Extend", "Revoke"}

Op(code, path, sessid, seq, lease) ==
    [Code |-> code, Path |-> path, Sessid |-> sessid, Seq |-> seq, Lease |-> lease]

File == [Sessid : Requesters \cup {Free}, Lease : Nat]

Tables == [files : [Paths -> File \cup {NoFile}], sessions : [Requesters -> Nat]]

EmptyTable == [files |-> [p \in Paths |-> NoFile], sessions |-> [r \in Requesters |-> 0]]

HeldBy(f, r) == f # NoFile /\ f.Sessid = r

(***************************************************************************)
(* What an operation does to the file f of its path                        *)
(***************************************************************************)
applyCreateL(f, op) == IF f = NoFile THEN [Sessid |-> Free, Lease |-> 0] ELSE f

applyRemoveL(f, op) == IF HeldBy(f, Free) THEN NoFile ELSE f

applyAcquireL(f, op) ==
    IF HeldBy(f, Free) \/ (HeldBy(f, op.Sessid) /\ f.Lease < op.Lease)
    THEN [Sessid |-> op.Sessid, Lease |-> op.Lease] ELSE f

applyReleaseL(f, op) ==
    IF HeldBy(f, op.Sessid) \/ HeldBy(f, Other(op.Sessid)) THEN [f EXCEPT !.Sessid = Free] ELSE f

applyExtendL(f, op) ==
    IF HeldBy(f, Other(op.Sessid)) THEN [f EXCEPT !.Lease = op.Lease] ELSE f

\* Mutant: the lease is not compared
RevokeHolder(f, op) == IF HeldBy(f, op.Sessid) THEN [f EXCEPT !.Sessid = Free] ELSE f

applyRevokeL(f, op) ==
    IF HeldBy(f, op.Sessid) /\ f.Lease = op.Lease THEN [f EXCEPT !.Sessid = Free] ELSE f

effect(f, op) ==
    CASE op.Code = "Create"  -> applyCreateL(f, op)
      [] op.Code = "Remove"  -> applyRemoveL(f, op)
      [] op.Code = "Acquire" -> applyAcquireL(f, op)
      [] op.Code = "Release" -> applyReleaseL(f, op)
      [] op.Code = "Extend"  -> applyExtendL(f, op)
      [] op.Code = "Revoke"  -> applyRevokeL(f, op)

\* op.Seq <= srv.sessions[op.Sessid]
Repeated(t, sessid, seq) == seq <= t.sessions[sessid]

updSessL(t, op) == [t.sessions EXCEPT ![op.Sessid] = op.Seq]

\* Mutant: a repeated operation is applied again
ApplyAgain(t, op) ==
    [files |-> [t.files EXCEPT ![op.Path] = effect(@, op)],
     sessions |-> IF op.Code = "Revoke" \/ Repeated(t, op.Sessid, op.Seq)
                  THEN t.sessions ELSE updSessL(t, op)]

\* One decided operation: nothing when its request was applied before.
\* Revocations are nobody's request.
Applied(t, op) ==
    IF op.Code = "Revoke"
    THEN [t EXCEPT !.files[op.Path] = effect(@, op)]
    ELSE IF Repeated(t, op.Sessid, op.Seq) THEN t
         ELSE [files |-> [t.files EXCEPT ![op.Path] = effect(@, op)], sessions |-> updSessL(t, op)]

(***************************************************************************)
(* The answer to a request, read from the table when its handler wakes up  *)
(***************************************************************************)
Reply(result, lease) == [Result |-> result, Lease |-> lease]

HolderAnswer(f, holder, otherwise) ==
    IF f = NoFile THEN Reply("LockNotExist", 0)
    ELSE IF f.Sessid # holder THEN Reply(otherwise, 0)
    ELSE Reply("OK", f.Lease)

Answer(t, op) ==
    LET f == t.files[op.Path]
    IN CASE op.Code = "Remove"  -> Reply(IF f = NoFile THEN "OK" ELSE "LockBusy", 0)
         [] op.Code = "Acquire" -> HolderAnswer(f, op.Sessid, "LockBusy")
         [] op.Code = "Extend"  -> HolderAnswer(f, Other(op.Sessid), "LockNotAcquired")
         [] OTHER               -> Reply("OK", 0)
=============================================================================
