------------------------------ MODULE FileLock ------------------------------
(***************************************************************************)
(* The advisory lock of runtime/state.py (`file_lock`).  A contender opens *)
(* (creating if needed) the rendezvous file "<name>.lock", polls a         *)
(* non-blocking flock on the inode it opened until it succeeds or the      *)
(* timeout has elapsed, stamps the file, runs the body of the `with`       *)
(* statement, and in the `finally` clause unlocks and closes.  The file is *)
(* never removed.  The kernel drops the lock of a process that dies.       *)
(*                                                                         *)
(* A contender is one execution of `file_lock`, in any process or thread:  *)
(* flock belongs to the open file, and every execution opens its own.      *)
(***************************************************************************)
EXTENDS Processes, Naturals, FiniteSets

CONSTANTS
  Inodes,     \* the inodes the file system can give the rendezvous file
  NoInode,    \* no file, or no descriptor
  Timeout     \* the `timeout` argument, counted in polling intervals

ASSUME InodeAssumption     == NoInode \notin Inodes
ASSUME TimeoutAssumption   == Timeout \in Nat

VARIABLES
  pc,          \* where each contender is in `file_lock`
  descriptor,  \* the inode each contender has open
  elapsed,     \* polling intervals since each contender's `started`
  rendezvous,  \* the inode "<name>.lock" names in its directory
  owner,       \* the kernel's exclusive-lock table: inode -> contender
  stamp        \* the pid written in each inode

lockVars == <<pc, descriptor, elapsed, rendezvous, owner, stamp>>

Locked == {"stamping", "critical", "unlocking"}
Opened == {"polling", "closing"} \union Locked

LockTypeOK ==
  /\ pc \in [Procs -> {"idle", "opening"} \union Opened]
  /\ descriptor \in [Procs -> Inodes \union {NoInode}]
  /\ elapsed \in [Procs -> 0 .. Timeout]
  /\ rendezvous \in Inodes \union {NoInode}
  /\ owner \in [Inodes -> Procs \union {NoProc}]
  /\ stamp \in [Inodes -> Procs \union {NoProc}]

LockInit ==
  /\ pc = [p \in Procs |-> "idle"]
  /\ descriptor = [p \in Procs |-> NoInode]
  /\ elapsed = [p \in Procs |-> 0]
  /\ rendezvous = NoInode
  /\ owner = [i \in Inodes |-> NoProc]
  /\ stamp = [i \in Inodes |-> NoProc]

Goto(p, from, to) ==
  /\ pc[p] = from
  /\ pc' = [pc EXCEPT ![p] = to]

\* `started = time.monotonic()`.
Start(p) ==
  /\ Goto(p, "idle", "opening")
  /\ elapsed' = [elapsed EXCEPT ![p] = 0]
  /\ UNCHANGED <<descriptor, rendezvous, owner, stamp>>

\* An inode the file system may give a new file: nothing names it or has it open.
Unused(i) == i # rendezvous /\ \A q \in Procs : descriptor[q] # i

\* MUTANT of Open: the pid is written when the file is opened, before the lock is held.
OpenStamps(p) ==
  /\ Goto(p, "opening", "polling")
  /\ \E i \in Inodes :
       /\ IF rendezvous = NoInode THEN Unused(i) ELSE i = rendezvous
       /\ rendezvous' = i
       /\ descriptor' = [descriptor EXCEPT ![p] = i]
       /\ stamp' = [stamp EXCEPT ![i] = p]
  /\ UNCHANGED <<elapsed, owner>>

\* os.open(lock_path, O_CREAT | O_RDWR): the existing file, or a new one.
Open(p) ==
  /\ Goto(p, "opening", "polling")
  /\ \E i \in Inodes :
       /\ IF rendezvous = NoInode THEN Unused(i) ELSE i = rendezvous
       /\ rendezvous' = i
       /\ descriptor' = [descriptor EXCEPT ![p] = i]
       /\ stamp' = IF rendezvous = NoInode THEN [stamp EXCEPT ![i] = NoProc] ELSE stamp
  /\ UNCHANGED <<elapsed, owner>>

\* os.open raises PermissionError: sleep and retry, or give up at the timeout.
OpenDenied(p) ==
  /\ pc[p] = "opening"
  /\ IF elapsed[p] >= Timeout
     THEN pc' = [pc EXCEPT ![p] = "idle"] /\ UNCHANGED elapsed
     ELSE elapsed' = [elapsed EXCEPT ![p] = @ + 1] /\ UNCHANGED pc
  /\ UNCHANGED <<descriptor, rendezvous, owner, stamp>>

\* MUTANT of Acquire: a lease that a waiter at its timeout steals from its holder.
AcquireOrSteal(p) ==
  /\ Goto(p, "polling", "stamping")
  /\ owner[descriptor[p]] = NoProc \/ elapsed[p] >= Timeout
  /\ owner' = [owner EXCEPT ![descriptor[p]] = p]
  /\ UNCHANGED <<descriptor, elapsed, rendezvous, stamp>>

\* _try_advisory_lock succeeds: nobody holds the inode this contender opened.
Acquire(p) ==
  /\ Goto(p, "polling", "stamping")
  /\ owner[descriptor[p]] = NoProc
  /\ owner' = [owner EXCEPT ![descriptor[p]] = p]
  /\ UNCHANGED <<descriptor, elapsed, rendezvous, stamp>>

\* MUTANT of Sleep: `started` is taken inside the loop.
SleepRestartsClock(p) ==
  /\ pc[p] = "polling"
  /\ owner[descriptor[p]] # NoProc
  /\ elapsed[p] < Timeout
  /\ elapsed' = [elapsed EXCEPT ![p] = 0]
  /\ UNCHANGED <<pc, descriptor, rendezvous, owner, stamp>>

\* _try_advisory_lock fails and there is time left: sleep one interval.
Sleep(p) ==
  /\ pc[p] = "polling"
  /\ owner[descriptor[p]] # NoProc
  /\ elapsed[p] < Timeout
  /\ elapsed' = [elapsed EXCEPT ![p] = @ + 1]
  /\ UNCHANGED <<pc, descriptor, rendezvous, owner, stamp>>

\* _try_advisory_lock fails at or after the timeout: TimeoutError, nothing held.
Expire(p) ==
  /\ Goto(p, "polling", "closing")
  /\ owner[descriptor[p]] # NoProc
  /\ elapsed[p] >= Timeout
  /\ UNCHANGED <<descriptor, elapsed, rendezvous, owner, stamp>>

\* os.ftruncate and os.write of the pid, then `yield`.
Stamp(p) ==
  /\ Goto(p, "stamping", "critical")
  /\ stamp' = [stamp EXCEPT ![descriptor[p]] = p]
  /\ UNCHANGED <<descriptor, elapsed, rendezvous, owner>>

\* The stamp cannot be written (no space left): the truncated file stays empty
\* and the body never runs.
StampFails(p) ==
  /\ Goto(p, "stamping", "unlocking")
  /\ stamp' = [stamp EXCEPT ![descriptor[p]] = NoProc]
  /\ UNCHANGED <<descriptor, elapsed, rendezvous, owner>>

\* The body returns or raises: `finally` begins.
Leave(p) ==
  /\ Goto(p, "critical", "unlocking")
  /\ UNCHANGED <<descriptor, elapsed, rendezvous, owner, stamp>>

\* MUTANT of Unlock: the rendezvous file is removed with the lock.
UnlockUnlinks(p) ==
  /\ Goto(p, "unlocking", "closing")
  /\ owner' = [owner EXCEPT ![descriptor[p]] = NoProc]
  /\ rendezvous' = NoInode
  /\ UNCHANGED <<descriptor, elapsed, stamp>>

\* _release_advisory_lock.
Unlock(p) ==
  /\ Goto(p, "unlocking", "closing")
  /\ owner' = [owner EXCEPT ![descriptor[p]] = NoProc]
  /\ UNCHANGED <<descriptor, elapsed, rendezvous, stamp>>

\* os.close.
Close(p) ==
  /\ Goto(p, "closing", "idle")
  /\ descriptor' = [descriptor EXCEPT ![p] = NoInode]
  /\ UNCHANGED <<elapsed, rendezvous, owner, stamp>>

\* MUTANT of Vanish: a lock that lives in the file's existence, not in the kernel.
VanishKeepsLock(p) ==
  /\ pc[p] # "idle"
  /\ pc' = [pc EXCEPT ![p] = "idle"]
  /\ descriptor' = [descriptor EXCEPT ![p] = NoInode]
  /\ UNCHANGED <<elapsed, rendezvous, owner, stamp>>

\* The process dies anywhere: the kernel closes its descriptor and drops its lock.
Vanish(p) ==
  /\ pc[p] # "idle"
  /\ pc' = [pc EXCEPT ![p] = "idle"]
  /\ descriptor' = [descriptor EXCEPT ![p] = NoInode]
  /\ owner' = [i \in Inodes |-> IF owner[i] = p THEN NoProc ELSE owner[i]]
  /\ UNCHANGED <<elapsed, rendezvous, stamp>>

\* What a contender does of its own accord while it waits for the lock.
WaitStep(p) == Open(p) \/ OpenDenied(p) \/ Acquire(p) \/ Sleep(p) \/ Expire(p)

LockStep(p) ==
  \/ Start(p) \/ Open(p) \/ OpenDenied(p) \/ Acquire(p) \/ Sleep(p) \/ Expire(p)
  \/ Stamp(p) \/ StampFails(p) \/ Leave(p) \/ Unlock(p) \/ Close(p) \/ Vanish(p)

LockNext == \E p \in Procs : LockStep(p)

LockSpec == LockInit /\ [][LockNext]_lockVars

-----------------------------------------------------------------------------
Inside == {p \in Procs : pc[p] \in Locked}

\* The lock serialises its callers: two contenders are never both between a
\* successful _try_advisory_lock and the release in `finally`, however their
\* opens, creations, timeouts and deaths interleave.
MutualExclusion == \A p, q \in Inside : p = q

\* The rendezvous file tells the truth: while a body runs, the file that a
\* newcomer would open carries the pid of the contender running it.
StampNamesHolder ==
  \A p \in Procs : pc[p] = "critical" => rendezvous # NoInode /\ stamp[rendezvous] = p

\* A contender that gave up, finished or died leaves no lock behind.
NoAbandonedLock ==
  \A i \in Inodes : owner[i] # NoProc => owner[i] \in Inside /\ descriptor[owner[i]] = i

\* file_lock implements the abstract mutex: a contender is inside from its
\* acquisition to its release or death.
M == INSTANCE Mutex WITH inside <- Inside
ImplementsMutex == M!Spec

-----------------------------------------------------------------------------
(***************************************************************************)
(* Fairness.  A contender that is waiting runs: its loop sleeps 25 ms and  *)
(* tries again.  Nothing is assumed of the body of the `with` statement,   *)
(* nor of a holder releasing or dying.                                     *)
(***************************************************************************)
FairSpec == LockSpec /\ \A p \in Procs : WF_lockVars(WaitStep(p))

\* Waiting is bounded: a contender that has called file_lock enters the body,
\* raises TimeoutError or dies, even if the holder never lets go.
WaitEnds == \A p \in Procs : pc[p] \in {"opening", "polling"} ~> pc[p] \notin {"opening", "polling"}
=============================================================================
