------------------------------ MODULE FileLock ------------------------------
(***************************************************************************)
(* The process lock of the agent (pkg/runtime/lock.go) as Agent.Start and  *)
(* Agent.Stop use it (pkg/agent/agent.go): any number of agent processes   *)
(* exec'd into the same container contend for one lock file.               *)
(*                                                                         *)
(* One action is one system call, so every interleaving of the calls of    *)
(* two processes is a behaviour.  The lock file is a hard link to the      *)
(* temporary file "<path>.<pid>" of the process that took the lock, and a  *)
(* process links no file but its own.  The inode behind the lock path is   *)
(* therefore named by the pid of its creator, and `lockFile' is that pid.  *)
(*                                                                         *)
(* After an agent is gone the kernel may give its pid to another program   *)
(* (ReusePid) or to a new agent (Restart), which then finds the files of   *)
(* the old one under its own names.                                        *)
(***************************************************************************)
EXTENDS Naturals

CONSTANTS
  Pid,        \* process identifiers
  NoPid,      \* the -1 of Owner() and the absent lock file
  Orphan      \* an empty lock file whose temporary name is gone

ASSUME PidAssumption ==
  /\ NoPid \notin Pid
  /\ Orphan \notin Pid
  /\ NoPid # Orphan

VARIABLES
  pc,         \* next system call of each process
  temp,       \* "<path>.<pid>": "none", "empty" or "written"
  lockFile,       \* creator of the inode the lock path is linked to, Orphan or NoPid
  seen,       \* the owner each process read in Acquire
  alien,      \* pids given to another program after their agent ended
  raced       \* history: the lock was claimed inside another process' takeover window

lockVars == <<pc, temp, lockFile, seen, alien, raced>>

Pc == {"start", "created", "link", "owner", "alive", "remove", "relink",
       "acquired", "refused", "hold", "release", "unlink", "exited"}

\* Acquire has returned true, or is about to, and Release is not done.
Owns(p) == pc[p] \in {"acquired", "hold", "unlink"}

\* The agent is running under the lock: Start has returned it to its caller.
Running(p) == pc[p] = "hold"

\* The process has read the owner and may still unlink the lock file.
InTakeover(p) == pc[p] \in {"alive", "remove"}

LockTypeOK ==
  /\ pc \in [Pid -> Pc]
  /\ temp \in [Pid -> {"none", "empty", "written"}]
  /\ lockFile \in Pid \cup {NoPid, Orphan}
  /\ seen \in [Pid -> Pid \cup {NoPid}]
  /\ alien \subseteq Pid
  /\ raced \in BOOLEAN

LockInit ==
  /\ pc = [p \in Pid |-> "start"]
  /\ temp = [p \in Pid |-> "none"]
  /\ lockFile = NoPid
  /\ seen = [p \in Pid |-> NoPid]
  /\ alien = {}
  /\ raced = FALSE

-----------------------------------------------------------------------------
\* Mutant of Owner: an empty lock file is taken for a valid one.
OwnerUnchecked == lockFile

\* Owner: the pid in the lock file; -1 when it is missing, empty or unreadable.
Owner == IF lockFile \in Pid /\ temp[lockFile] = "written" THEN lockFile ELSE NoPid

\* Mutant of IsAlive: the test on the error of the probe is inverted.
IsAliveInverted(q) == q # NoPid /\ pc[q] = "exited" /\ q \notin alien

\* isAlive: signal 0 reaches the pid, whichever program runs under it.
IsAlive(q) == q # NoPid /\ (pc[q] # "exited" \/ q \in alien)

Goto(p, label) == pc' = [pc EXCEPT ![p] = label]

\* Process p lays claim to the lock while another may still unlink it.
Claim(p) == raced' = (raced \/ \E q \in Pid \ {p} : InTakeover(q))

-----------------------------------------------------------------------------
\* createTempLock.  Either call may fail; Acquire then returns the error
\* before its deferred clean-up is registered.  os.Create truncates the file
\* an earlier agent with this pid left, which may be the lock file itself.
CreateTemp(p) ==
  /\ pc[p] = "start"
  /\ \/ temp' = [temp EXCEPT ![p] = "empty"] /\ Goto(p, "created")
     \/ Goto(p, "release") /\ UNCHANGED temp
  /\ UNCHANGED <<lockFile, seen, alien, raced>>

WriteTemp(p) ==
  /\ pc[p] = "created"
  /\ \/ /\ temp' = [temp EXCEPT ![p] = "written"]
        /\ Goto(p, "link")
        /\ UNCHANGED lockFile
     \/ /\ temp' = [temp EXCEPT ![p] = "none"]
        /\ lockFile' = IF lockFile = p THEN Orphan ELSE lockFile
        /\ Goto(p, "release")
  /\ UNCHANGED <<seen, alien, raced>>

\* os.Link(tempLock, l.path) at a free path.
Link(p, next) ==
  /\ lockFile = NoPid
  /\ lockFile' = p
  /\ Claim(p)
  /\ Goto(p, next)
  /\ UNCHANGED <<temp, seen, alien>>

LinkTemp(p) ==
  /\ pc[p] = "link"
  /\ \/ Link(p, "acquired")
     \/ /\ lockFile # NoPid
        /\ Goto(p, "owner")
        /\ UNCHANGED <<temp, lockFile, seen, alien, raced>>

\* owner := l.Owner(), and the test that this process holds the lock already.
ReadOwner(p) ==
  /\ pc[p] = "owner"
  /\ seen' = [seen EXCEPT ![p] = Owner]
  /\ \/ Owner = p /\ Claim(p) /\ Goto(p, "acquired")
     \/ Owner # p /\ Goto(p, "alive") /\ UNCHANGED raced
  /\ UNCHANGED <<temp, lockFile, alien>>

CheckAlive(p) ==
  /\ pc[p] = "alive"
  /\ Goto(p, IF IsAlive(seen[p]) THEN "refused" ELSE "remove")
  /\ UNCHANGED <<temp, lockFile, seen, alien, raced>>

\* os.Remove(l.path): whatever the path is linked to by now.
RemoveStale(p) ==
  /\ pc[p] = "remove"
  /\ lockFile' = NoPid
  /\ Goto(p, IF lockFile = NoPid THEN "refused" ELSE "relink")
  /\ UNCHANGED <<temp, seen, alien, raced>>

Relink(p) ==
  /\ pc[p] = "relink"
  /\ \/ Link(p, "acquired")
     \/ /\ lockFile # NoPid
        /\ Goto(p, "refused")
        /\ UNCHANGED <<temp, lockFile, seen, alien, raced>>

\* The deferred function of Acquire: drop the temporary file unless the lock
\* path is linked to it.
DeferredCleanup(p) ==
  /\ pc[p] \in {"acquired", "refused"}
  /\ temp' = [temp EXCEPT ![p] = IF lockFile = p THEN @ ELSE "none"]
  /\ Goto(p, IF pc[p] = "acquired" THEN "hold" ELSE "release")
  /\ UNCHANGED <<lockFile, seen, alien, raced>>

-----------------------------------------------------------------------------
\* Mutant of ReadRelease: the ownership test is dropped.
ReleaseUnchecked(p) ==
  /\ pc[p] \in {"hold", "release"}
  /\ Goto(p, "unlink")
  /\ UNCHANGED <<temp, lockFile, seen, alien, raced>>

\* Release, as Agent.Stop calls it: after the command of a started agent
\* (pc "hold") and after a Start that failed (pc "release").
ReadRelease(p) ==
  /\ pc[p] \in {"hold", "release"}
  /\ Goto(p, IF Owner = p THEN "unlink" ELSE "exited")
  /\ IF Owner = p /\ pc[p] = "release" THEN Claim(p) ELSE UNCHANGED raced
  /\ UNCHANGED <<temp, lockFile, seen, alien>>

Unlink(p) ==
  /\ pc[p] = "unlink"
  /\ lockFile' = NoPid
  /\ Goto(p, "exited")
  /\ UNCHANGED <<temp, seen, alien, raced>>

-----------------------------------------------------------------------------
\* SIGKILL, an OOM kill, or a signal after Signal().Reset(): files stay.
Kill(p) ==
  /\ pc[p] # "exited"
  /\ Goto(p, "exited")
  /\ UNCHANGED <<temp, lockFile, seen, alien, raced>>

\* A new agent process is given the pid of one that is gone.
Restart(p) ==
  /\ pc[p] = "exited"
  /\ p \notin alien
  /\ Goto(p, "start")
  /\ seen' = [seen EXCEPT ![p] = NoPid]
  /\ UNCHANGED <<temp, lockFile, alien, raced>>

ReusePid(p) ==
  /\ pc[p] = "exited"
  /\ p \notin alien
  /\ alien' = alien \cup {p}
  /\ UNCHANGED <<pc, temp, lockFile, seen, raced>>

ReturnPid(p) ==
  /\ p \in alien
  /\ alien' = alien \ {p}
  /\ UNCHANGED <<pc, temp, lockFile, seen, raced>>

-----------------------------------------------------------------------------
Acquire(p) ==
  \/ CreateTemp(p) \/ WriteTemp(p) \/ LinkTemp(p) \/ ReadOwner(p)
  \/ CheckAlive(p) \/ RemoveStale(p) \/ Relink(p) \/ DeferredCleanup(p)

Release(p) == ReadRelease(p) \/ Unlink(p)

LockNext ==
  \E p \in Pid :
    \/ Acquire(p) \/ Release(p)
    \/ Kill(p) \/ Restart(p) \/ ReusePid(p) \/ ReturnPid(p)

LockSpec == LockInit /\ [][LockNext]_lockVars

-----------------------------------------------------------------------------
\* "Returned agent is guaranteed to be unique in the environment it is
\* running" (the comment of agent.Start): Start never returns an agent while
\* another agent it returned is still running.
MutualExclusion ==
  \A p, q \in Pid : Running(p) /\ Running(q) => p = q

\* What Acquire and Release do guarantee: at most one process owns the lock,
\* and the lock file is its own, as long as nobody claims the lock while
\* another process stands between reading a stale owner and unlinking it.
MutexUnlessRaced ==
  ~raced => \A p \in Pid : Owns(p) => lockFile = p /\ temp[p] = "written"

\* No step of another process (a refused Acquire, its deferred clean-up, a
\* takeover, the Release after a failed Start, a crash) takes the lock file
\* away from the process that owns it.
HolderKeepsLock ==
  [][\A p \in Pid : ~raced' /\ Owns(p) /\ Owns(p)' => lockFile' = lockFile]_lockVars

-----------------------------------------------------------------------------
\* Inductive strengthening of MutexUnlessRaced: a process in its takeover
\* window that has not yet looked for the owner saw the present owner, and one
\* about to unlink the lock file faces no owner.
WindowsSafe ==
  ~raced =>
    \A p, q \in Pid :
      Owns(p) => /\ pc[q] = "alive" => seen[q] = p
                 /\ pc[q] # "remove"

\* What a process links to the lock path carries its pid.
TempWritten ==
  \A p \in Pid :
    pc[p] \in {"link", "owner", "alive", "remove", "relink"} => temp[p] = "written"

LockInv == LockTypeOK /\ TempWritten /\ MutexUnlessRaced /\ WindowsSafe
=============================================================================
