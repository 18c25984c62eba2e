---------------------------- MODULE SessionStarts ----------------------------
(***************************************************************************)
(* Who starts trader sessions and what keeps them apart: the worker runs   *)
(* the session job as a subprocess and retries it, the multi-strategy      *)
(* supervisor starts one trader per configuration, and every trader takes  *)
(* session.lock, a file with a pid, before it trades.                      *)
(*                                                                         *)
(* A process that is killed leaves the file behind, and its pid may be     *)
(* given to another process.  A session ends by itself whenever it likes   *)
(* (a signal, an error, its last tick); the backoff of a retry is a wait.  *)
(***************************************************************************)
EXTENDS Naturals, FiniteSets

CONSTANTS
    Pids,
    NoPid,
    Attempts,    \* DEFAULT_JOB_POLICY.attempts
    Configs,     \* how many configurations STRATEGY_CONFIGS names
    MaxBoots,    \* bound: starts of the worker stack
    MaxDeaths    \* bound: processes killed

ASSUME StartsAssumption ==
    /\ NoPid \notin Pids
    /\ Attempts \in Nat \ {0}
    /\ {Configs, MaxBoots, MaxDeaths} \subseteq Nat

VARIABLES
    lockPid,     \* the content of session.lock
    proc,        \* of a pid: "none", "unrelated", or where the session is
    worker,      \* "down", "up", "closing"
    sessionJobs, \* job -> [at, tries, stalls]; one job is added per start
    current,     \* the job the worker runs, 0 if none
    child,       \* its subprocess
    childExit,   \* "none", "ok", "error"
    supervisor,  \* start-multi-strategy: "off", "spawning", "waiting", "tearing"
    spawned,     \* traders it has started
    kids,        \* those of them that have not exited
    boots,
    deaths,
    kidRefused,  \* ghost: a trader of the supervisor has been refused
    overlapped   \* ghost: two sessions were between the check and the write

workerVars == <<worker, sessionJobs, current, child, boots>>
multiVars == <<supervisor, spawned>>
startsVars == <<lockPid, proc, workerVars, childExit, multiVars, kids, deaths,
                kidRefused, overlapped>>

-----------------------------------------------------------------------------
Jobs == 1..MaxBoots
NoJob == [at |-> "none", tries |-> 0, stalls |-> 0]

Running == {p \in Pids : proc[p] \in {"running", "releasing"}}

Free == {p \in Pids : proc[p] = "none"}

\* isPidAlive: any process will do, the caller itself included.
HolderAlive == lockPid # NoPid /\ lockPid \notin Free

\* The process is gone; whoever started it learns the exit code.
Leaves(p, code) ==
    /\ proc' = [proc EXCEPT ![p] = "none"]
    /\ childExit' = IF p = child THEN code ELSE childExit
    /\ kids' = kids \ {p}

-----------------------------------------------------------------------------
(* A trader session.                                                       *)

\* Mutant: the refused session cleans up like one that held the lock.
RefuseReleases(p) ==
    /\ proc[p] = "starting"
    /\ HolderAlive
    /\ Leaves(p, "error")
    /\ lockPid' = NoPid
    /\ kidRefused' = (kidRefused \/ p \in kids)
    /\ UNCHANGED <<workerVars, multiVars, deaths, overlapped>>

\* "Another trader session is running": thrown before the try, no release.
Refuse(p) ==
    /\ proc[p] = "starting"
    /\ HolderAlive
    /\ Leaves(p, "error")
    /\ kidRefused' = (kidRefused \/ p \in kids)
    /\ UNCHANGED <<lockPid, workerVars, multiVars, deaths, overlapped>>

\* No file, or a stale one.
FindFree(p) ==
    /\ proc[p] = "starting"
    /\ ~HolderAlive
    /\ proc' = [proc EXCEPT ![p] = "clear"]
    /\ overlapped' = (overlapped \/ \E q \in Pids : proc[q] = "clear")
    /\ UNCHANGED <<lockPid, workerVars, childExit, multiVars, kids, deaths, kidRefused>>

WriteLock(p) ==
    /\ proc[p] = "clear"
    /\ proc' = [proc EXCEPT ![p] = "running"]
    /\ lockPid' = p
    /\ UNCHANGED <<workerVars, childExit, multiVars, kids, deaths, kidRefused, overlapped>>

\* releaseSessionLock reads the file, and unlinks it only if it is its own.
EndSession(p, code) ==
    /\ proc[p] = "running"
    /\ IF lockPid = p
       THEN proc' = [proc EXCEPT ![p] = "releasing"] /\ UNCHANGED <<childExit, kids>>
       ELSE Leaves(p, code)
    /\ UNCHANGED <<lockPid, workerVars, multiVars, deaths, kidRefused, overlapped>>

Unlink(p, code) ==
    /\ proc[p] = "releasing"
    /\ lockPid' = NoPid
    /\ Leaves(p, code)
    /\ UNCHANGED <<workerVars, multiVars, deaths, kidRefused, overlapped>>

Killed(p) ==
    /\ proc[p] \notin {"none", "unrelated"}
    /\ deaths < MaxDeaths
    /\ deaths' = deaths + 1
    /\ Leaves(p, "error")
    /\ UNCHANGED <<lockPid, workerVars, multiVars, kidRefused, overlapped>>

\* Another program gets the pid that a stale lock names, and ends.
OthersRun(p) ==
    /\ \/ proc[p] = "none" /\ p = lockPid
       \/ proc[p] = "unrelated"
    /\ p # child
    /\ proc' = [proc EXCEPT ![p] = IF proc[p] = "none" THEN "unrelated" ELSE "none"]
    /\ UNCHANGED <<lockPid, workerVars, childExit, multiVars, kids, deaths, kidRefused, overlapped>>

-----------------------------------------------------------------------------
(* The worker and its session job.                                         *)

\* start-stack: the worker is spawned; when it is ready, one more job is added.
StackStarts ==
    /\ worker = "down"
    /\ boots < MaxBoots
    /\ boots' = boots + 1
    /\ worker' = "up"
    /\ sessionJobs' = [sessionJobs EXCEPT ![boots'].at = "waiting"]
    /\ UNCHANGED <<lockPid, proc, current, child, childExit, multiVars, kids, deaths, kidRefused, overlapped>>

\* concurrency: 1
Idle == worker = "up" /\ current = 0

\* runTraderSession spawns the trader.
TakeJob(j, p) ==
    /\ Idle
    /\ sessionJobs[j].at = "waiting"
    /\ proc[p] = "none"
    /\ sessionJobs' = [sessionJobs EXCEPT ![j].at = "active"]
    /\ current' = j
    /\ child' = p
    /\ childExit' = "none"
    /\ proc' = [proc EXCEPT ![p] = "starting"]
    /\ UNCHANGED <<lockPid, worker, boots, multiVars, kids, deaths, kidRefused, overlapped>>

\* The subprocess has exited: completed, or failed and tried again.
JobEnds ==
    /\ current # 0
    /\ childExit # "none"
    /\ LET tries == sessionJobs[current].tries + 1
           at == IF childExit = "ok" THEN "completed"
                 ELSE IF tries < Attempts THEN "waiting" ELSE "failed"
       IN sessionJobs' = [sessionJobs EXCEPT ![current].at = at, ![current].tries = tries]
    /\ current' = 0
    /\ child' = NoPid
    /\ childExit' = "none"
    /\ UNCHANGED <<lockPid, proc, worker, boots, multiVars, kids, deaths, kidRefused, overlapped>>

\* BullMQ: the job of a dead worker is queued again, once.
JobStalled(j) ==
    /\ worker = "up"
    /\ sessionJobs[j].at = "active"
    /\ j # current
    /\ sessionJobs' = [sessionJobs EXCEPT
           ![j].at = IF sessionJobs[j].stalls = 0 THEN "waiting" ELSE "failed",
           ![j].stalls = 1]
    /\ UNCHANGED <<lockPid, proc, worker, current, child, childExit, boots, multiVars, kids,
                   deaths, kidRefused, overlapped>>

\* shutdown: no new job, and worker.close() waits for the one in hand.
WorkerStops ==
    /\ worker = "up"
    /\ worker' = "closing"
    /\ UNCHANGED <<lockPid, proc, sessionJobs, current, child, childExit, boots, multiVars, kids,
                   deaths, kidRefused, overlapped>>

WorkerExits ==
    /\ worker = "closing"
    /\ current = 0
    /\ worker' = "down"
    /\ UNCHANGED <<lockPid, proc, sessionJobs, current, child, childExit, boots, multiVars, kids,
                   deaths, kidRefused, overlapped>>

\* The worker is killed; its subprocess with it, or it lives on.
WorkerKilled(alone) ==
    /\ worker # "down"
    /\ deaths < MaxDeaths
    /\ deaths' = deaths + 1
    /\ worker' = "down"
    /\ current' = 0
    /\ child' = NoPid
    /\ childExit' = "none"
    /\ proc' = IF alone \/ child = NoPid THEN proc ELSE [proc EXCEPT ![child] = "none"]
    /\ UNCHANGED <<lockPid, sessionJobs, boots, multiVars, kids, kidRefused, overlapped>>

-----------------------------------------------------------------------------
(* The multi-strategy supervisor.                                          *)

SpawnKid(p) ==
    /\ supervisor \in {"off", "spawning"}
    /\ spawned < Configs
    /\ proc[p] = "none"
    /\ p # child
    /\ spawned' = spawned + 1
    /\ supervisor' = IF spawned' = Configs THEN "waiting" ELSE "spawning"
    /\ kids' = kids \cup {p}
    /\ proc' = [proc EXCEPT ![p] = "starting"]
    /\ UNCHANGED <<lockPid, workerVars, childExit, deaths, kidRefused, overlapped>>

\* The first exit: every other trader gets SIGTERM.
TearDown ==
    /\ supervisor = "waiting"
    /\ Cardinality(kids) < Configs
    /\ supervisor' = "tearing"
    /\ UNCHANGED <<lockPid, proc, workerVars, childExit, spawned, kids, deaths, kidRefused, overlapped>>

\* A trader without its signal handler yet is ended by the signal.
KidTerminated(p) ==
    /\ supervisor = "tearing"
    /\ p \in kids
    /\ proc[p] \in {"starting", "clear"}
    /\ Leaves(p, "error")
    /\ UNCHANGED <<lockPid, workerVars, multiVars, deaths, kidRefused, overlapped>>

-----------------------------------------------------------------------------
StartsInit ==
    /\ lockPid = NoPid
    /\ proc = [p \in Pids |-> "none"]
    /\ worker = "down"
    /\ sessionJobs = [j \in Jobs |-> NoJob]
    /\ current = 0
    /\ child = NoPid
    /\ childExit = "none"
    /\ supervisor = "off"
    /\ spawned = 0
    /\ kids = {}
    /\ boots = 0
    /\ deaths = 0
    /\ kidRefused = FALSE
    /\ overlapped = FALSE

StartsNext ==
    \/ \E p \in Pids :
          \/ Refuse(p) \/ FindFree(p) \/ WriteLock(p) \/ Killed(p) \/ OthersRun(p)
          \/ \E code \in {"ok", "error"} : EndSession(p, code) \/ Unlink(p, code)
          \/ SpawnKid(p) \/ KidTerminated(p)
          \/ \E j \in Jobs : TakeJob(j, p)
    \/ StackStarts \/ JobEnds \/ WorkerStops \/ WorkerExits \/ TearDown
    \/ \E j \in Jobs : JobStalled(j)
    \/ \E alone \in BOOLEAN : WorkerKilled(alone)

StartsSpec == StartsInit /\ [][StartsNext]_startsVars

-----------------------------------------------------------------------------
(* Properties.                                                             *)

\* However often the session job is retried, stalled or added again, whoever
\* survives the death of the worker and whatever pids are reused: at most one
\* session trades.  Not if two sessions were between the check of
\* the lock file and its write at the same time.
OneSession == overlapped \/ Cardinality(Running) <= 1

\* deploy/README.md: "Run N strategies side-by-side as isolated trader
\* subprocesses".  As long as nothing is killed, no trader of the supervisor
\* is turned away.
SideBySide == deaths = 0 => ~kidRefused

=============================================================================
