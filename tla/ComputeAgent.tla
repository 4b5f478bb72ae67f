---------------------------- MODULE ComputeAgent ----------------------------
(***************************************************************************)
(* The compute agent, elim.netapp_compute: a main thread that reads what   *)
(* SystemTap prints every few seconds, finds the LSF job of each process,  *)
(* adds the operations up and writes them to the jobs' report files; and   *)
(* a Timer thread that replaces the map of mounted devices under it.       *)
(*                                                                         *)
(* An operation count is one line with an identity, so that it can be told *)
(* which lines were counted, once or twice, and which were lost.  A time   *)
(* is kept as an age.  Time passes while the main thread sleeps or waits   *)
(* for a command, and whatever the Timer thread does: a command has no     *)
(* time limit.  What the main thread does between takes no time, however   *)
(* the steps of the Timer thread come between its own.                     *)
(*                                                                         *)
(* Definitions called Mistaken... are not used: each is a plausible error  *)
(* in the definition below it, to show that the properties detect it.      *)
(***************************************************************************)
EXTENDS Integers, Sequences, SequencesExt, FiniteSets

CONSTANTS
  Pids, Jobs,
  Devs,             \* device numbers
  NfsDevs,          \* those an NFS volume may be mounted as
  WriteInterval,    \* performance_output_write_interval, in ticks
  PidExpiry,        \* pid_to_lsf_job_number_expiration_time
  DeviceExpiry,     \* non_nfs_device_cache_expiration_time
  MaxRestarts,      \* max_systemtap_restarts
  Faults,           \* what may go wrong: "die", SystemTap fails or ends;
                    \* "setback", the clock is set back, once; "mount", a
                    \* command of the agent fails; "write", a report file
                    \* cannot be written
  MaxLines,         \* bound: lines SystemTap prints, separators apart
  PipeSize,         \* bound: lines in the pipe when SystemTap prints
  MaxChanges,       \* bound: how often something happens to the node
  MaxAge,           \* bound: how far the time of a mount is counted
  MaxBehind,        \* bound: how far the time a map lags behind the mounts is
  NULL, Gone, Separator

Ids  == 1 .. MaxLines
Line == [id : Ids, pid : Pids, dev : Devs, job : Jobs \cup {NULL}]

ASSUME AgentAssumption ==
  /\ NfsDevs \subseteq Devs
  /\ WriteInterval \in Nat /\ PidExpiry \in Nat /\ DeviceExpiry \in Nat
  /\ MaxRestarts \in Int /\ MaxLines \in Nat /\ PipeSize \in Nat /\ MaxChanges \in Nat
  /\ MaxAge \in Nat /\ MaxAge >= DeviceExpiry /\ MaxBehind \in Nat
  /\ Faults \subseteq {"die", "setback", "mount", "write"}
  /\ NULL # Gone /\ {NULL, Gone} \cap Jobs = {} /\ {NULL, Separator} \cap Line = {}

VARIABLES
  \* The node: SystemTap's process, its output, processes, mounts, clock.
  stap,             \* "running", "failed" or "finished" (with exit code 0)
  pipe,             \* lines in the pipe of its output
  printed,          \* how many lines it has printed
  due,              \* it will print again
  owner,            \* pid -> its job, NULL for other processes, or Gone
  mounted,          \* the NFS devices
  mountedFor,       \* how long
  setBack,          \* the clock was set back
  changes,          \* how often something happened
  \* The main thread.
  main,             \* where it stands
  buf,              \* lines in the buffer of process.stdout
  line,             \* the line it is processing, or NULL
  found,            \* lsfJobNumber
  failureCount,
  sinceCheck,       \* currentTime - lastCheckTime
  elapsedTime,
  pidJob,           \* pidToLSFJobNumberMap: a job, NULL, or Gone if not in it
  pidAge,           \* time since pidLastUsedTimeMap
  deviceMap,        \* the keys of deviceNumberToDeviceMap
  nonNFSAge,        \* device -> time since its entry in nonNFSDeviceMap, or NULL
  lookMap,          \* what it has read of the mounts
  lookFor,          \* currentTime of processSystemTapOutput(), as an age
  outputQueue,      \* what is counted and not yet written
  toWrite,          \* the jobs writeJobStatistics() has yet to write
  clearAfter,       \* whether the queue is cleared then
  \* The Timer thread of the mounts.
  timer,            \* "waiting", "reading" or "ended"
  timerMap,         \* what it has read
  \* History.
  written,          \* line -> times it went to a report file
  dropped,          \* lines that will never be counted
  timerBehind,      \* how long timerMap has lacked a mounted volume
  behind            \* how long deviceMap had when the Timer thread stored it

nodeVars  == <<stap, pipe, printed, due, owner, mounted, mountedFor, setBack, changes>>
loopVars  == <<failureCount, sinceCheck, elapsedTime>>
pidVars   == <<pidJob, pidAge>>
writeVars == <<outputQueue, toWrite, clearAfter, written>>
mapVars   == <<deviceMap, behind>>
lookVars  == <<nonNFSAge, lookMap, lookFor>>
timerVars == <<timer, timerMap, timerBehind>>
mainVars  == <<main, buf, line, found, loopVars, pidVars, mapVars, lookVars,
               writeVars, dropped>>
vars == <<nodeVars, mainVars, timerVars>>

Over == main \in {"ended", "dead"}

Init ==
  /\ stap = "running" /\ pipe = << >> /\ printed = 0 /\ due = TRUE
  /\ owner \in [Pids -> Jobs \cup {NULL}] /\ mounted \in SUBSET NfsDevs
  /\ mountedFor = [d \in Devs |-> IF d \in mounted THEN MaxAge ELSE 0] /\ setBack = FALSE /\ changes = 0
  /\ main = "top" /\ buf = << >> /\ line = NULL /\ found = NULL
  /\ failureCount = 0 /\ sinceCheck = 0 /\ elapsedTime = 0
  /\ pidJob = [p \in Pids |-> Gone] /\ pidAge = [p \in Pids |-> 0]
  /\ deviceMap = mounted /\ nonNFSAge = [d \in Devs |-> NULL]
  /\ outputQueue = {} /\ toWrite = {} /\ clearAfter = FALSE
  /\ lookMap = {} /\ lookFor = 0
  /\ timer = "waiting" /\ timerMap = {} /\ timerBehind = 0 /\ behind = 0
  /\ written = [n \in Ids |-> 0] /\ dropped = {}
-----------------------------------------------------------------------------
(***************************************************************************)
(* monitorSystemTapOutput().                                               *)
(***************************************************************************)
\* The lines nobody will read any more.
Unread == {l.id : l \in Range(pipe \o buf) \ {Separator}}

\* max_systemtap_restarts < 0 stands for no limit.
MayRestart == MaxRestarts < 0 \/ MaxRestarts > failureCount + 1

\* The exit code is that of a failure: SystemTap is started again, its old
\* output forgotten, or the agent gives up.
Restart ==
  /\ main = "top" /\ stap = "failed" /\ MayRestart
  /\ failureCount' = failureCount + 1
  /\ \/ /\ stap' = "running" /\ pipe' = << >> /\ buf' = << >> /\ main' = "sleep"
        /\ dropped' = dropped \cup Unread
     \/ main' = "ended" /\ UNCHANGED <<stap, pipe, buf, dropped>>
  /\ UNCHANGED <<printed, due, owner, mounted, mountedFor, setBack, changes, line, found,
                 sinceCheck, elapsedTime, pidVars, mapVars, lookVars, writeVars, timerVars>>

GiveUp ==
  /\ main = "top" /\ stap = "failed" /\ ~MayRestart
  /\ failureCount' = failureCount + 1 /\ main' = "ended"
  /\ UNCHANGED <<nodeVars, buf, line, found, sinceCheck, elapsedTime, pidVars, mapVars,
                 lookVars, writeVars, dropped, timerVars>>

CheckAlive ==
  /\ main = "top" /\ stap # "failed"
  /\ main' = "poll"
  /\ UNCHANGED <<nodeVars, buf, line, found, loopVars, pidVars, mapVars, lookVars,
                 writeVars, dropped, timerVars>>

\* poll() looks at the pipe, not at the buffer of the file object; the end of
\* the file counts as output.
MistakenHasOutput == buf = << >> /\ (pipe # << >> \/ stap # "running")
HasOutput == pipe # << >> \/ stap # "running"

\* readline(): from the buffer or, when that is empty, from the pipe, which
\* fills the buffer with more than one line.
Take(l, rest, unread) ==
  /\ buf' = rest /\ pipe' = unread
  /\ IF l = Separator THEN main' = "top" /\ UNCHANGED line
                      ELSE main' = "device" /\ line' = l

ReadLine ==
  /\ main = "poll" /\ HasOutput
  /\ \/ buf # << >> /\ Take(Head(buf), Tail(buf), pipe)
     \/ /\ buf = << >> /\ pipe # << >>
        /\ \E n \in 1 .. Len(pipe) :
             Take(pipe[1], SubSeq(pipe, 2, n), SubSeq(pipe, n + 1, Len(pipe)))
  /\ UNCHANGED <<stap, printed, due, owner, mounted, mountedFor, setBack, changes, found,
                 loopVars, pidVars, mapVars, lookVars, writeVars, dropped, timerVars>>

\* At the end of the file the empty line is taken for output, in which no
\* operation is found: an AttributeError ends the main thread.
ReadEnd ==
  /\ main = "poll" /\ stap # "running" /\ pipe = << >> /\ buf = << >>
  /\ main' = "dead"
  /\ UNCHANGED <<nodeVars, buf, line, found, loopVars, pidVars, mapVars, lookVars,
                 writeVars, dropped, timerVars>>

\* No output: the queue is written when it is time, or when the clock was set
\* back.
Cap(n, max) == IF n > max THEN max ELSE n
MistakenElapsed == Cap(sinceCheck, WriteInterval + 1)
Elapsed == Cap(elapsedTime + sinceCheck, WriteInterval + 1)

QueuedJobs == {t.found : t \in outputQueue}

MistakenStartWrite(clear) == main' = "write" /\ toWrite' = QueuedJobs /\ clearAfter' = FALSE
StartWrite(clear) == main' = "write" /\ toWrite' = QueuedJobs /\ clearAfter' = clear

NoOutput ==
  /\ main = "poll" /\ ~HasOutput
  /\ sinceCheck' = 0
  /\ IF sinceCheck < 0
       THEN StartWrite(FALSE) /\ UNCHANGED elapsedTime
     ELSE IF Elapsed > WriteInterval
       THEN StartWrite(TRUE) /\ elapsedTime' = 0
     ELSE main' = "sleep" /\ elapsedTime' = Elapsed /\ UNCHANGED <<toWrite, clearAfter>>
  /\ UNCHANGED <<nodeVars, buf, line, found, failureCount, pidVars, mapVars, lookVars,
                 outputQueue, written, dropped, timerVars>>

\* writeJobStatistics(): one file after the other.
WriteJob ==
  /\ main = "write"
  /\ \E j \in toWrite :
       /\ written' = [n \in Ids |->
            IF \E t \in outputQueue : t.id = n /\ t.found = j THEN written[n] + 1 ELSE written[n]]
       /\ toWrite' = toWrite \ {j}
  /\ UNCHANGED <<nodeVars, main, buf, line, found, loopVars, pidVars, mapVars, lookVars,
                 outputQueue, clearAfter, dropped, timerVars>>

\* ... unless one cannot be written: the IOError ends the main thread.
WriteFails ==
  /\ main = "write" /\ toWrite # {} /\ "write" \in Faults
  /\ main' = "dead"
  /\ UNCHANGED <<nodeVars, buf, line, found, loopVars, pidVars, mapVars, lookVars,
                 writeVars, dropped, timerVars>>

WriteDone ==
  /\ main = "write" /\ toWrite = {}
  /\ main' = "sleep" /\ outputQueue' = (IF clearAfter THEN {} ELSE outputQueue)
  /\ clearAfter' = FALSE
  /\ UNCHANGED <<nodeVars, buf, line, found, loopVars, pidVars, mapVars, lookVars,
                 toWrite, written, dropped, timerVars>>
-----------------------------------------------------------------------------
(***************************************************************************)
(* processSystemTapOutput().                                               *)
(***************************************************************************)
Drop == main' = "top" /\ line' = NULL /\ dropped' = dropped \cup {line.id}

KnownDevice ==
  /\ main = "device" /\ line.dev \in deviceMap
  /\ main' = "pid"
  /\ UNCHANGED <<nodeVars, buf, line, found, loopVars, pidVars, mapVars, lookVars,
                 writeVars, dropped, timerVars>>

MistakenRecent(d) == nonNFSAge[d] # NULL
Recent(d) == nonNFSAge[d] # NULL /\ nonNFSAge[d] < DeviceExpiry

\* The device was no NFS device a short time ago.
SkipDevice ==
  /\ main = "device" /\ line.dev \notin deviceMap /\ Recent(line.dev)
  /\ Drop
  /\ UNCHANGED <<nodeVars, buf, found, loopVars, pidVars, mapVars, lookVars,
                 writeVars, timerVars>>

\* getDeviceNumberToDeviceMap(): what mount lists; mountpoint takes its time to
\* tell the device numbers.
ReadMounts == mounted

\* Or the mounts are read anew; should a command fail, the agent exits.
RefreshDevices ==
  /\ main = "device" /\ line.dev \notin deviceMap /\ ~Recent(line.dev)
  /\ \/ main' = "reading" /\ lookMap' = ReadMounts /\ lookFor' = 0
     \/ "mount" \in Faults /\ main' = "ended" /\ UNCHANGED <<lookMap, lookFor>>
  /\ UNCHANGED <<nodeVars, buf, line, found, loopVars, pidVars, mapVars, nonNFSAge,
                 writeVars, dropped, timerVars>>

StoreDevices ==
  /\ main = "reading"
  /\ main' = "refreshed" /\ deviceMap' = lookMap /\ lookMap' = {} /\ behind' = 0
  /\ UNCHANGED <<nodeVars, buf, line, found, loopVars, pidVars, nonNFSAge, lookFor,
                 writeVars, dropped, timerVars>>

\* The age of a new entry of nonNFSDeviceMap: it gets the time the line was
\* looked at, from before the mounts were read.
MistakenEntryAge == 0
EntryAge == Cap(lookFor, DeviceExpiry)

\* The map is looked at again, in which the Timer thread may have put another.
Refreshed ==
  /\ main = "refreshed" /\ lookFor' = 0
  /\ IF line.dev \in deviceMap
       THEN main' = "pid" /\ UNCHANGED <<line, dropped, nonNFSAge>>
       ELSE Drop /\ nonNFSAge' = [nonNFSAge EXCEPT ![line.dev] = EntryAge]
  /\ UNCHANGED <<nodeVars, buf, found, loopVars, pidVars, mapVars, lookMap, writeVars,
                 timerVars>>

MistakenCached(p) == pidJob[p] # Gone
Cached(p) == pidJob[p] # Gone /\ pidAge[p] \in 0 .. PidExpiry

\* findLSFJobNumberForPID(): None when there is no such process any more.
JobNumberOf(p) == IF owner[p] = Gone THEN NULL ELSE owner[p]

FindJob ==
  /\ main = "pid"
  /\ LET p == line.pid
         job == IF Cached(p) THEN pidJob[p] ELSE JobNumberOf(p)
     IN /\ pidJob' = [pidJob EXCEPT ![p] = job]
        /\ pidAge' = [pidAge EXCEPT ![p] = 0]
        /\ IF job = NULL THEN Drop /\ UNCHANGED found
                         ELSE main' = "count" /\ found' = job /\ UNCHANGED <<line, dropped>>
  /\ UNCHANGED <<nodeVars, buf, loopVars, mapVars, lookVars, writeVars, timerVars>>

\* The device map may have changed since it was tested: a KeyError ends the
\* main thread.
Count ==
  /\ main = "count"
  /\ found' = NULL /\ line' = NULL
  /\ IF line.dev \in deviceMap
       THEN /\ outputQueue' = outputQueue \cup {[id |-> line.id, job |-> line.job, found |-> found]}
            /\ main' = "top" /\ UNCHANGED dropped
       ELSE main' = "dead" /\ dropped' = dropped \cup {line.id} /\ UNCHANGED outputQueue
  /\ UNCHANGED <<nodeVars, buf, loopVars, pidVars, mapVars, lookVars, toWrite,
                 clearAfter, written, timerVars>>

Main ==
  \/ Restart \/ GiveUp \/ CheckAlive
  \/ ReadLine \/ ReadEnd \/ NoOutput
  \/ WriteJob \/ WriteFails \/ WriteDone
  \/ KnownDevice \/ SkipDevice \/ RefreshDevices \/ StoreDevices \/ Refreshed \/ FindJob \/ Count
-----------------------------------------------------------------------------
(***************************************************************************)
(* updateDeviceNumberToDeviceMap(), in a Timer thread: it goes on after    *)
(* the main thread is over, and ends for good when a command fails.        *)
(***************************************************************************)
TimerReads ==
  /\ timer = "waiting"
  /\ \/ timer' = "reading" /\ timerMap' = ReadMounts
     \/ "mount" \in Faults /\ timer' = "ended" /\ UNCHANGED timerMap
  /\ UNCHANGED <<nodeVars, mainVars, timerBehind>>

TimerStores ==
  /\ timer = "reading"
  /\ timer' = "waiting" /\ timerMap' = {} /\ deviceMap' = timerMap
  /\ behind' = (IF mounted \subseteq timerMap THEN 0 ELSE timerBehind) /\ timerBehind' = 0
  /\ UNCHANGED <<nodeVars, main, buf, line, found, loopVars, pidVars, lookVars,
                 writeVars, dropped>>

Timer == TimerReads \/ TimerStores
-----------------------------------------------------------------------------
(***************************************************************************)
(* The node.                                                               *)
(***************************************************************************)
\* netapp_nfsmon.stp: a separator, then a line per process and device.
Output ==
  /\ stap = "running" /\ due /\ due' = FALSE
  /\ Len(pipe) < PipeSize
  /\ \/ pipe' = Append(pipe, Separator) /\ UNCHANGED printed
     \/ \E p \in Pids, d \in Devs :
          /\ printed < MaxLines /\ owner[p] # Gone /\ (d \in NfsDevs => d \in mounted)
          /\ printed' = printed + 1
          /\ pipe' = pipe \o <<Separator,
               [id |-> printed + 1, pid |-> p, dev |-> d, job |-> owner[p]]>>
  /\ UNCHANGED <<stap, owner, mounted, mountedFor, setBack, changes, mainVars, timerVars>>

Die ==
  /\ "die" \in Faults /\ stap = "running"
  /\ stap' \in {"failed", "finished"}
  /\ UNCHANGED <<pipe, printed, due, owner, mounted, mountedFor, setBack, mainVars, timerVars>>

Exit(p) ==
  /\ owner[p] # Gone
  /\ owner' = [owner EXCEPT ![p] = Gone]
  /\ UNCHANGED <<stap, pipe, printed, due, mounted, mountedFor, setBack, mainVars, timerVars>>

\* "There should be a significant amount of time that passes after the process
\* has finished before the PID is used again."
Pending == Range(pipe \o buf \o <<line>>) \ {Separator, NULL}
Rested(p) == /\ \A l \in Pending : l.pid # p
             /\ pidJob[p] = Gone \/ pidAge[p] > PidExpiry

Start(p) ==
  /\ owner[p] = Gone /\ Rested(p)
  /\ \E j \in Jobs \cup {NULL} : owner' = [owner EXCEPT ![p] = j]
  /\ UNCHANGED <<stap, pipe, printed, due, mounted, mountedFor, setBack, mainVars, timerVars>>

Mount(d) ==
  /\ d \in NfsDevs
  /\ mounted' = (IF d \in mounted THEN mounted \ {d} ELSE mounted \cup {d})
  /\ mountedFor' = [mountedFor EXCEPT ![d] = 0]
  /\ UNCHANGED <<stap, pipe, printed, due, owner, setBack, mainVars, timerVars>>

\* A tick passes, and with it the main thread's nap; or the main thread waits
\* for mount, mountpoint or ps.
Tick ==
  /\ main \in {"sleep", "reading", "count"}
  /\ main' = (IF main = "sleep" THEN "top" ELSE main)
  /\ due' = TRUE
  /\ sinceCheck' = Cap(sinceCheck + 1, WriteInterval + 1)
  /\ pidAge' = [p \in Pids |-> IF pidJob[p] = Gone THEN 0 ELSE Cap(pidAge[p] + 1, PidExpiry + 1)]
  /\ nonNFSAge' = [d \in Devs |-> IF nonNFSAge[d] = NULL THEN NULL
                                  ELSE Cap(nonNFSAge[d] + 1, DeviceExpiry)]
  /\ mountedFor' = [d \in Devs |-> IF d \in mounted THEN Cap(mountedFor[d] + 1, MaxAge) ELSE 0]
  /\ lookFor' = (IF main = "reading" THEN Cap(lookFor + 1, MaxAge) ELSE lookFor)
  /\ timerBehind' = (IF timer = "reading" /\ ~(mounted \subseteq timerMap)
                     THEN Cap(timerBehind + 1, MaxBehind) ELSE timerBehind)
  /\ UNCHANGED <<stap, pipe, printed, owner, mounted, setBack, changes, buf, line, found,
                 failureCount, elapsedTime, pidJob, mapVars, lookMap, writeVars, dropped,
                 timer, timerMap>>

\* The clock is set back by two ticks.
SetBack ==
  /\ "setback" \in Faults /\ ~setBack
  /\ setBack' = TRUE
  /\ LET n == 2 IN
       /\ sinceCheck' = sinceCheck - n
       /\ pidAge' = [p \in Pids |-> IF pidJob[p] = Gone THEN 0 ELSE pidAge[p] - n]
       /\ nonNFSAge' = [d \in Devs |-> IF nonNFSAge[d] = NULL THEN NULL ELSE nonNFSAge[d] - n]
       /\ lookFor' = (IF main \in {"reading", "refreshed"} THEN lookFor - n ELSE lookFor)
  /\ UNCHANGED <<stap, pipe, printed, due, owner, mounted, mountedFor, main, buf, line, found,
                 failureCount, elapsedTime, pidJob, mapVars, lookMap, writeVars, dropped, timerVars>>

Change ==
  /\ changes < MaxChanges /\ changes' = changes + 1
  /\ \/ Die \/ SetBack
     \/ \E p \in Pids : Exit(p) \/ Start(p)
     \/ \E d \in Devs : Mount(d)

\* What happens once the main thread is over is of no interest.
Node == Tick \/ (~Over /\ (Output \/ Change))

Next == Main \/ Timer \/ Node
Spec == Init /\ [][Next]_vars

\* The main thread runs, its commands return, time passes, and SystemTap prints
\* while it lives.  Nothing is assumed of the Timer thread.
FairSpec == Spec /\ WF_vars(Main) /\ WF_vars(Tick) /\ WF_vars(Output)
=============================================================================
