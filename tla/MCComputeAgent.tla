--------------------------- MODULE MCComputeAgent ---------------------------
(***************************************************************************)
(* ComputeAgent on a node with one pid, used by one process after the      *)
(* other, and one device, as which an NFS volume is mounted or not.        *)
(***************************************************************************)
EXTENDS ComputeAgent
-----------------------------------------------------------------------------
Queued  == {t.id : t \in outputQueue}
Counted == {n \in Ids : written[n] > 0}
Waiting == {l.id : l \in Pending}

AgentTypeOK ==
  /\ stap \in {"running", "failed", "finished"} /\ due \in BOOLEAN /\ setBack \in BOOLEAN
  /\ pipe \in Seq(Line \cup {Separator}) /\ buf \in Seq(Line \cup {Separator})
  /\ printed \in 0 .. MaxLines
  /\ owner \in [Pids -> Jobs \cup {NULL, Gone}]
  /\ mounted \subseteq NfsDevs /\ mountedFor \in [Devs -> 0 .. MaxAge]
  /\ main \in {"top", "poll", "device", "reading", "refreshed", "pid", "count", "write", "sleep",
              "ended", "dead"}
  /\ line \in Line \cup {NULL} /\ found \in Jobs \cup {NULL}
  /\ sinceCheck \in Int /\ elapsedTime \in Int
  /\ pidJob \in [Pids -> Jobs \cup {NULL, Gone}] /\ pidAge \in [Pids -> Int]
  /\ nonNFSAge \in [Devs -> Int \cup {NULL}] /\ lookFor \in Int
  /\ outputQueue \subseteq [id : Ids, job : Jobs \cup {NULL}, found : Jobs]
  /\ toWrite \subseteq Jobs /\ clearAfter \in BOOLEAN
  /\ timer \in {"waiting", "reading", "ended"}
  /\ timerBehind \in 0 .. MaxBehind /\ behind \in 0 .. MaxBehind
  /\ written \in [Ids -> Nat] /\ dropped \subseteq Ids

\* No line SystemTap printed is forgotten or kept in two places: it waits to be
\* read or processed, is queued or in a report file, or was dropped for a
\* reason; and no line goes to a report file twice, whatever the two threads,
\* the restarts of SystemTap and writes that fail half way do, unless the clock
\* was set back: then the queue is written and kept.
Accounted ==
  /\ AgentTypeOK
  /\ 1 .. printed = Waiting \cup Queued \cup Counted \cup dropped
  /\ Waiting \cap (Queued \cup Counted \cup dropped) = {}
  /\ dropped \cap (Queued \cup Counted) = {}
  /\ ~setBack => /\ \A n \in Ids : written[n] <= 1
                 /\ main \notin {"write", "dead"} => Queued \cap Counted = {}

\* Operations are counted for the job of the process that performed them: the
\* job numbers cached by pid, and renewed by every line of the pid, are those
\* of its present process as long as pids rest before they are used again and
\* the clock is not set back.
AttributedRight ==
  ~setBack => \A t \in outputQueue : t.found = t.job

\* A line of a mounted volume is dropped only while the volume has been mounted
\* for less than DeviceExpiry, the time its device is known as no NFS device, or,
\* when it makes the main thread read the mounts, no longer than that takes.  The
\* Timer thread, whose reading may take any time, may put an old map over a newer
\* one: then the time that one had been out of date comes on top (nothing is said
\* when that is more than MaxBehind counts).
MountsNoticed ==
  [][main' = "top" /\ main \in {"device", "refreshed"} /\ line.dev \in mounted
       => \/ main = "device" /\ mountedFor[line.dev] < DeviceExpiry + behind
          \/ main = "refreshed" /\ mountedFor[line.dev] <= lookFor + behind
          \/ behind = MaxBehind \/ setBack]_vars

\* What is queued is written to the report file, at the latest when SystemTap
\* is silent after the interval, as long as the main thread lives.
QueuedIsWritten == \A n \in Ids : n \in Queued ~> n \in Counted \/ Over

\* Every line is processed as long as SystemTap and the main thread live:
\* lines that wait in the buffer of the file object, which poll() does not
\* see, come out with the next that SystemTap prints.
LinesAreRead ==
  \A n \in Ids : n \in Waiting ~> n \notin Waiting \/ Over \/ stap # "running"
-----------------------------------------------------------------------------
(***************************************************************************)
(* Why Accounted, AttributedRight and MountsNoticed hold.                  *)
(***************************************************************************)
\* What readline() will return, in this order.
Ahead == buf \o pipe

\* It and the line in work are different lines.
LinesApart ==
  /\ \A m, n \in DOMAIN Ahead :
       m # n /\ Ahead[m] # Separator /\ Ahead[n] # Separator => Ahead[m].id # Ahead[n].id
  /\ line # NULL => \A n \in DOMAIN Ahead : Ahead[n] # Separator => Ahead[n].id # line.id

AtWork ==
  /\ main \in {"device", "reading", "refreshed", "pid", "count"} => line # NULL
  /\ main \in {"top", "poll", "sleep", "write"} => line = NULL
  /\ main = "count" => found # NULL

\* While the queue is written, the jobs that were served tell what is counted.
QueueInv ==
  /\ \A t, u \in outputQueue : t.id = u.id => t = u
  /\ main = "write" => \A t \in outputQueue : t.found \in toWrite \/ written[t.id] > 0
  /\ ~setBack =>
       /\ sinceCheck >= 0
       /\ main = "write" =>
            clearAfter /\ \A t \in outputQueue : t.found \in toWrite => written[t.id] = 0

\* What is cached of a pid is true of its process and of the lines on the way.
InCache(p) == pidJob[p] \in Jobs /\ pidAge[p] <= PidExpiry
PidInv ==
  ~setBack =>
    /\ \A p \in Pids : pidAge[p] >= 0 /\ (InCache(p) => owner[p] \in {Gone, pidJob[p]})
    /\ \A l \in Pending : /\ owner[l.pid] \in {Gone, l.job}
                          /\ InCache(l.pid) => pidJob[l.pid] = l.job
    /\ main = "count" => found = line.job

\* A volume a map being read lacks was mounted since it was read.  One that the
\* map in use lacks was mounted after the device was last taken for no NFS device,
\* give or take the time by which the Timer thread stored the map too late; and
\* that was before the line in work was looked at.
MountInv ==
  /\ timer = "reading" /\ timerBehind < MaxBehind =>
       \A d \in mounted \ timerMap : mountedFor[d] <= timerBehind
  /\ ~setBack =>
       /\ lookFor >= 0
       /\ main = "reading" => \A d \in mounted \ lookMap : mountedFor[d] <= lookFor
       /\ main = "refreshed" /\ behind < MaxBehind =>
            \A d \in mounted \ deviceMap : mountedFor[d] <= lookFor + behind
       /\ \A d \in Devs :
            /\ nonNFSAge[d] # NULL => nonNFSAge[d] >= 0
            /\ Recent(d) =>
                 /\ d \in mounted \ deviceMap /\ behind < MaxBehind =>
                      mountedFor[d] <= nonNFSAge[d] + behind
                 /\ main \in {"reading", "refreshed"} => lookFor <= nonNFSAge[d]

AgentInv ==
  Accounted /\ AttributedRight /\ LinesApart /\ AtWork /\ QueueInv /\ PidInv /\ MountInv
=============================================================================
