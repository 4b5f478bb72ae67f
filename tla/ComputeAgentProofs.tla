------------------------ MODULE ComputeAgentProofs ------------------------
(***************************************************************************)
(* AgentInv is an inductive invariant of ComputeAgent: lines are accounted *)
(* for, operations go to the job that performed them, and mounts are       *)
(* noticed, for any pids, jobs, devices, intervals, limits and faults.     *)
(***************************************************************************)
EXTENDS MCComputeAgent, SequenceTheorems, TLAPS
-----------------------------------------------------------------------------
LEMMA TypeInitially ==
  ASSUME Init
  PROVE  AgentTypeOK
<1>1. /\ pipe \in Seq(Line \cup {Separator}) /\ buf \in Seq(Line \cup {Separator})
      /\ printed \in 0 .. MaxLines
  BY AgentAssumption DEF Init
<1>2. /\ owner \in [Pids -> Jobs \cup {NULL, Gone}]
      /\ mounted \subseteq NfsDevs /\ mountedFor \in [Devs -> 0 .. MaxAge]
      /\ pidJob \in [Pids -> Jobs \cup {NULL, Gone}] /\ pidAge \in [Pids -> Int]
      /\ nonNFSAge \in [Devs -> Int \cup {NULL}]
  BY AgentAssumption DEF Init
<1>3. /\ outputQueue \subseteq [id : Ids, job : Jobs \cup {NULL}, found : Jobs]
      /\ toWrite \subseteq Jobs /\ written \in [Ids -> Nat] /\ dropped \subseteq Ids
  BY DEF Init
<1>4. /\ stap = "running" /\ main = "top" /\ line = NULL /\ found = NULL
      /\ sinceCheck = 0 /\ elapsedTime = 0 /\ timer = "waiting"
      /\ lookFor = 0 /\ timerBehind = 0 /\ behind = 0
  BY DEF Init
<1>5. due \in BOOLEAN /\ setBack \in BOOLEAN /\ clearAfter \in BOOLEAN
  BY Zenon DEF Init
<1> QED BY <1>1, <1>2, <1>3, <1>4, <1>5, AgentAssumption DEF AgentTypeOK

\* A line that is taken from the output is one of it.
LEMMA TakenTyped ==
  ASSUME AgentTypeOK, ReadLine
  PROVE  /\ pipe' \in Seq(Line \cup {Separator}) /\ buf' \in Seq(Line \cup {Separator})
         /\ line' \in Line \cup {NULL} /\ main' \in {"top", "device"}
         /\ Ahead # << >> /\ Ahead' = Tail(Ahead)
         /\ Head(Ahead) = Separator => main' = "top" /\ line' = line
         /\ Head(Ahead) # Separator => main' = "device" /\ line' = Head(Ahead)
<1> DEFINE S == Line \cup {Separator}
<1>1. pipe \in Seq(S) /\ buf \in Seq(S) /\ line \in Line \cup {NULL}
  BY DEF AgentTypeOK
<1>2. CASE buf # << >> /\ Take(Head(buf), Tail(buf), pipe)
  <2> HIDE DEF S
  <2>1. buf' = Tail(buf) /\ pipe' = pipe /\ buf' \in Seq(S) /\ Head(buf) \in S
    BY <1>1, <1>2 DEF Take
  <2>2. Ahead # << >> /\ Head(Ahead) = Head(buf) /\ Ahead' = Tail(Ahead)
    BY <1>1, <1>2, <2>1 DEF Ahead
  <2> QED BY <1>1, <1>2, <2>1, <2>2 DEF Take, S
<1>3. ASSUME buf = << >>, pipe # << >>, NEW n \in 1 .. Len(pipe),
             Take(pipe[1], SubSeq(pipe, 2, n), SubSeq(pipe, n + 1, Len(pipe)))
      PROVE  /\ pipe' \in Seq(S) /\ buf' \in Seq(S)
             /\ line' \in Line \cup {NULL} /\ main' \in {"top", "device"}
             /\ Ahead # << >> /\ Ahead' = Tail(Ahead)
             /\ Head(Ahead) = Separator => main' = "top" /\ line' = line
             /\ Head(Ahead) # Separator => main' = "device" /\ line' = Head(Ahead)
  <2> HIDE DEF S
  <2>1. buf' = SubSeq(pipe, 2, n) /\ pipe' = SubSeq(pipe, n + 1, Len(pipe)) /\ pipe[1] \in S
    BY <1>1, <1>3 DEF Take
  <2>2. buf' \in Seq(S) /\ pipe' \in Seq(S)
    BY <1>1, <2>1
  <2>3. Ahead = pipe /\ Head(Ahead) = pipe[1] /\ Ahead # << >>
    BY <1>1, <1>3 DEF Ahead
  <2>4. buf' \o pipe' = Tail(pipe)
    <3>1. 2 \in 1 .. Len(pipe) + 1 /\ n \in 2 - 1 .. Len(pipe) /\ Len(pipe) \in n .. Len(pipe)
      BY <1>1, <1>3
    <3>2. SubSeq(pipe, 2, n) \o SubSeq(pipe, n + 1, Len(pipe)) = SubSeq(pipe, 2, Len(pipe))
      BY <1>1, <3>1, ConcatAdjacentSubSeq
    <3> QED BY <1>1, <1>3, <2>1, <3>2, TailIsSubSeq
  <2> QED BY <1>1, <1>3, <2>1, <2>2, <2>3, <2>4 DEF Take, Ahead, S
<1> QED BY <1>2, <1>3 DEF ReadLine

\* The line in work.
LEMMA LineTyped ==
  ASSUME AgentTypeOK, AtWork, main \in {"device", "reading", "refreshed", "pid", "count"}
  PROVE  /\ line \in Line /\ line # NULL /\ line # Separator
         /\ line.id \in Ids /\ line.pid \in Pids /\ line.dev \in Devs /\ line.job \in Jobs \cup {NULL}
<1>1. line \in Line /\ line # NULL
  BY DEF AgentTypeOK, AtWork
<1> QED BY <1>1, AgentAssumption DEF Line

\* What is on the way to the main thread, wherever it is.
LEMMA RangeOf ==
  ASSUME NEW S, NEW p \in Seq(S), NEW b \in Seq(S), NEW l
  PROVE  /\ b \o p \in Seq(S) /\ DOMAIN (b \o p) = 1 .. Len(b \o p)
         /\ Range(p \o b \o <<l>>) = {(b \o p)[n] : n \in DOMAIN (b \o p)} \cup {l}
         /\ Range(p \o b) = {(b \o p)[n] : n \in DOMAIN (b \o p)}
<1> DEFINE T == S \cup {l}
<1>1. p \in Seq(T) /\ b \in Seq(T) /\ <<l>> \in Seq(T) /\ p \o b \in Seq(T) /\ b \o p \in Seq(T)
  <2>1. p \in Seq(T) /\ b \in Seq(T)
    BY SeqMonotonic
  <2>2. l \in T
    OBVIOUS
  <2> HIDE DEF T
  <2> QED BY <2>1, <2>2
<1>2. Range(<<l>>) = {l}
  BY DEF Range
<1>3. Range(p \o b) = Range(p) \cup Range(b) /\ Range(b \o p) = Range(b) \cup Range(p)
  BY RangeConcatenation
<1>4. Range(p \o b \o <<l>>) = Range(p \o b) \cup Range(<<l>>)
  <2> HIDE DEF T
  <2> QED BY <1>1, RangeConcatenation
<1>5. Range(b \o p) = {(b \o p)[n] : n \in DOMAIN (b \o p)}
  BY DEF Range
<1>6. b \o p \in Seq(S) /\ DOMAIN (b \o p) = 1 .. Len(b \o p)
  OBVIOUS
<1> QED BY <1>2, <1>3, <1>4, <1>5, <1>6

Lines(s) == {s[n] : n \in DOMAIN s} \ {Separator}

LEMMA OnTheWay ==
  ASSUME AgentTypeOK
  PROVE  /\ Ahead \in Seq(Line \cup {Separator}) /\ DOMAIN Ahead = 1 .. Len(Ahead)
         /\ Pending = Lines(Ahead) \cup ({line} \ {NULL})
         /\ Unread = {l.id : l \in Lines(Ahead)}
         /\ Lines(Ahead) \subseteq Line /\ Pending \subseteq Line
<1> DEFINE S == Line \cup {Separator}
<1>1. pipe \in Seq(S) /\ buf \in Seq(S) /\ line \in Line \cup {NULL}
  BY DEF AgentTypeOK
<1>2. /\ Ahead \in Seq(S) /\ DOMAIN Ahead = 1 .. Len(Ahead)
      /\ Range(pipe \o buf \o <<line>>) = {Ahead[n] : n \in DOMAIN Ahead} \cup {line}
      /\ Range(pipe \o buf) = {Ahead[n] : n \in DOMAIN Ahead}
  <2> HIDE DEF S
  <2> QED BY <1>1, RangeOf DEF Ahead
<1>3. Lines(Ahead) \subseteq Line
  BY <1>2 DEF Lines
<1>4. Unread = {l.id : l \in Lines(Ahead)}
  BY <1>2 DEF Unread, Lines
<1>5. Pending = Lines(Ahead) \cup ({line} \ {NULL})
  BY <1>1, <1>2, <1>3, AgentAssumption DEF Pending, Lines
<1> QED BY <1>1, <1>2, <1>3, <1>4, <1>5

PendingIs == Pending = Lines(Ahead) \cup ({line} \ {NULL})
LEMMA PendingWhere == AgentTypeOK => PendingIs
  BY OnTheWay DEF PendingIs

LEMMA TypeStep ==
  ASSUME AgentTypeOK, AtWork, [Next]_vars
  PROVE  AgentTypeOK'
<1> USE AgentAssumption DEF nodeVars, mainVars, loopVars, pidVars, mapVars, lookVars, writeVars, timerVars
<1>0. CASE ReadLine
  BY <1>0, TakenTyped DEF ReadLine, AgentTypeOK
<1>1. CASE Restart
  <2>1. Unread \subseteq Ids
    BY OnTheWay DEF Line
  <2>2. /\ stap' \in {"running", "failed", "finished"} /\ main' \in {"sleep", "ended"}
        /\ pipe' \in Seq(Line \cup {Separator}) /\ buf' \in Seq(Line \cup {Separator}) /\ dropped' \subseteq Ids
    <3>1. CASE main' = "ended" /\ UNCHANGED <<stap, pipe, buf, dropped>>
      BY <3>1 DEF AgentTypeOK
    <3>2. CASE /\ stap' = "running" /\ pipe' = << >> /\ buf' = << >> /\ main' = "sleep"
               /\ dropped' = dropped \cup Unread
      BY <2>1, <3>2 DEF AgentTypeOK
    <3> QED BY <1>1, <3>1, <3>2 DEF Restart
  <2> QED BY <1>1, <2>2 DEF Restart, AgentTypeOK
<1>2. CASE GiveUp
  BY <1>2 DEF GiveUp, AgentTypeOK
<1>3. CASE CheckAlive
  BY <1>3 DEF CheckAlive, AgentTypeOK
<1>4. CASE ReadEnd
  BY <1>4 DEF ReadEnd, AgentTypeOK
<1>5. CASE NoOutput
  <2>1. QueuedJobs \subseteq Jobs
    BY DEF AgentTypeOK, QueuedJobs
  <2>2. Elapsed \in Int
    BY DEF AgentTypeOK, Elapsed, Cap
  <2>3. clearAfter' \in BOOLEAN
    BY <1>5, Zenon DEF NoOutput, StartWrite, AgentTypeOK
  <2> QED BY <1>5, <2>1, <2>2, <2>3 DEF NoOutput, StartWrite, AgentTypeOK
<1>6. CASE WriteJob
  BY <1>6 DEF WriteJob, AgentTypeOK
<1>7. CASE WriteFails
  BY <1>7 DEF WriteFails, AgentTypeOK
<1>8. CASE WriteDone
  BY <1>8 DEF WriteDone, AgentTypeOK
<1>9. CASE KnownDevice
  BY <1>9 DEF KnownDevice, AgentTypeOK
<1>10. CASE SkipDevice
  <2>1. line \in Line /\ line.id \in Ids /\ line.pid \in Pids /\ line.dev \in Devs /\ line.job \in Jobs \cup {NULL}
    BY <1>10, LineTyped DEF SkipDevice
  <2> QED BY <1>10, <2>1 DEF SkipDevice, AgentTypeOK, Drop
<1>11. CASE RefreshDevices
  BY <1>11 DEF RefreshDevices, AgentTypeOK
<1>21. CASE StoreDevices
  BY <1>21 DEF StoreDevices, AgentTypeOK
<1>12. CASE Refreshed
  <2>0. EntryAge \in Int
    BY DEF EntryAge, Cap, AgentTypeOK
  <2>1. line \in Line /\ line.id \in Ids /\ line.pid \in Pids /\ line.dev \in Devs /\ line.job \in Jobs \cup {NULL}
    BY <1>12, LineTyped DEF Refreshed
  <2>2. /\ main' \in {"pid", "top"} /\ line' \in Line \cup {NULL} /\ dropped' \subseteq Ids
        /\ nonNFSAge' \in [Devs -> Int \cup {NULL}]
    <3>1. CASE main' = "pid" /\ UNCHANGED <<line, dropped, nonNFSAge>>
      BY <3>1 DEF AgentTypeOK
    <3>2. CASE Drop /\ nonNFSAge' = [nonNFSAge EXCEPT ![line.dev] = EntryAge]
      BY <2>0, <2>1, <3>2 DEF AgentTypeOK, Drop
    <3> QED BY <1>12, <3>1, <3>2 DEF Refreshed
  <2> QED BY <1>12, <2>2 DEF Refreshed, AgentTypeOK
<1>13. CASE FindJob
  <2>1. line \in Line /\ line.id \in Ids /\ line.pid \in Pids /\ line.dev \in Devs /\ line.job \in Jobs \cup {NULL}
    BY <1>13, LineTyped DEF FindJob
  <2>2. /\ pidJob' \in [Pids -> Jobs \cup {NULL, Gone}] /\ pidAge' \in [Pids -> Int]
        /\ main' \in {"top", "count"} /\ line' \in Line \cup {NULL} /\ dropped' \subseteq Ids
        /\ found' \in Jobs \cup {NULL}
    BY <1>13, <2>1 DEF FindJob, AgentTypeOK, Drop, JobNumberOf, Cached
  <2> QED BY <1>13, <2>2 DEF FindJob, AgentTypeOK
<1>14. CASE Count
  <2>1. line \in Line /\ line.id \in Ids /\ line.pid \in Pids /\ line.dev \in Devs /\ line.job \in Jobs \cup {NULL}
    BY <1>14, LineTyped DEF Count
  <2>2. found \in Jobs
    BY <1>14 DEF Count, AgentTypeOK, AtWork
  <2>3. /\ outputQueue' \subseteq [id : Ids, job : Jobs \cup {NULL}, found : Jobs]
        /\ main' \in {"top", "dead"} /\ dropped' \subseteq Ids
    BY <1>14, <2>1, <2>2 DEF Count, AgentTypeOK
  <2> QED BY <1>14, <2>3 DEF Count, AgentTypeOK
<1>15. CASE TimerReads
  BY <1>15 DEF TimerReads, AgentTypeOK
<1>16. CASE TimerStores
  BY <1>16 DEF TimerStores, AgentTypeOK
<1>17. CASE Output
  <2>1. ASSUME NEW p \in Pids, NEW d \in Devs, owner[p] # Gone, printed < MaxLines
        PROVE  [id |-> printed + 1, pid |-> p, dev |-> d, job |-> owner[p]] \in Line
    BY <2>1 DEF AgentTypeOK, Line, Ids
  <2>2. /\ pipe' \in Seq(Line \cup {Separator}) /\ printed' \in 0 .. MaxLines
    <3>1. CASE pipe' = Append(pipe, Separator) /\ printed' = printed
      BY <3>1 DEF AgentTypeOK
    <3>2. ASSUME NEW p \in Pids, NEW d \in Devs, owner[p] # Gone, printed < MaxLines, printed' = printed + 1,
                 pipe' = pipe \o <<Separator, [id |-> printed + 1, pid |-> p, dev |-> d, job |-> owner[p]]>>
          PROVE  pipe' \in Seq(Line \cup {Separator}) /\ printed' \in 0 .. MaxLines
      <4>1. PICK l \in Line : pipe' = pipe \o <<Separator, l>>
        BY <2>1, <3>2
      <4> QED BY <3>2, <4>1 DEF AgentTypeOK
    <3> QED BY <1>17, <3>1, <3>2 DEF Output
  <2>3. due' \in BOOLEAN
    BY <1>17, Zenon DEF Output
  <2> QED BY <1>17, <2>2, <2>3 DEF Output, AgentTypeOK
<1>18. CASE Tick
  BY <1>18 DEF Tick, AgentTypeOK, Cap
<1>19. CASE Change
  <2>1. CASE Die
    <3>1. stap' \in {"running", "failed", "finished"}
      BY <2>1 DEF Die
    <3> QED BY <2>1, <3>1 DEF Die, AgentTypeOK
  <2>2. CASE SetBack
    <3>1. setBack' \in BOOLEAN
      BY <2>2, Zenon DEF SetBack
    <3>2. pidAge' \in [Pids -> Int] /\ nonNFSAge' \in [Devs -> Int \cup {NULL}] /\ sinceCheck' \in Int /\ lookFor' \in Int
      BY <2>2 DEF SetBack, AgentTypeOK
    <3> QED BY <2>2, <3>1, <3>2 DEF SetBack, AgentTypeOK
  <2>3. ASSUME NEW p \in Pids, Exit(p) \/ Start(p) PROVE AgentTypeOK'
    <3>1. owner' \in [Pids -> Jobs \cup {NULL, Gone}]
      BY <2>3 DEF Exit, Start, AgentTypeOK
    <3> QED BY <2>3, <3>1 DEF Exit, Start, AgentTypeOK
  <2>4. ASSUME NEW d \in Devs, Mount(d) PROVE AgentTypeOK'
    BY <2>4 DEF Mount, AgentTypeOK
  <2> QED BY <1>19, <2>1, <2>2, <2>3, <2>4 DEF Change
<1>20. CASE UNCHANGED vars
  BY <1>20 DEF vars, AgentTypeOK
<1> QED BY <1>0, <1>1, <1>2, <1>3, <1>4, <1>5, <1>6, <1>7, <1>8, <1>9, <1>10, <1>11, <1>12, <1>13, <1>14, <1>15, <1>16, <1>17, <1>18, <1>19, <1>20, <1>21
        DEF Next, Main, Timer, Node
-----------------------------------------------------------------------------
(***************************************************************************)
(* What a step does to the lines on their way.                             *)
(***************************************************************************)
\* Lines that stay where they are.
LEMMA LinesStay ==
  ASSUME AgentTypeOK, LinesApart, UNCHANGED <<pipe, buf, line>>
  PROVE  Pending' = Pending /\ Waiting' = Waiting /\ LinesApart'
<1>1. Ahead' = Ahead /\ Pending' = Pending
  BY DEF Ahead, Pending
<1> QED BY <1>1 DEF Waiting, LinesApart

\* A line that is read was on its way before.
LEMMA LineRead ==
  ASSUME AgentTypeOK, AgentTypeOK', LinesApart, AtWork, ReadLine
  PROVE  Pending' = Pending /\ Waiting' = Waiting /\ LinesApart'
<1> DEFINE S == Line \cup {Separator}
<1>1. /\ Ahead \in Seq(S) /\ Ahead # << >> /\ Ahead' = Tail(Ahead) /\ line = NULL
      /\ Head(Ahead) = Separator => line' = NULL
      /\ Head(Ahead) # Separator => line' = Head(Ahead)
  BY TakenTyped, OnTheWay DEF AtWork, ReadLine
<1> HIDE DEF S
<1>2. /\ DOMAIN Ahead = 1 .. Len(Ahead) /\ DOMAIN Ahead' = 1 .. Len(Ahead) - 1 /\ Len(Ahead) \in Nat \ {0}
      /\ Head(Ahead) = Ahead[1] /\ \A n \in 1 .. Len(Ahead) - 1 : Ahead'[n] = Ahead[n + 1]
  BY <1>1
<1>3. Lines(Ahead) = Lines(Ahead') \cup ({Ahead[1]} \ {Separator})
  <2>1. ASSUME NEW n \in DOMAIN Ahead PROVE Ahead[n] = Ahead[1] \/ \E m \in DOMAIN Ahead' : Ahead[n] = Ahead'[m]
    <3>1. CASE n = 1
      BY <3>1
    <3>2. CASE n # 1
      <4>1. n - 1 \in DOMAIN Ahead' /\ Ahead'[n - 1] = Ahead[n]
        BY <1>2, <3>2
      <4> QED BY <4>1
    <3> QED BY <3>1, <3>2
  <2>2. ASSUME NEW m \in DOMAIN Ahead' PROVE \E n \in DOMAIN Ahead : Ahead[n] = Ahead'[m]
    <3>1. m + 1 \in DOMAIN Ahead /\ Ahead'[m] = Ahead[m + 1]
      BY <1>2
    <3> QED BY <3>1
  <2>3. 1 \in DOMAIN Ahead
    BY <1>2
  <2> QED BY <2>1, <2>2, <2>3 DEF Lines
<1>4. /\ Pending = Lines(Ahead) \cup ({line} \ {NULL}) /\ Lines(Ahead) \subseteq Line
      /\ Pending' = Lines(Ahead') \cup ({line'} \ {NULL})
  <2>1. AgentTypeOK' => PendingIs'
    BY PendingWhere, PTL
  <2> QED BY <2>1, OnTheWay DEF PendingIs, Lines
<1>5. Pending' = Pending
  BY <1>1, <1>2, <1>3, <1>4, AgentAssumption DEF Lines
<1>6. ASSUME NEW m \in DOMAIN Ahead', NEW n \in DOMAIN Ahead', m # n, Ahead'[m] # Separator, Ahead'[n] # Separator
      PROVE  Ahead'[m].id # Ahead'[n].id
  <2>1. m + 1 \in DOMAIN Ahead /\ n + 1 \in DOMAIN Ahead /\ m + 1 # n + 1
        /\ Ahead'[m] = Ahead[m + 1] /\ Ahead'[n] = Ahead[n + 1]
    BY <1>2, <1>6
  <2> QED BY <1>6, <2>1 DEF LinesApart
<1>7. ASSUME line' # NULL, NEW n \in DOMAIN Ahead', Ahead'[n] # Separator PROVE Ahead'[n].id # line'.id
  <2>1. line' = Ahead[1] /\ Ahead[1] # Separator
    BY <1>1, <1>2, <1>7
  <2>2. n + 1 \in DOMAIN Ahead /\ 1 \in DOMAIN Ahead /\ n + 1 # 1 /\ Ahead'[n] = Ahead[n + 1]
    BY <1>2
  <2> QED BY <1>7, <2>1, <2>2 DEF LinesApart
<1>8. LinesApart'
  BY <1>6, <1>7 DEF LinesApart
<1> QED BY <1>5, <1>8 DEF Waiting

\* A line that is counted or dropped leaves.
LEMMA LineLeaves ==
  ASSUME AgentTypeOK, AgentTypeOK', LinesApart, line # NULL, line' = NULL, UNCHANGED <<pipe, buf>>
  PROVE  /\ line \in Pending /\ Pending' = Pending \ {line}
         /\ line.id \in Waiting /\ Waiting' = Waiting \ {line.id}
         /\ LinesApart'
<1>1. Ahead' = Ahead
  BY DEF Ahead
<1>2. Pending = Lines(Ahead) \cup {line} /\ Pending' = Lines(Ahead)
  <2>1. AgentTypeOK' => PendingIs'
    BY PendingWhere, PTL
  <2> QED BY <1>1, <2>1, OnTheWay DEF PendingIs, Lines
<1>3. \A l \in Lines(Ahead) : l.id # line.id
  BY DEF LinesApart, Lines
<1> QED BY <1>1, <1>2, <1>3 DEF LinesApart, Waiting

\* Lines that SystemTap takes along when it ends.
LEMMA LinesLost ==
  ASSUME AgentTypeOK, AgentTypeOK', line = NULL, line' = NULL, pipe' = << >>, buf' = << >>
  PROVE  Pending' = {} /\ Waiting' = {} /\ Unread = Waiting /\ LinesApart'
<1>1. Ahead' = << >>
  BY DEF Ahead
<1>2. Pending' = {} /\ Pending = Lines(Ahead)
  <2>1. AgentTypeOK' => PendingIs'
    BY PendingWhere, PTL
  <2> QED BY <1>1, <2>1, OnTheWay DEF PendingIs, Lines
<1> QED BY <1>1, <1>2, OnTheWay DEF LinesApart, Waiting

\* A line that SystemTap prints comes after the others.
LEMMA LinePrinted ==
  ASSUME AgentTypeOK, AgentTypeOK', LinesApart, UNCHANGED <<buf, line>>,
         NEW new \in Line, pipe' = pipe \o <<Separator, new>>, new.id \notin Waiting
  PROVE  Pending' = Pending \cup {new} /\ Waiting' = Waiting \cup {new.id} /\ LinesApart'
<1> DEFINE S == Line \cup {Separator}
           k == Len(Ahead)
<1>1. /\ Ahead \in Seq(S) /\ Ahead' = Ahead \o <<Separator, new>> /\ new # Separator /\ new \in S
      /\ k \in Nat
  <2>1. pipe \in Seq(S) /\ buf \in Seq(S) /\ <<Separator, new>> \in Seq(S)
    BY DEF AgentTypeOK
  <2>2. Ahead' = Ahead \o <<Separator, new>>
    <3> HIDE DEF S
    <3>1. buf \o (pipe \o <<Separator, new>>) = (buf \o pipe) \o <<Separator, new>>
      BY <2>1, ConcatAssociative
    <3> QED BY <3>1 DEF Ahead
  <2>3. Ahead \in Seq(S)
    BY <2>1 DEF Ahead
  <2> QED BY <2>2, <2>3, AgentAssumption
<1>2. /\ DOMAIN Ahead = 1 .. k /\ DOMAIN Ahead' = 1 .. k + 2
      /\ Ahead'[k + 1] = Separator /\ Ahead'[k + 2] = new
      /\ \A n \in 1 .. k : Ahead'[n] = Ahead[n]
  <2> HIDE DEF S
  <2> QED BY <1>1
<1> HIDE DEF k
<1>3. Lines(Ahead') = Lines(Ahead) \cup {new}
  <2>1. ASSUME NEW n \in DOMAIN Ahead', Ahead'[n] # Separator PROVE Ahead'[n] \in Lines(Ahead) \cup {new}
    <3>1. n \in 1 .. k \/ n = k + 2
      BY <1>1, <1>2, <2>1
    <3> QED BY <1>2, <2>1, <3>1 DEF Lines
  <2>2. ASSUME NEW n \in DOMAIN Ahead PROVE \E m \in DOMAIN Ahead' : Ahead'[m] = Ahead[n]
    <3>1. n \in DOMAIN Ahead' /\ Ahead'[n] = Ahead[n]
      BY <1>1, <1>2
    <3> QED BY <3>1
  <2>3. k + 2 \in DOMAIN Ahead'
    BY <1>1, <1>2
  <2>4. Lines(Ahead') \subseteq Lines(Ahead) \cup {new}
    BY <2>1 DEF Lines
  <2>5. Lines(Ahead) \subseteq Lines(Ahead')
    BY <2>2 DEF Lines
  <2>6. new \in Lines(Ahead')
    BY <1>1, <1>2, <2>3 DEF Lines
  <2> QED BY <2>4, <2>5, <2>6
<1>4. Pending' = Pending \cup {new}
  <2>1. AgentTypeOK' => PendingIs'
    BY PendingWhere, PTL
  <2>2. new # NULL
    BY AgentAssumption
  <2> QED BY <1>3, <2>1, <2>2, OnTheWay DEF PendingIs, Lines
<1>5. /\ \A n \in 1 .. k : Ahead[n] # Separator => Ahead[n].id # new.id
      /\ line # NULL => line.id # new.id
  BY <1>2, OnTheWay DEF Waiting, Lines
<1>6. ASSUME NEW m \in DOMAIN Ahead', NEW n \in DOMAIN Ahead', m # n, Ahead'[m] # Separator, Ahead'[n] # Separator
      PROVE  Ahead'[m].id # Ahead'[n].id
  <2>1. (m \in 1 .. k \/ m = k + 2) /\ (n \in 1 .. k \/ n = k + 2)
    BY <1>1, <1>2, <1>6
  <2> QED BY <1>2, <1>5, <1>6, <2>1 DEF LinesApart
<1>7. ASSUME line' # NULL, NEW n \in DOMAIN Ahead', Ahead'[n] # Separator PROVE Ahead'[n].id # line'.id
  <2>1. n \in 1 .. k \/ n = k + 2
    BY <1>1, <1>2, <1>7
  <2> QED BY <1>2, <1>5, <1>7, <2>1 DEF LinesApart
<1> QED BY <1>4, <1>6, <1>7 DEF LinesApart, Waiting

\* A separator is no line.
LEMMA SeparatorPrinted ==
  ASSUME AgentTypeOK, AgentTypeOK', LinesApart, UNCHANGED <<buf, line>>, pipe' = Append(pipe, Separator)
  PROVE  Pending' = Pending /\ Waiting' = Waiting /\ LinesApart'
<1> DEFINE S == Line \cup {Separator}
           k == Len(Ahead)
<1>1. Ahead \in Seq(S) /\ Ahead' = Append(Ahead, Separator) /\ k \in Nat
  <2>1. pipe \in Seq(S) /\ buf \in Seq(S) /\ Separator \in S
    BY DEF AgentTypeOK
  <2>2. Ahead' = Append(Ahead, Separator)
    <3> HIDE DEF S
    <3>1. <<Separator>> \in Seq(S) /\ Append(pipe, Separator) = pipe \o <<Separator>>
      BY <2>1
    <3>2. buf \o (pipe \o <<Separator>>) = (buf \o pipe) \o <<Separator>>
      BY <2>1, <3>1, ConcatAssociative
    <3>3. buf \o pipe \in Seq(S)
      BY <2>1
    <3> QED BY <2>1, <3>1, <3>2, <3>3, AppendIsConcat DEF Ahead
  <2> QED BY <2>1, <2>2 DEF Ahead
<1>2. /\ DOMAIN Ahead = 1 .. k /\ DOMAIN Ahead' = 1 .. k + 1 /\ Ahead'[k + 1] = Separator
      /\ \A n \in 1 .. k : Ahead'[n] = Ahead[n]
  <2>1. Separator \in S
    OBVIOUS
  <2> HIDE DEF S
  <2> QED BY <1>1, <2>1
<1> HIDE DEF k
<1>3. \A n \in DOMAIN Ahead' : Ahead'[n] # Separator => n \in 1 .. k
  BY <1>1, <1>2
<1>4. \A n \in 1 .. k : n \in DOMAIN Ahead' /\ n \in DOMAIN Ahead
  BY <1>1, <1>2
<1>5. Lines(Ahead') = Lines(Ahead)
  BY <1>2, <1>3, <1>4 DEF Lines
<1>6. Pending' = Pending
  <2>1. AgentTypeOK' => PendingIs'
    BY PendingWhere, PTL
  <2> QED BY <1>5, <2>1, OnTheWay DEF PendingIs, Lines
<1>7. LinesApart'
  BY <1>2, <1>3, <1>4 DEF LinesApart
<1> QED BY <1>6, <1>7 DEF Waiting
-----------------------------------------------------------------------------
(***************************************************************************)
(* Lines are accounted for.                                                *)
(***************************************************************************)
LinesInv == Accounted /\ LinesApart /\ QueueInv

LEMMA CountedIds ==
  ASSUME AgentTypeOK
  PROVE  Queued \subseteq Ids /\ \A t \in outputQueue : t.id \in Queued /\ t.id \in Ids /\ t.found \in QueuedJobs
  BY DEF AgentTypeOK, Queued, QueuedJobs

\* Steps that have to do with no line.
LEMMA LinesFrame ==
  ASSUME AgentTypeOK', LinesInv, UNCHANGED <<pipe, buf, line, printed, outputQueue, written, dropped>>,
         ~ setBack' => ~ setBack /\ sinceCheck' >= 0,
         main' = "write" => main = "write" /\ UNCHANGED <<toWrite, clearAfter>>,
         main' \notin {"write", "dead"} => main \notin {"write", "dead"}
  PROVE  LinesInv'
<1>1. Waiting' = Waiting /\ LinesApart'
  BY LinesStay DEF LinesInv, Accounted
<1>2. Queued' = Queued /\ Counted' = Counted
  BY DEF Queued, Counted
<1>3. Accounted'
  BY <1>1, <1>2 DEF LinesInv, Accounted
<1>4. QueueInv'
  BY DEF LinesInv, QueueInv
<1> QED BY <1>1, <1>3, <1>4 DEF LinesInv

\* The line in work is dropped.
LEMMA LinesDrop ==
  ASSUME AgentTypeOK', LinesInv, AtWork, main \in {"device", "refreshed", "pid"}, Drop,
         UNCHANGED <<pipe, buf, printed, outputQueue, written, toWrite, clearAfter, setBack, sinceCheck>>
  PROVE  LinesInv'
<1>1. /\ LinesApart' /\ line.id \in Waiting /\ Waiting' = Waiting \ {line.id}
      /\ dropped' = dropped \cup {line.id} /\ main' = "top"
  BY LineLeaves DEF Drop, LinesInv, Accounted, AtWork
<1>2. Queued' = Queued /\ Counted' = Counted
  BY DEF Queued, Counted
<1>3. Accounted'
  BY <1>1, <1>2 DEF LinesInv, Accounted
<1>4. QueueInv'
  BY <1>1 DEF LinesInv, QueueInv
<1> QED BY <1>1, <1>3, <1>4 DEF LinesInv

LEMMA LinesRestart ==
  ASSUME AgentTypeOK', LinesInv, AtWork, Restart
  PROVE  LinesInv'
<1>1. CASE main' = "ended"
  <2>1. AgentTypeOK' /\ UNCHANGED <<pipe, buf, line, printed, outputQueue, written, dropped, setBack, sinceCheck>>
        /\ main = "top"
    BY <1>1 DEF Restart, writeVars
  <2> QED BY <1>1, <2>1, LinesFrame DEF LinesInv, QueueInv
<1>2. CASE main' # "ended"
  <2>1. /\ main = "top" /\ pipe' = << >> /\ buf' = << >> /\ line = NULL /\ line' = NULL /\ main' = "sleep"
        /\ dropped' = dropped \cup Unread
        /\ UNCHANGED <<printed, outputQueue, written, toWrite, clearAfter, setBack, sinceCheck>>
    BY <1>2 DEF Restart, writeVars, AtWork
  <2>2. LinesApart' /\ Waiting' = {} /\ Unread = Waiting
    BY <2>1, LinesLost DEF LinesInv, Accounted
  <2>3. Queued' = Queued /\ Counted' = Counted
    BY <2>1 DEF Queued, Counted
  <2>4. Accounted'
    BY <2>1, <2>2, <2>3 DEF LinesInv, Accounted
  <2>5. QueueInv'
    BY <2>1 DEF LinesInv, QueueInv
  <2> QED BY <2>2, <2>4, <2>5 DEF LinesInv
<1> QED BY <1>1, <1>2

LEMMA LinesOutput ==
  ASSUME AgentTypeOK', LinesInv, Output
  PROVE  LinesInv'
<1>1. UNCHANGED <<buf, line, outputQueue, written, dropped, toWrite, clearAfter, setBack, sinceCheck, main>>
  BY DEF Output, mainVars, writeVars, loopVars
<1>2. QueueInv' /\ Queued' = Queued /\ Counted' = Counted
  BY <1>1 DEF LinesInv, QueueInv, Queued, Counted
<1>3. CASE pipe' = Append(pipe, Separator) /\ printed' = printed
  <2>1. LinesApart' /\ Waiting' = Waiting
    BY <1>1, <1>3, SeparatorPrinted DEF LinesInv, Accounted
  <2>2. Accounted'
    BY <1>1, <1>2, <1>3, <2>1 DEF LinesInv, Accounted
  <2> QED BY <1>2, <2>1, <2>2 DEF LinesInv
<1>4. ASSUME NEW p \in Pids, NEW d \in Devs, printed < MaxLines, owner[p] # Gone, printed' = printed + 1,
             pipe' = pipe \o <<Separator, [id |-> printed + 1, pid |-> p, dev |-> d, job |-> owner[p]]>>
      PROVE  LinesInv'
  <2>1. PICK new \in Line : new.id = printed + 1 /\ pipe' = pipe \o <<Separator, new>>
    <3>1. [id |-> printed + 1, pid |-> p, dev |-> d, job |-> owner[p]] \in Line
      BY <1>4 DEF LinesInv, Accounted, AgentTypeOK, Line, Ids
    <3> QED BY <1>4, <3>1
  <2>2. new.id \notin Waiting /\ printed \in Nat /\ 1 .. printed' = 1 .. printed \cup {new.id}
    BY <1>4, <2>1, AgentAssumption DEF LinesInv, Accounted, AgentTypeOK
  <2>3. LinesApart' /\ Waiting' = Waiting \cup {new.id}
    BY <1>1, <2>1, <2>2, LinePrinted DEF LinesInv, Accounted
  <2>4. new.id \notin Queued \cup Counted \cup dropped
    BY <2>1, <2>2 DEF LinesInv, Accounted
  <2>5. Accounted'
    BY <1>1, <1>2, <2>2, <2>3, <2>4 DEF LinesInv, Accounted
  <2> QED BY <1>2, <2>3, <2>5 DEF LinesInv
<1> QED BY <1>3, <1>4 DEF Output

LEMMA LinesNoOutput ==
  ASSUME AgentTypeOK', LinesInv, NoOutput
  PROVE  LinesInv'
<1>1. /\ main = "poll" /\ sinceCheck' = 0
      /\ UNCHANGED <<pipe, buf, line, printed, outputQueue, written, dropped, setBack>>
  BY DEF NoOutput, nodeVars
<1>2. CASE main' # "write"
  BY <1>1, <1>2, LinesFrame
<1>3. CASE main' = "write"
  <2>1. toWrite' = QueuedJobs /\ (~ setBack => clearAfter')
    <3>1. ~ setBack => ~ (sinceCheck < 0)
      BY DEF LinesInv, QueueInv, Accounted, AgentTypeOK
    <3>2. StartWrite(TRUE) \/ (sinceCheck < 0 /\ StartWrite(FALSE))
      BY <1>3 DEF NoOutput
    <3>3. ~ setBack => clearAfter'
      BY <3>1, <3>2, Zenon DEF StartWrite
    <3> QED BY <3>2, <3>3 DEF StartWrite
  <2>2. Queued' = Queued /\ Counted' = Counted
    BY <1>1 DEF Queued, Counted
  <2>3. Waiting' = Waiting /\ LinesApart'
    BY <1>1, LinesStay DEF LinesInv, Accounted
  <2>4. Accounted'
    BY <1>1, <1>3, <2>2, <2>3 DEF LinesInv, Accounted
  <2>5. ~ setBack => \A t \in outputQueue : written[t.id] = 0
    <3>1. ~ setBack => Queued \cap Counted = {}
      BY <1>1 DEF LinesInv, Accounted
    <3> QED BY <3>1, CountedIds DEF LinesInv, Accounted, Counted, AgentTypeOK
  <2>6. QueueInv'
    BY <1>1, <1>3, <2>1, <2>5, CountedIds DEF LinesInv, Accounted, QueueInv
  <2> QED BY <2>3, <2>4, <2>6 DEF LinesInv
<1> QED BY <1>2, <1>3

LEMMA LinesWriteJob ==
  ASSUME AgentTypeOK', LinesInv, WriteJob
  PROVE  LinesInv'
<1>1. /\ main = "write" /\ main' = "write"
      /\ UNCHANGED <<pipe, buf, line, printed, outputQueue, dropped, setBack, sinceCheck, clearAfter>>
  BY DEF WriteJob, nodeVars, loopVars
<1>2. PICK j \in toWrite :
        /\ toWrite' = toWrite \ {j}
        /\ \A n \in Ids : written'[n] = IF \E t \in outputQueue : t.id = n /\ t.found = j
                                      THEN written[n] + 1 ELSE written[n]
  BY DEF WriteJob
<1>3. /\ AgentTypeOK /\ written \in [Ids -> Nat]
      /\ \A t, u \in outputQueue : t.id = u.id => t = u
      /\ \A t \in outputQueue : t.id \in Ids /\ t.id \in Queued
  BY CountedIds DEF LinesInv, Accounted, QueueInv, AgentTypeOK
<1>4. \A t \in outputQueue : written'[t.id] = IF t.found = j THEN written[t.id] + 1 ELSE written[t.id]
  BY <1>2, <1>3
<1>5. QueueInv'
  BY <1>1, <1>2, <1>3, <1>4 DEF LinesInv, QueueInv
<1>6. Queued' = Queued /\ Counted \subseteq Counted' /\ Counted' \subseteq Counted \cup Queued
  BY <1>1, <1>2, <1>3 DEF Queued, Counted
<1>7. Waiting' = Waiting /\ LinesApart'
  BY <1>1, LinesStay DEF LinesInv, Accounted
<1>8. ~ setBack => \A n \in Ids : written'[n] <= 1
  <2> SUFFICES ASSUME ~ setBack, NEW n \in Ids PROVE written'[n] <= 1
    OBVIOUS
  <2>1. CASE \E t \in outputQueue : t.id = n /\ t.found = j
    <3>1. written[n] = 0
      BY <1>1, <2>1 DEF LinesInv, QueueInv
    <3> QED BY <1>2, <2>1, <3>1
  <2>2. CASE ~ \E t \in outputQueue : t.id = n /\ t.found = j
    BY <1>2, <2>2 DEF LinesInv, Accounted
  <2> QED BY <2>1, <2>2
<1>9. Accounted'
  BY <1>1, <1>6, <1>7, <1>8 DEF LinesInv, Accounted
<1> QED BY <1>5, <1>7, <1>9 DEF LinesInv

LEMMA LinesWriteDone ==
  ASSUME AgentTypeOK', LinesInv, WriteDone
  PROVE  LinesInv'
<1>1. /\ main = "write" /\ main' = "sleep" /\ toWrite = {}
      /\ outputQueue' = (IF clearAfter THEN {} ELSE outputQueue)
      /\ UNCHANGED <<pipe, buf, line, printed, written, dropped, setBack, sinceCheck>>
  BY DEF WriteDone, nodeVars, loopVars
<1>2. Queued \subseteq Counted
  <2>1. \A t \in outputQueue : written[t.id] > 0 /\ t.id \in Ids
    BY <1>1, CountedIds DEF LinesInv, Accounted, QueueInv
  <2> QED BY <2>1 DEF Queued, Counted
<1>3. Counted' = Counted /\ Queued' \subseteq Queued /\ (~ setBack => Queued' = {})
  BY <1>1 DEF Queued, Counted, LinesInv, QueueInv
<1>4. Waiting' = Waiting /\ LinesApart'
  BY <1>1, LinesStay DEF LinesInv, Accounted
<1>5. Accounted'
  BY <1>1, <1>2, <1>3, <1>4 DEF LinesInv, Accounted
<1>6. QueueInv'
  BY <1>1 DEF LinesInv, QueueInv
<1> QED BY <1>4, <1>5, <1>6 DEF LinesInv

LEMMA LinesCount ==
  ASSUME AgentTypeOK', LinesInv, AtWork, Count
  PROVE  LinesInv'
<1>1. /\ main = "count" /\ line # NULL /\ line' = NULL
      /\ UNCHANGED <<pipe, buf, printed, written, setBack, sinceCheck>>
  BY DEF Count, nodeVars, loopVars, AtWork
<1>2. LinesApart' /\ line.id \in Waiting /\ Waiting' = Waiting \ {line.id}
  BY <1>1, LineLeaves DEF LinesInv, Accounted
<1>3. Counted' = Counted
  BY <1>1 DEF Counted
<1>4. CASE main' = "dead"
  <2>1. dropped' = dropped \cup {line.id} /\ outputQueue' = outputQueue
    BY <1>4 DEF Count
  <2>2. Queued' = Queued
    BY <2>1 DEF Queued
  <2>3. Accounted'
    BY <1>1, <1>2, <1>3, <1>4, <2>1, <2>2 DEF LinesInv, Accounted
  <2>4. QueueInv'
    BY <1>1, <1>4, <2>1 DEF LinesInv, QueueInv
  <2> QED BY <1>2, <2>3, <2>4 DEF LinesInv
<1>5. CASE main' # "dead"
  <2>1. /\ dropped' = dropped /\ main' = "top"
        /\ outputQueue' = outputQueue \cup {[id |-> line.id, job |-> line.job, found |-> found]}
    BY <1>5 DEF Count
  <2>2. Queued' = Queued \cup {line.id}
    <3>1. PICK new : new = [id |-> line.id, job |-> line.job, found |-> found]
      OBVIOUS
    <3>2. new.id = line.id /\ outputQueue' = outputQueue \cup {new}
      BY <2>1, <3>1
    <3> QED BY <3>2 DEF Queued
  <2>3. Accounted'
    BY <1>1, <1>2, <1>3, <2>1, <2>2 DEF LinesInv, Accounted
  <2>4. \A t \in outputQueue : t.id # line.id
    BY <1>2, CountedIds DEF LinesInv, Accounted
  <2>5. QueueInv'
    BY <1>1, <2>1, <2>4 DEF LinesInv, QueueInv
  <2> QED BY <1>2, <2>3, <2>5 DEF LinesInv
<1> QED BY <1>4, <1>5

LEMMA LinesStep ==
  ASSUME AgentTypeOK', LinesInv, AtWork, [Next]_vars
  PROVE  LinesInv'
<1> USE DEF nodeVars, mainVars, loopVars, pidVars, mapVars, lookVars, writeVars, timerVars
<1>1. CASE Restart
  BY <1>1, LinesRestart
<1>2. CASE GiveUp \/ CheckAlive \/ ReadEnd \/ WriteFails \/ KnownDevice \/ RefreshDevices \/ StoreDevices
  <2>1. main' # "write" /\ (main = "write" => main' = "dead") /\ (main = "dead" => FALSE)
    BY <1>2 DEF GiveUp, CheckAlive, ReadEnd, WriteFails, KnownDevice, RefreshDevices, StoreDevices
  <2>2. UNCHANGED <<pipe, buf, line, printed, outputQueue, written, dropped, setBack, sinceCheck>>
    BY <1>2 DEF GiveUp, CheckAlive, ReadEnd, WriteFails, KnownDevice, RefreshDevices, StoreDevices
  <2> QED BY <2>1, <2>2, LinesFrame DEF LinesInv, QueueInv
<1>3. CASE ReadLine
  <2>1. /\ LinesApart' /\ Waiting' = Waiting
    BY <1>3, LineRead DEF LinesInv, Accounted
  <2>2. /\ UNCHANGED <<printed, outputQueue, written, dropped, setBack, sinceCheck>>
        /\ main = "poll" /\ main' \in {"top", "device"}
    BY <1>3, TakenTyped DEF ReadLine, LinesInv, Accounted
  <2>3. Queued' = Queued /\ Counted' = Counted
    BY <2>2 DEF Queued, Counted
  <2>4. Accounted' /\ QueueInv'
    BY <2>1, <2>2, <2>3 DEF LinesInv, Accounted, QueueInv
  <2> QED BY <2>1, <2>4 DEF LinesInv
<1>4. CASE NoOutput
  BY <1>4, LinesNoOutput
<1>5. CASE WriteJob
  BY <1>5, LinesWriteJob
<1>6. CASE WriteDone
  BY <1>6, LinesWriteDone
<1>7. CASE SkipDevice
  BY <1>7, LinesDrop DEF SkipDevice
<1>8. CASE Refreshed
  <2>1. CASE line.dev \in deviceMap
    BY <1>8, <2>1, LinesFrame DEF Refreshed, LinesInv, QueueInv
  <2>2. CASE line.dev \notin deviceMap
    BY <1>8, <2>2, LinesDrop DEF Refreshed
  <2> QED BY <2>1, <2>2
<1>9. CASE FindJob
  <2>1. CASE Drop
    BY <1>9, <2>1, LinesDrop DEF FindJob
  <2>2. CASE ~ Drop
    <3>1. main = "pid" /\ main' = "count" /\ UNCHANGED <<pipe, buf, line, printed, outputQueue, written, dropped, setBack, sinceCheck>>
      BY <1>9, <2>2 DEF FindJob
    <3> QED BY <3>1, LinesFrame DEF LinesInv, QueueInv
  <2> QED BY <2>1, <2>2
<1>10. CASE Count
  BY <1>10, LinesCount
<1>11. CASE Timer
  <2>1. UNCHANGED <<pipe, buf, line, printed, outputQueue, written, dropped, setBack, sinceCheck, main, toWrite, clearAfter>>
    BY <1>11 DEF Timer, TimerReads, TimerStores
  <2> QED BY <2>1, LinesFrame DEF LinesInv, QueueInv
<1>12. CASE Output
  BY <1>12, LinesOutput
<1>13. CASE Tick
  <2>1. /\ main \in {"sleep", "reading", "count"} /\ main' \in {"top", "reading", "count"}
        /\ UNCHANGED <<pipe, buf, line, printed, outputQueue, written, dropped, setBack>>
    BY <1>13 DEF Tick
  <2>2. ~ setBack => sinceCheck' >= 0
    BY <1>13, AgentAssumption DEF Tick, Cap, LinesInv, QueueInv, Accounted, AgentTypeOK
  <2> QED BY <2>1, <2>2, LinesFrame
<1>14. CASE Change
  <2>1. UNCHANGED <<pipe, buf, line, printed, outputQueue, written, dropped, main, toWrite, clearAfter>>
    BY <1>14 DEF Change, Die, SetBack, Exit, Start, Mount
  <2>2. setBack' = TRUE \/ UNCHANGED <<setBack, sinceCheck>>
    BY <1>14 DEF Change, Die, SetBack, Exit, Start, Mount
  <2> QED BY <2>1, <2>2, LinesFrame DEF LinesInv, QueueInv
<1>15. CASE UNCHANGED vars
  BY <1>15, LinesFrame DEF vars, LinesInv, QueueInv
<1> QED BY <1>1, <1>2, <1>3, <1>4, <1>5, <1>6, <1>7, <1>8, <1>9, <1>10, <1>11, <1>12, <1>13, <1>14, <1>15
        DEF Next, Main, Node
-----------------------------------------------------------------------------
(***************************************************************************)
(* The line in work, the pids and the mounts.                              *)
(***************************************************************************)
LEMMA WorkStep ==
  ASSUME AgentTypeOK, AtWork, [Next]_vars
  PROVE  AtWork'
<1> USE DEF nodeVars, mainVars, loopVars, pidVars, mapVars, lookVars, writeVars, timerVars
<1>1. CASE ReadLine
  <2>1. /\ main = "poll" /\ line = NULL /\ main' \in {"top", "device"} /\ (main' = "device" => line' # NULL)
        /\ (main' = "top" => line' = NULL)
    <3>1. line = NULL /\ main = "poll"
      BY <1>1 DEF ReadLine, AtWork
    <3>2. Ahead # << >> /\ Head(Ahead) \in Line \cup {Separator}
      BY <1>1, TakenTyped, OnTheWay
    <3> QED BY <1>1, <3>1, <3>2, TakenTyped, AgentAssumption
  <2> QED BY <2>1 DEF AtWork
<1>2. CASE Restart \/ GiveUp \/ CheckAlive \/ ReadEnd \/ WriteJob \/ WriteFails \/ WriteDone
  BY <1>2 DEF Restart, GiveUp, CheckAlive, ReadEnd, WriteJob, WriteFails, WriteDone, AtWork
<1>3. CASE NoOutput
  BY <1>3 DEF NoOutput, StartWrite, AtWork
<1>4. CASE KnownDevice \/ SkipDevice \/ RefreshDevices \/ StoreDevices \/ Refreshed
  BY <1>4 DEF KnownDevice, SkipDevice, RefreshDevices, StoreDevices, Refreshed, Drop, AtWork
<1>5. CASE FindJob
  <2>1. \/ Drop
        \/ main' = "count" /\ found' # NULL /\ line' = line /\ line # NULL
    BY <1>5 DEF FindJob, AtWork
  <2> QED BY <2>1 DEF Drop, AtWork
<1>6. CASE Count
  BY <1>6 DEF Count, AtWork
<1>7. CASE Timer \/ Output \/ Change
  <2>1. UNCHANGED <<main, line, found>>
    BY <1>7 DEF Timer, TimerReads, TimerStores, Output, Change, Die, SetBack, Exit, Start, Mount
  <2> QED BY <2>1 DEF AtWork
<1>8. CASE Tick
  BY <1>8 DEF Tick, AtWork
<1>9. CASE UNCHANGED vars
  BY <1>9 DEF vars, AtWork
<1> QED BY <1>1, <1>2, <1>3, <1>4, <1>5, <1>6, <1>7, <1>8, <1>9 DEF Next, Main, Node

\* Steps that leave the processes, their lines and what is known of them alone,
\* or know less.
LEMMA PidFrame ==
  ASSUME PidInv, setBack' = setBack, Pending' \subseteq Pending, UNCHANGED <<owner, pidJob, pidAge>>,
         main' = "count" => main = "count" /\ UNCHANGED <<found, line>>
  PROVE  PidInv'
<1>1. \A p : InCache(p)' = InCache(p)
  BY DEF InCache
<1> QED BY <1>1 DEF PidInv

LEMMA PidFindJob ==
  ASSUME AgentTypeOK, AgentTypeOK', LinesApart, AtWork, PidInv, FindJob
  PROVE  PidInv'
<1> DEFINE p == line.pid
           job == IF Cached(p) THEN pidJob[p] ELSE JobNumberOf(p)
<1> SUFFICES ASSUME ~ setBack
             PROVE  /\ \A q \in Pids : pidAge'[q] >= 0 /\ (InCache(q)' => owner'[q] \in {Gone, pidJob'[q]})
                    /\ \A l \in Pending' : /\ owner'[l.pid] \in {Gone, l.job}
                                           /\ InCache(l.pid)' => pidJob'[l.pid] = l.job
                    /\ main' = "count" => found' = line'.job
  <2>1. setBack' = setBack
    BY DEF FindJob, nodeVars
  <2> QED BY <2>1 DEF PidInv
<1>1. /\ pidJob' = [pidJob EXCEPT ![p] = job] /\ pidAge' = [pidAge EXCEPT ![p] = 0] /\ owner' = owner
      /\ main = "pid" /\ UNCHANGED <<pipe, buf>>
  BY DEF FindJob, nodeVars
<1>2. /\ pidJob \in [Pids -> Jobs \cup {NULL, Gone}] /\ pidAge \in [Pids -> Int]
      /\ owner \in [Pids -> Jobs \cup {NULL, Gone}] /\ line \in Line /\ p \in Pids /\ line # NULL
  BY <1>1, LineTyped DEF AgentTypeOK
<1>3. line \in Pending /\ Pending' \subseteq Pending
  <2>1. CASE line' = NULL
    BY <1>1, <1>2, <2>1, LineLeaves
  <2>2. CASE line' = line
    BY <1>1, <1>2, <2>2, OnTheWay, LinesStay
  <2> QED BY <2>1, <2>2 DEF FindJob, Drop
<1>4. Cached(p) <=> pidJob[p] # Gone /\ pidAge[p] <= PidExpiry
  BY <1>2, AgentAssumption DEF Cached, PidInv
<1>5. job \in Jobs => /\ owner[p] \in {Gone, job}
                      /\ \A l \in Pending : l.pid = p => l.job = job
  <2>1. CASE Cached(p)
    BY <1>2, <1>4, <2>1 DEF PidInv, InCache
  <2>2. CASE ~ Cached(p)
    <3>1. job \in Jobs => job = owner[p] /\ owner[p] # Gone
      BY <2>2, AgentAssumption DEF JobNumberOf
    <3> QED BY <3>1 DEF PidInv
  <2> QED BY <2>1, <2>2
<1> HIDE DEF job
<1>6. ASSUME NEW q \in Pids PROVE pidAge'[q] >= 0 /\ (InCache(q)' => owner'[q] \in {Gone, pidJob'[q]})
  <2>1. CASE q = p
    BY <1>1, <1>2, <1>5, <2>1 DEF InCache
  <2>2. CASE q # p
    BY <1>1, <1>2, <2>2 DEF InCache, PidInv
  <2> QED BY <2>1, <2>2
<1>7. ASSUME NEW l \in Pending' PROVE owner'[l.pid] \in {Gone, l.job} /\ (InCache(l.pid)' => pidJob'[l.pid] = l.job)
  <2>1. l \in Pending /\ l.pid \in Pids
    BY <1>3, OnTheWay DEF Line
  <2>2. CASE l.pid = p
    BY <1>1, <1>2, <1>5, <2>1, <2>2 DEF InCache, PidInv
  <2>3. CASE l.pid # p
    BY <1>1, <1>2, <2>1, <2>3 DEF InCache, PidInv
  <2> QED BY <2>2, <2>3
<1>8. main' = "count" => found' = line'.job
  <2> SUFFICES ASSUME main' = "count" PROVE found' = line'.job
    OBVIOUS
  <2>1. found' = job /\ job # NULL /\ line' = line
    BY DEF FindJob, Drop, job
  <2>2. job \in Jobs
    <3>1. job \in Jobs \cup {NULL, Gone}
      BY <1>1, <1>2 DEF AgentTypeOK
    <3>2. job # Gone
      BY <1>2, AgentAssumption DEF job, Cached, JobNumberOf
    <3> QED BY <2>1, <3>1, <3>2
  <2> QED BY <1>3, <1>5, <2>1, <2>2
<1> QED BY <1>6, <1>7, <1>8

LEMMA PidOutput ==
  ASSUME AgentTypeOK, AgentTypeOK', LinesInv, PidInv, Output
  PROVE  PidInv'
<1>1. UNCHANGED <<buf, line, owner, pidJob, pidAge, main, found, setBack>>
  BY DEF Output, mainVars, pidVars
<1>2. CASE pipe' = Append(pipe, Separator)
  <2>1. Pending' = Pending
    BY <1>1, <1>2, SeparatorPrinted DEF LinesInv
  <2> QED BY <1>1, <2>1, PidFrame
<1>3. ASSUME NEW p \in Pids, NEW d \in Devs, printed < MaxLines, owner[p] # Gone, printed' = printed + 1,
             pipe' = pipe \o <<Separator, [id |-> printed + 1, pid |-> p, dev |-> d, job |-> owner[p]]>>
      PROVE  PidInv'
  <2>1. PICK new \in Line : /\ new.id = printed + 1 /\ new.pid = p /\ new.job = owner[p]
                           /\ pipe' = pipe \o <<Separator, new>>
    <3>1. printed + 1 \in Ids /\ owner[p] \in Jobs \cup {NULL}
      BY <1>3, AgentAssumption DEF AgentTypeOK, Ids
    <3>2. [id |-> printed + 1, pid |-> p, dev |-> d, job |-> owner[p]] \in Line
      BY <3>1 DEF Line
    <3> QED BY <1>3, <3>2
  <2>2. new.id \notin Waiting
    <3>1. Waiting \subseteq 1 .. printed /\ printed \in Nat
      BY AgentAssumption DEF LinesInv, Accounted, AgentTypeOK
    <3> QED BY <2>1, <3>1
  <2>3. Pending' = Pending \cup {new}
    BY <1>1, <2>1, <2>2, LinePrinted DEF LinesInv
  <2>4. \A q : InCache(q)' = InCache(q)
    BY <1>1 DEF InCache
  <2> QED BY <1>1, <1>3, <2>1, <2>3, <2>4 DEF PidInv
<1> QED BY <1>2, <1>3 DEF Output

LEMMA PidChange ==
  ASSUME AgentTypeOK, PidInv, Change
  PROVE  PidInv'
<1> USE DEF nodeVars, mainVars, loopVars, pidVars, mapVars, lookVars, writeVars, timerVars
<1>1. CASE Die \/ \E d \in Devs : Mount(d)
  <2>1. UNCHANGED <<pipe, buf, line, owner, pidJob, pidAge, main, found, setBack>>
    BY <1>1 DEF Die, Mount
  <2>2. Pending' = Pending
    BY <2>1 DEF Pending
  <2> QED BY <2>1, <2>2, PidFrame
<1>2. CASE SetBack
  BY <1>2 DEF SetBack, PidInv
<1>3. ASSUME NEW p \in Pids, Exit(p) \/ Start(p) PROVE PidInv'
  <2>1. /\ UNCHANGED <<pipe, buf, line, pidJob, pidAge, main, found, setBack>>
        /\ \A q \in Pids \ {p} : owner'[q] = owner[q]
        /\ \/ owner'[p] = Gone
           \/ owner'[p] \in Jobs \cup {NULL} /\ Rested(p)
    BY <1>3 DEF Exit, Start, AgentTypeOK
  <2>2. Pending' = Pending /\ \A q : InCache(q)' = InCache(q)
    BY <2>1 DEF Pending, InCache
  <2>3. CASE owner'[p] = Gone
    <3>1. \A l \in Pending : l.pid \in Pids
      BY OnTheWay DEF Line
    <3> QED BY <2>1, <2>2, <2>3, <3>1 DEF PidInv
  <2>4. CASE Rested(p)
    <3>1. \A l \in Pending : l.pid \in Pids \ {p}
      BY <2>4, OnTheWay DEF Line, Rested
    <3>2. ~ InCache(p)
      BY <2>4, AgentAssumption DEF Rested, InCache, AgentTypeOK
    <3> QED BY <2>1, <2>2, <3>1, <3>2 DEF PidInv
  <2> QED BY <2>1, <2>3, <2>4
<1> QED BY <1>1, <1>2, <1>3 DEF Change

LEMMA PidTick ==
  ASSUME AgentTypeOK, PidInv, Tick
  PROVE  PidInv'
<1>1. /\ UNCHANGED <<pipe, buf, line, owner, pidJob, found, setBack>> /\ (main' = "count" => main = "count")
      /\ \A p \in Pids : pidAge'[p] = IF pidJob[p] = Gone THEN 0 ELSE Cap(pidAge[p] + 1, PidExpiry + 1)
  BY DEF Tick
<1>2. Pending' = Pending
  BY <1>1 DEF Pending
<1>3. ASSUME ~ setBack, NEW p \in Pids PROVE pidAge'[p] >= 0 /\ (InCache(p)' => InCache(p))
  <2>1. pidAge[p] \in Int /\ pidAge[p] >= 0 /\ PidExpiry \in Nat
    BY <1>3, AgentAssumption DEF PidInv, AgentTypeOK
  <2>2. CASE pidJob[p] = Gone
    BY <1>1, <2>2, AgentAssumption DEF InCache
  <2>3. CASE pidJob[p] # Gone
    <3>1. pidAge'[p] = IF pidAge[p] + 1 > PidExpiry + 1 THEN PidExpiry + 1 ELSE pidAge[p] + 1
      BY <1>1, <2>3 DEF Cap
    <3> QED BY <1>1, <2>1, <3>1 DEF InCache
  <2> QED BY <2>2, <2>3
<1>4. \A l \in Pending : l.pid \in Pids
  BY OnTheWay DEF Line
<1> QED BY <1>1, <1>2, <1>3, <1>4 DEF PidInv

LEMMA PidStep ==
  ASSUME AgentTypeOK, AgentTypeOK', LinesInv, AtWork, PidInv, [Next]_vars
  PROVE  PidInv'
<1> USE DEF nodeVars, mainVars, loopVars, pidVars, mapVars, lookVars, writeVars, timerVars
<1>1. CASE ReadLine
  <2>1. Pending' = Pending /\ main' \in {"top", "device"}
    BY <1>1, LineRead, TakenTyped DEF LinesInv
  <2> QED BY <1>1, <2>1, PidFrame DEF ReadLine
<1>2. CASE Restart
  <2>1. CASE main' = "ended"
    <3>1. UNCHANGED <<pipe, buf, line, owner, pidJob, pidAge, setBack>>
      BY <1>2, <2>1 DEF Restart
    <3>2. Pending' = Pending
      BY <3>1 DEF Pending
    <3> QED BY <2>1, <3>1, <3>2, PidFrame
  <2>2. CASE main' # "ended"
    <3>1. /\ pipe' = << >> /\ buf' = << >> /\ line = NULL /\ line' = NULL /\ main' = "sleep"
          /\ UNCHANGED <<owner, pidJob, pidAge, setBack>>
      BY <1>2, <2>2 DEF Restart, AtWork
    <3>2. Pending' = {}
      BY <3>1, LinesLost DEF LinesInv
    <3> QED BY <3>1, <3>2, PidFrame
  <2> QED BY <2>1, <2>2
<1>3. CASE \/ GiveUp \/ CheckAlive \/ ReadEnd \/ NoOutput \/ WriteJob \/ WriteFails \/ WriteDone
           \/ KnownDevice \/ RefreshDevices \/ StoreDevices \/ Timer
  <2>1. UNCHANGED <<pipe, buf, line, owner, pidJob, pidAge, setBack, found>> /\ (main' = "count" => main = "count")
    BY <1>3 DEF GiveUp, CheckAlive, ReadEnd, NoOutput, StartWrite, WriteJob, WriteFails, WriteDone,
                KnownDevice, RefreshDevices, StoreDevices, Timer, TimerReads, TimerStores
  <2>2. Pending' = Pending
    BY <2>1 DEF Pending
  <2> QED BY <2>1, <2>2, PidFrame
<1>4. CASE SkipDevice \/ Refreshed \/ Count
  <2>1. /\ UNCHANGED <<pipe, buf, owner, pidJob, pidAge, setBack>> /\ main' # "count"
        /\ line # NULL /\ line' \in {line, NULL}
    BY <1>4 DEF SkipDevice, Refreshed, Count, Drop, AtWork
  <2>2. Pending' \subseteq Pending
    <3>1. CASE line' = NULL
      BY <2>1, <3>1, LineLeaves DEF LinesInv
    <3>2. CASE line' = line
      BY <2>1, <3>2, LinesStay DEF LinesInv
    <3> QED BY <2>1, <3>1, <3>2
  <2> QED BY <2>1, <2>2, PidFrame
<1>5. CASE FindJob
  BY <1>5, PidFindJob DEF LinesInv
<1>6. CASE Output
  BY <1>6, PidOutput
<1>7. CASE Change
  BY <1>7, PidChange
<1>8. CASE Tick
  BY <1>8, PidTick
<1>9. CASE UNCHANGED vars
  <2>1. Pending' = Pending
    BY <1>9 DEF vars, Pending
  <2> QED BY <1>9, <2>1, PidFrame DEF vars
<1> QED BY <1>1, <1>2, <1>3, <1>4, <1>5, <1>6, <1>7, <1>8, <1>9 DEF Next, Main, Node

LEMMA AttributedStep ==
  ASSUME AttributedRight, PidInv, [Next]_vars
  PROVE  AttributedRight'
<1> USE DEF nodeVars, mainVars, loopVars, pidVars, mapVars, lookVars, writeVars, timerVars
<1>1. CASE Count
  <2>1. outputQueue' \subseteq outputQueue \cup {[id |-> line.id, job |-> line.job, found |-> found]}
        /\ setBack' = setBack /\ main = "count"
    BY <1>1 DEF Count
  <2>2. PICK new : new = [id |-> line.id, job |-> line.job, found |-> found]
    OBVIOUS
  <2>3. ~ setBack => new.found = new.job
    BY <2>1, <2>2 DEF PidInv
  <2> QED BY <2>1, <2>2, <2>3 DEF AttributedRight
<1>2. CASE WriteDone
  BY <1>2 DEF WriteDone, AttributedRight
<1>3. CASE \/ Restart \/ GiveUp \/ CheckAlive \/ ReadLine \/ ReadEnd \/ NoOutput \/ WriteJob \/ WriteFails
           \/ KnownDevice \/ SkipDevice \/ RefreshDevices \/ StoreDevices \/ Refreshed \/ FindJob
           \/ Timer \/ Output \/ Tick \/ UNCHANGED vars
  <2>1. UNCHANGED <<outputQueue, setBack>>
    BY <1>3 DEF Restart, GiveUp, CheckAlive, ReadLine, ReadEnd, NoOutput, WriteJob, WriteFails, KnownDevice,
                SkipDevice, RefreshDevices, StoreDevices, Refreshed, FindJob, Timer, TimerReads, TimerStores, Output, Tick, vars
  <2> QED BY <2>1 DEF AttributedRight
<1>4. CASE Change
  <2>1. outputQueue' = outputQueue /\ (setBack' = setBack \/ setBack')
    BY <1>4 DEF Change, Die, SetBack, Exit, Start, Mount
  <2> QED BY <2>1 DEF AttributedRight
<1> QED BY <1>1, <1>2, <1>3, <1>4 DEF Next, Main, Node

\* What MountInv says of the map of the Timer thread, the map the main thread
\* reads or has read, and the devices known as no NFS devices.
TimerInv ==
  timer = "reading" /\ timerBehind < MaxBehind =>
    \A d \in mounted \ timerMap : mountedFor[d] <= timerBehind
LookInv ==
  ~setBack =>
    /\ lookFor >= 0
    /\ main = "reading" => \A d \in mounted \ lookMap : mountedFor[d] <= lookFor
    /\ main = "refreshed" /\ behind < MaxBehind =>
         \A d \in mounted \ deviceMap : mountedFor[d] <= lookFor + behind
KnownInv ==
  ~setBack => \A d \in Devs :
    /\ nonNFSAge[d] # NULL => nonNFSAge[d] >= 0
    /\ Recent(d) =>
         /\ d \in mounted \ deviceMap /\ behind < MaxBehind => mountedFor[d] <= nonNFSAge[d] + behind
         /\ main \in {"reading", "refreshed"} => lookFor <= nonNFSAge[d]

LEMMA MountInvIs == MountInv <=> TimerInv /\ LookInv /\ KnownInv
  BY DEF MountInv, TimerInv, LookInv, KnownInv

\* Steps that change no device map, mount or cached device.
LEMMA MountFrame ==
  ASSUME MountInv,
         UNCHANGED <<mounted, mountedFor, timer, timerMap, timerBehind, mapVars, lookVars, setBack>>,
         main' \in {"reading", "refreshed"} => main' = main
  PROVE  MountInv'
<1>1. \A d : Recent(d)' = Recent(d)
  BY DEF Recent, lookVars
<1> QED BY <1>1 DEF MountInv, mapVars, lookVars

\* The ages that MountInv compares.
LEMMA AgesTyped ==
  ASSUME AgentTypeOK
  PROVE  /\ mounted \subseteq Devs /\ DeviceExpiry \in Nat /\ MaxAge \in Nat /\ MaxAge >= DeviceExpiry
         /\ MaxBehind \in Nat /\ timerBehind \in 0 .. MaxBehind /\ behind \in 0 .. MaxBehind
         /\ lookFor \in Int
         /\ \A d \in Devs : mountedFor[d] \in 0 .. MaxAge /\ nonNFSAge[d] \in Int \cup {NULL}
  BY AgentAssumption DEF AgentTypeOK

\* The main thread stores the map it has read: it lacks no volume that was
\* mounted before the line was looked at, nor before any device was dated.
LEMMA MountStore ==
  ASSUME AgentTypeOK, MountInv, StoreDevices
  PROVE  MountInv'
<1>1. /\ main = "reading" /\ main' = "refreshed" /\ deviceMap' = lookMap /\ behind' = 0
      /\ UNCHANGED <<mounted, mountedFor, timer, timerMap, timerBehind, nonNFSAge, lookFor, setBack>>
  BY DEF StoreDevices, nodeVars, timerVars
<1>2. TimerInv' /\ \A d : Recent(d)' = Recent(d)
  BY <1>1, MountInvIs DEF TimerInv, Recent
<1>3. ASSUME ~ setBack, NEW d \in mounted \ lookMap
      PROVE  mountedFor[d] <= lookFor /\ (Recent(d) => lookFor <= nonNFSAge[d])
  BY <1>1, <1>3, MountInvIs, AgesTyped DEF LookInv, KnownInv
<1>4. LookInv'
  BY <1>1, <1>3, MountInvIs, AgesTyped DEF LookInv
<1>5. KnownInv'
  <2>1. ASSUME ~ setBack, NEW d \in Devs, Recent(d)
        PROVE  /\ lookFor <= nonNFSAge[d]
               /\ d \in mounted \ lookMap => mountedFor[d] <= nonNFSAge[d] + 0
    <3>1. lookFor <= nonNFSAge[d]
      BY <1>1, <2>1, MountInvIs DEF KnownInv
    <3>2. nonNFSAge[d] \in Int
      BY <2>1, AgesTyped DEF Recent
    <3> QED BY <1>3, <2>1, <3>1, <3>2, AgesTyped
  <2>2. ASSUME ~ setBack, NEW d \in Devs, nonNFSAge[d] # NULL PROVE nonNFSAge[d] >= 0
    BY <2>2, MountInvIs DEF KnownInv
  <2> QED BY <1>1, <1>2, <2>1, <2>2 DEF KnownInv
<1> QED BY <1>2, <1>4, <1>5, MountInvIs DEF TimerInv, LookInv, KnownInv, MountInv, Recent

\* The Timer thread stores the map it has read: what it lacks was mounted for no
\* longer than behind says from now on.
LEMMA MountTimerStore ==
  ASSUME AgentTypeOK, MountInv, TimerStores
  PROVE  MountInv'
<1>1. /\ timer = "reading" /\ timer' = "waiting" /\ deviceMap' = timerMap
      /\ behind' = (IF mounted \subseteq timerMap THEN 0 ELSE timerBehind)
      /\ UNCHANGED <<mounted, mountedFor, nonNFSAge, lookMap, lookFor, setBack, main>>
  BY DEF TimerStores, nodeVars, lookVars
<1>2. ASSUME behind' < MaxBehind, NEW d \in mounted \ deviceMap' PROVE mountedFor[d] <= behind' /\ d \in Devs
  BY <1>1, <1>2, MountInvIs, AgesTyped DEF TimerInv
<1>3. TimerInv' /\ (\A d : Recent(d)' = Recent(d)) /\ behind' \in Int /\ behind' >= 0
  BY <1>1, AgesTyped DEF TimerInv, Recent
<1>4. LookInv'
  BY <1>1, <1>2, <1>3, MountInvIs, AgesTyped DEF LookInv
<1>5. KnownInv'
  <2>1. ASSUME ~ setBack, NEW d \in Devs, Recent(d), d \in mounted \ deviceMap', behind' < MaxBehind
        PROVE  mountedFor[d] <= nonNFSAge[d] + behind'
    <3>1. nonNFSAge[d] \in Int /\ nonNFSAge[d] >= 0
      BY <2>1, MountInvIs, AgesTyped DEF KnownInv, Recent
    <3> QED BY <1>2, <1>3, <2>1, <3>1, AgesTyped
  <2> QED BY <1>1, <1>3, <2>1, MountInvIs DEF KnownInv
<1> QED BY <1>3, <1>4, <1>5, MountInvIs DEF MountInv, TimerInv, LookInv, KnownInv

\* The device is dated, when it is not in the map.
LEMMA MountRefreshed ==
  ASSUME AgentTypeOK, AtWork, MountInv, Refreshed
  PROVE  MountInv'
<1>1. /\ main = "refreshed" /\ main' \in {"pid", "top"} /\ lookFor' = 0
      /\ UNCHANGED <<mounted, mountedFor, timer, timerMap, timerBehind, deviceMap, behind, setBack>>
  BY DEF Refreshed, Drop, nodeVars, timerVars, mapVars
<1>2. TimerInv' /\ LookInv'
  BY <1>1, MountInvIs DEF TimerInv, LookInv
<1>3. CASE line.dev \in deviceMap
  <2>1. nonNFSAge' = nonNFSAge
    BY <1>3 DEF Refreshed
  <2>2. \A d : Recent(d)' = Recent(d)
    BY <2>1 DEF Recent
  <2>3. KnownInv'
    BY <1>1, <2>1, <2>2, MountInvIs DEF KnownInv
  <2> QED BY <1>2, <2>3, MountInvIs DEF MountInv, TimerInv, LookInv, KnownInv
<1>4. CASE line.dev \notin deviceMap
  <2>1. line.dev \in Devs /\ nonNFSAge' = [nonNFSAge EXCEPT ![line.dev] = EntryAge]
    BY <1>1, <1>4, LineTyped DEF Refreshed
  <2>2. \A d \in Devs : nonNFSAge'[d] = IF d = line.dev THEN EntryAge ELSE nonNFSAge[d]
    BY <2>1 DEF AgentTypeOK
  <2>3. ASSUME ~ setBack PROVE EntryAge >= 0 /\ (EntryAge < DeviceExpiry => EntryAge = lookFor)
    BY <2>3, MountInvIs, AgesTyped DEF LookInv, EntryAge, Cap
  <2>4. ASSUME NEW d \in Devs, d # line.dev PROVE Recent(d)' = Recent(d) /\ nonNFSAge'[d] = nonNFSAge[d]
    BY <2>2, <2>4 DEF Recent
  <2>5. ASSUME ~ setBack, EntryAge < DeviceExpiry, line.dev \in mounted, behind < MaxBehind
        PROVE  mountedFor[line.dev] <= EntryAge + behind
    <3>1. EntryAge = lookFor
      BY <2>3, <2>5
    <3> QED BY <1>1, <1>4, <2>5, <3>1, MountInvIs DEF LookInv
  <2>6. KnownInv'
    <3>1. ASSUME ~ setBack, NEW d \in Devs, nonNFSAge'[d] # NULL
          PROVE  /\ nonNFSAge'[d] >= 0
                 /\ nonNFSAge'[d] < DeviceExpiry /\ d \in mounted \ deviceMap /\ behind < MaxBehind =>
                      mountedFor[d] <= nonNFSAge'[d] + behind
      <4>1. CASE d = line.dev
        <5>1. nonNFSAge'[d] = EntryAge
          BY <2>2, <4>1
        <5> QED BY <2>3, <2>5, <3>1, <4>1, <5>1
      <4>2. CASE d # line.dev
        <5>1. nonNFSAge'[d] = nonNFSAge[d]
          BY <2>4, <4>2
        <5> QED BY <3>1, <5>1, MountInvIs DEF KnownInv, Recent
      <4> QED BY <4>1, <4>2
    <3> QED BY <1>1, <3>1 DEF KnownInv, Recent
  <2> QED BY <1>2, <2>6, MountInvIs DEF MountInv, TimerInv, LookInv, KnownInv
<1> QED BY <1>3, <1>4

\* Time passes for all ages alike.
LEMMA MountTick ==
  ASSUME AgentTypeOK, MountInv, Tick
  PROVE  MountInv'
<1>1. /\ main' \in {"reading", "refreshed"} => main' = main /\ main' = "reading"
      /\ UNCHANGED <<timer, timerMap, mounted, deviceMap, behind, lookMap, setBack>>
      /\ \A d \in Devs : /\ nonNFSAge'[d] = IF nonNFSAge[d] = NULL THEN NULL
                                               ELSE Cap(nonNFSAge[d] + 1, DeviceExpiry)
                         /\ d \in mounted => mountedFor'[d] = Cap(mountedFor[d] + 1, MaxAge)
      /\ lookFor' = (IF main = "reading" THEN Cap(lookFor + 1, MaxAge) ELSE lookFor)
      /\ timerBehind' = (IF timer = "reading" /\ ~(mounted \subseteq timerMap)
                           THEN Cap(timerBehind + 1, MaxBehind) ELSE timerBehind)
  BY DEF Tick, mapVars
<1>2. TimerInv'
  <2> SUFFICES ASSUME timer = "reading", timerBehind' < MaxBehind, NEW d \in mounted \ timerMap
               PROVE  mountedFor'[d] <= timerBehind'
    BY <1>1 DEF TimerInv
  <2>1. timerBehind' = timerBehind + 1 /\ timerBehind < MaxBehind
    BY <1>1, AgesTyped DEF Cap
  <2>2. mountedFor[d] <= timerBehind
    BY <2>1, MountInvIs DEF TimerInv
  <2> QED BY <1>1, <2>1, <2>2, AgesTyped DEF Cap
<1>3. LookInv'
  <2>1. ASSUME ~ setBack PROVE lookFor' >= 0 /\ (main' = "reading" => lookFor' = Cap(lookFor + 1, MaxAge))
    BY <1>1, <2>1, MountInvIs, AgesTyped DEF LookInv, Cap
  <2>2. ASSUME ~ setBack, main' = "reading", NEW d \in mounted \ lookMap PROVE mountedFor'[d] <= lookFor'
    <3>1. mountedFor[d] <= lookFor
      BY <1>1, <2>2, MountInvIs DEF LookInv
    <3> QED BY <1>1, <2>1, <2>2, <3>1, AgesTyped DEF Cap
  <2> QED BY <1>1, <2>1, <2>2 DEF LookInv
<1>4. KnownInv'
  <2> SUFFICES ASSUME ~ setBack, NEW d \in Devs, nonNFSAge'[d] # NULL
               PROVE  /\ nonNFSAge'[d] >= 0
                      /\ Recent(d)' =>
                           /\ d \in mounted \ deviceMap /\ behind < MaxBehind =>
                                mountedFor'[d] <= nonNFSAge'[d] + behind
                           /\ main' \in {"reading", "refreshed"} => lookFor' <= nonNFSAge'[d]
    BY <1>1 DEF KnownInv, Recent
  <2>1. /\ nonNFSAge[d] # NULL /\ nonNFSAge[d] \in Int /\ nonNFSAge[d] >= 0
        /\ nonNFSAge'[d] = Cap(nonNFSAge[d] + 1, DeviceExpiry) /\ nonNFSAge'[d] >= 0
    BY <1>1, MountInvIs, AgesTyped DEF KnownInv, Cap
  <2>2. ASSUME Recent(d)' PROVE Recent(d) /\ nonNFSAge'[d] = nonNFSAge[d] + 1
    BY <2>1, <2>2, AgesTyped DEF Recent, Cap
  <2>3. ASSUME Recent(d)', d \in mounted \ deviceMap, behind < MaxBehind
        PROVE  mountedFor'[d] <= nonNFSAge'[d] + behind
    <3>1. mountedFor[d] <= nonNFSAge[d] + behind
      BY <2>2, <2>3, MountInvIs DEF KnownInv
    <3> QED BY <1>1, <2>1, <2>2, <2>3, <3>1, AgesTyped DEF Cap
  <2>4. ASSUME Recent(d)', main' \in {"reading", "refreshed"} PROVE lookFor' <= nonNFSAge'[d]
    <3>1. main = "reading" /\ lookFor <= nonNFSAge[d]
      BY <1>1, <2>2, <2>4, MountInvIs DEF KnownInv
    <3> QED BY <1>1, <2>1, <2>2, <2>4, <3>1, AgesTyped DEF Cap
  <2> QED BY <2>1, <2>3, <2>4
<1> QED BY <1>2, <1>3, <1>4, MountInvIs DEF MountInv, TimerInv, LookInv, KnownInv

LEMMA MountStep ==
  ASSUME AgentTypeOK, AtWork, MountInv, [Next]_vars
  PROVE  MountInv'
<1> USE DEF nodeVars, mainVars, loopVars, pidVars, mapVars, lookVars, writeVars, timerVars
<1>1. CASE \/ Restart \/ GiveUp \/ CheckAlive \/ ReadEnd \/ NoOutput \/ WriteJob \/ WriteFails
           \/ WriteDone \/ KnownDevice \/ SkipDevice \/ FindJob \/ Count
  BY <1>1, MountFrame DEF Restart, GiveUp, CheckAlive, ReadEnd, NoOutput, StartWrite, WriteJob, WriteFails,
       WriteDone, KnownDevice, SkipDevice, FindJob, Count, Drop
<1>2. CASE ReadLine
  BY <1>2, MountFrame, TakenTyped DEF ReadLine
<1>3. CASE RefreshDevices
  <2>1. CASE main' = "ended"
    BY <1>3, <2>1, MountFrame DEF RefreshDevices
  <2>2. CASE main' # "ended"
    <3>1. /\ main' = "reading" /\ lookMap' = mounted /\ lookFor' = 0
          /\ UNCHANGED <<mounted, mountedFor, timer, timerMap, timerBehind, deviceMap, behind, nonNFSAge, setBack>>
      BY <1>3, <2>2 DEF RefreshDevices, ReadMounts
    <3>2. \A d : Recent(d)' = Recent(d)
      BY <3>1 DEF Recent
    <3>3. \A d \in Devs : ~ setBack /\ Recent(d) => 0 <= nonNFSAge[d]
      BY MountInvIs DEF KnownInv, Recent
    <3>4. TimerInv' /\ LookInv' /\ KnownInv'
      BY <3>1, <3>2, <3>3, MountInvIs DEF TimerInv, LookInv, KnownInv
    <3> QED BY <3>4, MountInvIs DEF MountInv, TimerInv, LookInv, KnownInv
  <2> QED BY <2>1, <2>2
<1>13. CASE StoreDevices
  BY <1>13, MountStore
<1>4. CASE Refreshed
  BY <1>4, MountRefreshed
<1>5. CASE TimerReads
  <2>1. /\ timer' # "reading" \/ timerMap' = mounted
        /\ UNCHANGED <<mounted, mountedFor, timerBehind, deviceMap, behind, nonNFSAge, lookMap, lookFor,
                       setBack, main>>
    BY <1>5 DEF TimerReads, ReadMounts
  <2>2. \A d : Recent(d)' = Recent(d)
    BY <2>1 DEF Recent
  <2> QED BY <2>1, <2>2 DEF MountInv
<1>6. CASE TimerStores
  BY <1>6, MountTimerStore
<1>7. CASE Tick
  BY <1>7, MountTick
<1>8. CASE Output
  BY <1>8, MountFrame DEF Output
<1>9. CASE Die \/ \E p \in Pids : Exit(p) \/ Start(p)
  BY <1>9, MountFrame DEF Die, Exit, Start
<1>10. CASE SetBack
  BY <1>10 DEF SetBack, MountInv
<1>11. ASSUME NEW d \in Devs, Mount(d) PROVE MountInv'
  <2>1. /\ UNCHANGED <<timer, timerMap, timerBehind, main, deviceMap, behind, nonNFSAge, lookMap, lookFor, setBack>>
        /\ mountedFor'[d] = 0
        /\ \A e \in Devs \ {d} : mountedFor'[e] = mountedFor[e] /\ (e \in mounted' <=> e \in mounted)
        /\ mounted \subseteq Devs /\ mounted' \subseteq Devs
    BY <1>11, AgentAssumption DEF Mount, AgentTypeOK
  <2>2. \A e : Recent(e)' = Recent(e)
    BY <2>1 DEF Recent
  <2>3. TimerInv'
    BY <2>1, MountInvIs, AgesTyped DEF TimerInv
  <2>4. LookInv'
    BY <2>1, MountInvIs, AgesTyped DEF LookInv
  <2>5. ASSUME ~ setBack, NEW e \in Devs, Recent(e), e \in mounted' \ deviceMap, behind < MaxBehind
        PROVE  mountedFor'[e] <= nonNFSAge[e] + behind
    <3>1. nonNFSAge[e] \in Int /\ nonNFSAge[e] >= 0
      BY <2>5, MountInvIs, AgesTyped DEF KnownInv, Recent
    <3> QED BY <2>1, <2>5, <3>1, MountInvIs, AgesTyped DEF KnownInv
  <2>6. KnownInv'
    BY <2>1, <2>2, <2>5, MountInvIs DEF KnownInv
  <2> QED BY <2>3, <2>4, <2>6, MountInvIs DEF MountInv, TimerInv, LookInv, KnownInv
<1>12. CASE UNCHANGED vars
  BY <1>12, MountFrame DEF vars
<1> QED BY <1>1, <1>2, <1>3, <1>4, <1>5, <1>6, <1>7, <1>8, <1>9, <1>10, <1>11, <1>12, <1>13
        DEF Next, Main, Timer, Node, Change
-----------------------------------------------------------------------------
LEMMA AgentInitially ==
  ASSUME Init
  PROVE  AgentInv
<1>1. AgentTypeOK
  BY TypeInitially
<1>2. Ahead = << >> /\ Pending = {}
  <2>1. pipe = << >> /\ buf = << >> /\ line = NULL
    BY DEF Init
  <2>2. Ahead = << >>
    BY <2>1 DEF Ahead
  <2> QED BY <1>1, <2>1, <2>2, OnTheWay DEF Lines
<1>3. LinesApart /\ AtWork /\ Waiting = {}
  BY <1>2 DEF LinesApart, AtWork, Waiting, Init
<1>4. Queued = {} /\ Counted = {}
  BY DEF Init, Queued, Counted
<1>5. Accounted
  BY <1>1, <1>3, <1>4, AgentAssumption DEF Accounted, Init
<1>6. AttributedRight /\ QueueInv
  BY DEF Init, AttributedRight, QueueInv
<1>7. PidInv
  BY <1>2, AgentAssumption DEF Init, PidInv, InCache
<1>8. MountInv
  BY DEF Init, MountInv
<1> QED BY <1>3, <1>5, <1>6, <1>7, <1>8 DEF AgentInv

\* In every state of the agent its lines, its queue, its caches and the maps of
\* its two threads agree as AgentInv says, whatever fails in the node.
THEOREM AgentCorrect == Spec => []AgentInv
<1>1. Init => AgentInv
  BY AgentInitially
<1>2. AgentInv /\ [Next]_vars => AgentInv'
  <2> SUFFICES ASSUME AgentInv, [Next]_vars PROVE AgentInv'
    OBVIOUS
  <2>1. AgentTypeOK /\ LinesInv /\ AtWork /\ PidInv /\ MountInv /\ AttributedRight
    BY DEF AgentInv, Accounted, LinesInv
  <2>2. AgentTypeOK'
    BY <2>1, TypeStep
  <2>3. LinesInv' /\ AtWork' /\ PidInv' /\ AttributedRight' /\ MountInv'
    BY <2>1, <2>2, LinesStep, WorkStep, PidStep, AttributedStep, MountStep
  <2> QED BY <2>3 DEF AgentInv, LinesInv
<1> QED BY <1>1, <1>2, PTL DEF Spec

\* Every line SystemTap printed is in one place, and goes to a report file at
\* most once (Accounted).
THEOREM LinesAccounted == Spec => []Accounted
<1>1. AgentInv => Accounted
  BY DEF AgentInv
<1> QED BY <1>1, AgentCorrect, PTL

\* Operations are counted for the job that performed them (AttributedRight).
THEOREM OperationsAttributed == Spec => []AttributedRight
<1>1. AgentInv => AttributedRight
  BY DEF AgentInv
<1> QED BY <1>1, AgentCorrect, PTL

\* A line of a volume that is mounted is dropped only while it has been mounted
\* for less than DeviceExpiry, or than reading the mounts takes, give or take
\* the time by which the Timer thread stored its map too late (MountsNoticed).
THEOREM MountsAreNoticed == Spec => MountsNoticed
<1> DEFINE Soon == \/ main = "device" /\ mountedFor[line.dev] < DeviceExpiry + behind
                   \/ main = "refreshed" /\ mountedFor[line.dev] <= lookFor + behind
                   \/ behind = MaxBehind \/ setBack
           Noticed == main' = "top" /\ main \in {"device", "refreshed"} /\ line.dev \in mounted => Soon
<1>1. AgentInv /\ [Next]_vars => [Noticed]_vars
  <2> SUFFICES ASSUME AgentInv, [Next]_vars, main' = "top", main \in {"device", "refreshed"},
                      line.dev \in mounted, ~ setBack, behind # MaxBehind
               PROVE  Soon
    OBVIOUS
  <2>1. AgentTypeOK /\ AtWork /\ MountInv /\ line.dev \in Devs
    BY LineTyped DEF AgentInv, Accounted
  <2>2. SkipDevice \/ Refreshed
    <3> USE DEF nodeVars, mainVars, loopVars, pidVars, mapVars, lookVars, writeVars, timerVars
    <3> QED BY DEF Next, Main, Timer, Node, Restart, GiveUp, CheckAlive, ReadLine, ReadEnd, NoOutput, WriteJob,
         WriteFails, WriteDone, KnownDevice, RefreshDevices, StoreDevices, FindJob, Count, TimerReads, TimerStores,
         Output, Tick, Change, Die, SetBack, Exit, Start, Mount, vars
  <2>3. behind < MaxBehind
    BY <2>1, AgesTyped
  <2>4. CASE SkipDevice
    <3>1. main = "device" /\ line.dev \in mounted \ deviceMap /\ Recent(line.dev)
      BY <2>4 DEF SkipDevice
    <3>2. mountedFor[line.dev] <= nonNFSAge[line.dev] + behind
      BY <2>1, <2>3, <3>1, MountInvIs DEF KnownInv
    <3>3. nonNFSAge[line.dev] \in Int /\ nonNFSAge[line.dev] < DeviceExpiry
      BY <2>1, <3>1, AgesTyped DEF Recent
    <3> QED BY <2>1, <3>1, <3>2, <3>3, AgesTyped
  <2>5. CASE Refreshed
    <3>1. main = "refreshed" /\ line.dev \in mounted \ deviceMap
      BY <2>5 DEF Refreshed
    <3> QED BY <2>1, <2>3, <3>1, MountInvIs DEF LookInv
  <2> QED BY <2>2, <2>4, <2>5
<1> QED BY <1>1, AgentCorrect, PTL DEF Spec, MountsNoticed
=============================================================================
