--------------------------- MODULE HotJobDetector ---------------------------
(***************************************************************************)
(* netapp_lsf_hot_job_detector.py: a loop that judges the counter files    *)
(* which changed since the last turn, and names the jobs whose report      *)
(* files say that they worked on an overloaded filer, aggregate or volume. *)
(* Monitors write the counter files and agents the reports at any time.    *)
(*                                                                         *)
(* Definitions called Mistaken... are not used: each is a plausible error  *)
(* in the definition below it, to show that the properties detect it.      *)
(***************************************************************************)
EXTENDS JobReports, Integers, FiniteSetsExt

CONSTANTS
  Filers, Names, Aggrs,
  Docs,             \* filer -> documents the monitor may write
  globalThresholds, \* metric -> limit; -1 stands for none
  targetThresholds, \* filer or <<filer, volume>> -> metric -> limit or NULL
  Window,           \* numSeconds
  NumTop,           \* num_top_jobs_to_report
  MaxWrites,        \* bound: how often the monitor writes each file
  Torn              \* a file that is not written in full

VolumeMetrics == {"avglatency", "availinodes", "availsize"}
Metrics == VolumeMetrics \cup {"maxdiskb", "domain"}

\* What ElementTree finds in a document.
Doc == [aggrs : [Aggrs -> [maxdiskb : Int, volumes : SUBSET Names]],
        counters : [Names -> [VolumeMetrics -> Int]],
        domains : SUBSET Int]

\* A target of an alert.
Target == [level : {"filer"}, filer : Filers, name : {NULL}]
          \cup [level : {"aggr"}, filer : Filers, name : Aggrs]
          \cup [level : {"volume"}, filer : Filers, name : Names]

ASSUME DetectorAssumption ==
  /\ IsFiniteSet(Jobs) /\ IsFiniteSet(Filers) /\ IsFiniteSet(Names)
  /\ Volumes = Filers \X Names
  /\ \A f \in Filers : Docs[f] \subseteq Doc
  /\ DOMAIN globalThresholds = Metrics
  /\ DOMAIN targetThresholds = Filers \cup Volumes
  \* A configured Max_DiskBusy of a target is never recognised: its name is
  \* compared with the method "threshold.lower" instead of its result.
  /\ \A t \in DOMAIN targetThresholds : targetThresholds[t]["maxdiskb"] = NULL
  /\ Window \in Nat /\ NumTop \in Nat /\ MaxWrites \in Nat
  /\ Torn # NoFile /\ \A f \in Filers : Torn \notin Docs[f] /\ NoFile \notin Docs[f]
  /\ NULL \notin Nat /\ NULL \notin [Volumes -> Nat]

VARIABLES
  xml, xmlTime,         \* filer -> document, Torn or NoFile; its modification time
  det,                  \* where the detector stands
  filesLastModified,    \* filer -> modification time that was seen, or NULL
  filesToCheck,
  errors,               \* the targets with error messages
  aggrOf,               \* volumeToContainingAggregateMap, NULL where it has none
  currentTime,          \* when the reports were listed
  toRead,               \* reports that were modified recently
  consolidated,         \* job -> volume -> operations; NULL: not read
  topJobs,              \* what the report says: [target, job, count]
  judged,               \* history: filer -> modification time of what was judged
  listed                \* history: the reports when they were listed

xmlVars == <<xml, xmlTime>>
detVars == <<det, filesLastModified, filesToCheck, errors, aggrOf, currentTime, toRead,
             consolidated, topJobs, judged, listed>>
vars == <<reportVars, xmlVars, detVars>>

Init ==
  /\ ReportsInit
  /\ xml = [f \in Filers |-> NoFile] /\ xmlTime = [f \in Filers |-> 0]
  /\ det = "scan" /\ filesLastModified = [f \in Filers |-> NULL] /\ filesToCheck = {}
  /\ errors = {} /\ aggrOf = [v \in Volumes |-> NULL]
  /\ currentTime = 0 /\ toRead = {} /\ consolidated = [j \in Jobs |-> NULL] /\ topJobs = {}
  /\ judged = [f \in Filers |-> 0] /\ listed = [j \in Jobs |-> NoFile]
-----------------------------------------------------------------------------
(***************************************************************************)
(* checkFiles().                                                           *)
(***************************************************************************)
\* The volume's own limit comes before the filer's, and that before the global.
Limit(m, f, n) ==
  IF n # NULL /\ targetThresholds[<<f, n>>][m] # NULL THEN targetThresholds[<<f, n>>][m]
  ELSE IF targetThresholds[f][m] # NULL THEN targetThresholds[f][m]
  ELSE globalThresholds[m]

\* Bytes, taken for kilobytes.
Value(m, n) == IF m = "availsize" THEN n \div 1024 ELSE n

Exceeds(m, value, limit) ==
  /\ limit # -1
  /\ IF m \in {"availinodes", "availsize"} THEN Value(m, value) < limit ELSE value > limit

VolumesOf(d) == UNION {d.aggrs[g].volumes : g \in Aggrs}

Errors(f, d) ==
  {[level |-> "volume", filer |-> f, name |-> n] :
     n \in {n \in VolumesOf(d) : \E m \in VolumeMetrics : Exceeds(m, d.counters[n][m], Limit(m, f, n))}}
  \cup
  {[level |-> "aggr", filer |-> f, name |-> g] :
     g \in {g \in Aggrs : \E n \in d.aggrs[g].volumes :
                            Exceeds("maxdiskb", d.aggrs[g].maxdiskb, Limit("maxdiskb", f, n))}}
  \cup
  {[level |-> "filer", filer |-> f, name |-> NULL] :
     x \in {x \in d.domains : Exceeds("domain", x, Limit("domain", f, NULL))}}

\* The files that changed since their modification time was last seen, new ones
\* included.
MistakenChanged(f) == filesLastModified[f] = NULL    \* the new ones only
Changed(f) == filesLastModified[f] # xmlTime[f]

Scan ==
  /\ det = "scan"
  /\ filesToCheck' = {f \in Filers : xml[f] # NoFile /\ Changed(f)}
  /\ filesLastModified' = [f \in Filers |-> IF xml[f] = NoFile THEN NULL ELSE xmlTime[f]]
  /\ det' = "check"
  /\ UNCHANGED <<reportVars, xmlVars, errors, aggrOf, currentTime, toRead, consolidated, topJobs,
                 judged, listed>>

\* ElementTree.parse() raises ParseError for a file that is not whole: nobody
\* catches it.
CheckFile ==
  /\ det = "check"
  /\ \E f \in filesToCheck :
       IF xml[f] = Torn
         THEN det' = "dead" /\ UNCHANGED <<filesToCheck, errors, aggrOf, judged>>
         ELSE LET d == xml[f] IN
              /\ errors' = errors \cup Errors(f, d)
              /\ aggrOf' = [v \in Volumes |->
                   IF v[1] = f /\ v[2] \in VolumesOf(d)
                     THEN CHOOSE g \in Aggrs : v[2] \in d.aggrs[g].volumes ELSE aggrOf[v]]
              /\ filesToCheck' = filesToCheck \ {f}
              /\ judged' = [judged EXCEPT ![f] = xmlTime[f]]
              /\ UNCHANGED det
  /\ UNCHANGED <<reportVars, xmlVars, filesLastModified, currentTime, toRead, consolidated,
                 topJobs, listed>>

MistakenAfterCheck == filesLastModified' = [f \in Filers |-> IF xml[f] = NoFile THEN NULL ELSE xmlTime[f]]
AfterCheck == UNCHANGED filesLastModified

NoErrors ==
  /\ det = "check" /\ filesToCheck = {} /\ errors = {}
  /\ det' = "sleep" /\ AfterCheck
  /\ UNCHANGED <<reportVars, xmlVars, filesToCheck, errors, aggrOf, currentTime, toRead,
                 consolidated, topJobs, judged, listed>>
-----------------------------------------------------------------------------
(***************************************************************************)
(* findAffectingJobs() and findTopJobs().                                  *)
(***************************************************************************)
\* The reports of the last two minutes.
MistakenRecent(j) == now - mtime[j] > Window
Recent(j) == now - mtime[j] < Window

ListReports ==
  /\ det = "check" /\ filesToCheck = {} /\ errors # {}
  /\ currentTime' = now
  /\ toRead' = {j \in Jobs : report[j] # NoFile /\ Recent(j)}
  /\ listed' = report
  /\ det' = "read" /\ AfterCheck
  /\ UNCHANGED <<reportVars, xmlVars, filesToCheck, errors, aggrOf, consolidated, topJobs, judged>>

MistakenSince == 0
Since == currentTime - Window

\* The first line is not looked at; a header in another is an error.
Invalid(lines) == \E i \in 2 .. Len(lines) : lines[i] = Header

Consolidate(lines) ==
  [v \in Volumes |->
     Cardinality({i \in 2 .. Len(lines) : lines[i].at >= Since /\ v \in lines[i].ops})]

ReadReport ==
  /\ det = "read"
  /\ \E j \in toRead :
       IF Invalid(report[j])
         THEN det' = "dead" /\ UNCHANGED <<toRead, consolidated>>
         ELSE /\ consolidated' = [consolidated EXCEPT ![j] = Consolidate(report[j])]
              /\ toRead' = toRead \ {j}
              /\ UNCHANGED det
  /\ UNCHANGED <<reportVars, xmlVars, filesLastModified, filesToCheck, errors, aggrOf, currentTime,
                 topJobs, judged, listed>>

\* The volumes of the target that the job worked on.
On(j, t) ==
  {v \in Volumes :
     /\ consolidated[j] # NULL /\ consolidated[j][v] > 0 /\ v[1] = t.filer
     /\ t.level = "volume" => v[2] = t.name
     /\ t.level = "aggr" => aggrOf[v] = t.name}

Total(counts, vs) == MapThenSumSet(LAMBDA v : counts[v], vs)

\* A job is among the affecting jobs once for each of these volumes, and each
\* time all its operations on the target are added.
Count(j, t) == Cardinality(On(j, t)) * Total(consolidated[j], On(j, t))

\* The NumTop first of the sorted list, in any order among equals.
IsTop(js, t) ==
  LET all == {j \in Jobs : On(j, t) # {}} IN
  /\ js \subseteq all /\ Cardinality(js) = Min({NumTop, Cardinality(all)})
  /\ \A j \in js, k \in all \ js : Count(j, t) >= Count(k, t)

Publish ==
  /\ det = "read" /\ toRead = {}
  /\ \E top \in [errors -> SUBSET Jobs] :
       /\ \A t \in errors : IsTop(top[t], t)
       /\ topJobs' = UNION {{[target |-> t, job |-> j, count |-> Count(j, t)] : j \in top[t]} : t \in errors}
  /\ consolidated' = [j \in Jobs |-> NULL] /\ det' = "sleep"
  /\ UNCHANGED <<reportVars, xmlVars, filesLastModified, filesToCheck, errors, aggrOf, currentTime,
                 toRead, judged, listed>>

\* The next turn of the loop, which forgets what the last one found.
Wake ==
  /\ det = "sleep" /\ det' = "scan"
  /\ errors' = {} /\ topJobs' = {} /\ currentTime' = 0 /\ listed' = [j \in Jobs |-> NoFile]
  /\ UNCHANGED <<reportVars, xmlVars, filesLastModified, filesToCheck, aggrOf, toRead, consolidated,
                 judged>>

Detect == Scan \/ CheckFile \/ NoErrors \/ ListReports \/ ReadReport \/ Publish \/ Wake
-----------------------------------------------------------------------------
(***************************************************************************)
(* The monitor: printToXML() truncates a file and fills it.                *)
(***************************************************************************)
Truncate(f) ==
  /\ xml[f] # Torn /\ xmlTime[f] < 2 * MaxWrites
  /\ xml' = [xml EXCEPT ![f] = Torn] /\ xmlTime' = [xmlTime EXCEPT ![f] = @ + 1]
  /\ UNCHANGED <<reportVars, detVars>>

Fill(f) ==
  /\ xml[f] = Torn
  /\ \E d \in Docs[f] : xml' = [xml EXCEPT ![f] = d]
  /\ xmlTime' = [xmlTime EXCEPT ![f] = @ + 1]
  /\ UNCHANGED <<reportVars, detVars>>

Monitor == \E f \in Filers : Truncate(f) \/ Fill(f)

\* What happens once the detector is dead is of no interest.
Others == (ReportsNext /\ UNCHANGED <<xmlVars, detVars>>) \/ Monitor

Next == Detect \/ (det # "dead" /\ Others)
Spec == Init /\ [][Next]_vars

\* The detector runs, and a file that was truncated is filled.
FairSpec == Spec /\ WF_vars(Detect) /\ \A f \in Filers : WF_vars(det # "dead" /\ Fill(f))
-----------------------------------------------------------------------------
DetectorTypeOK ==
  /\ xml \in [Filers -> (UNION {Docs[f] : f \in Filers}) \cup {Torn, NoFile}]
  /\ \A f \in Filers : xml[f] \in Docs[f] \cup {Torn, NoFile}
  /\ xmlTime \in [Filers -> Nat]
  /\ det \in {"scan", "check", "read", "sleep", "dead"}
  /\ filesLastModified \in [Filers -> Nat \cup {NULL}]
  /\ filesToCheck \subseteq Filers /\ errors \subseteq Target
  /\ aggrOf \in [Volumes -> Aggrs \cup {NULL}]
  /\ currentTime \in Nat /\ toRead \subseteq Jobs
  /\ consolidated \in [Jobs -> [Volumes -> Nat] \cup {NULL}]
  /\ topJobs \subseteq [target : Target, job : Jobs, count : Nat]
  /\ judged \in [Filers -> Nat]
  /\ listed \in [Jobs -> Seq(Entry \cup {Header}) \cup {NoFile}]

\* How often the lines say that the job worked on the target within the window:
\* those that were written when the reports were listed, and those there are
\* now.
Holds(v, t, aggrs) ==
  /\ v[1] = t.filer
  /\ t.level = "volume" => v[2] = t.name
  /\ t.level = "aggr" => aggrs[v] = t.name
Entries(lines, from) == {i \in 1 .. Len(lines) : lines[i] # Header /\ lines[i].at >= from}
Performed(lines, v, from) == {i \in Entries(lines, from) : v \in lines[i].ops}
Operations(lines, t, from, aggrs) ==
  IF lines = NoFile THEN 0
  ELSE Cardinality({p \in Entries(lines, from) \X Volumes :
                      p[2] \in lines[p[1]].ops /\ Holds(p[2], t, aggrs)})

AtLeast(j, t) == Operations(listed[j], t, currentTime - Window + 1, aggrOf)
AtMost(j, t)  == Operations(report[j], t, currentTime - Window, aggrOf)

\* What the report says is true, although agents went on writing between the
\* listing and the reading of the files: every job it names did work on the
\* target within the window; what it says of a volume is the number of its
\* operations; and no job that did more on the volume is left out for it.
Told(t) == {x \in topJobs : x.target = t}
TellsTrue ==
  /\ \A x \in topJobs :
       /\ AtMost(x.job, x.target) > 0
       /\ x.target.level = "volume" /\ OneNode(x.job) /\ x.job \notin abandoned =>
            x.count \in AtLeast(x.job, x.target) .. AtMost(x.job, x.target)
  /\ det = "sleep" =>
       \A t \in errors, j \in Jobs :
         AtLeast(j, t) > 0 /\ OneNode(j) /\ j \notin abandoned =>
           \/ \E x \in Told(t) : x.job = j
           \/ /\ Cardinality(Told(t)) = NumTop
              /\ t.level = "volume" => \A x \in Told(t) : x.count >= AtLeast(j, t)

\* A file that the next scan would pass over has been judged as it is now,
\* although the time of its modification was taken before it was read.
NothingMissed ==
  \A f \in Filers :
    filesLastModified[f] = xmlTime[f] /\ f \notin filesToCheck => judged[f] = xmlTime[f]

\* Why: what the detector remembers of each file is not ahead of the file, ...
FilesSeen ==
  /\ \A f \in Filers :
       /\ filesLastModified[f] # NULL => filesLastModified[f] <= xmlTime[f]
       /\ filesLastModified[f] # NULL /\ f \notin filesToCheck => judged[f] >= filesLastModified[f]
       /\ judged[f] <= xmlTime[f]
       /\ f \in filesToCheck => xml[f] # NoFile
  /\ det \in {"scan", "sleep", "read"} => filesToCheck = {}

Continues(long, short) ==
  Len(short) <= Len(long) /\ \A i \in 1 .. Len(short) : short[i] = long[i]

\* ... a report is modified no earlier than its last entry was timed, and only
\* gets longer after it was listed, ...
ReportsGrow ==
  \A j \in Jobs :
    /\ mtime[j] <= now
    /\ report[j] # NoFile =>
         \A i \in 1 .. Len(report[j]) : report[j][i] # Header => report[j][i].at <= mtime[j]
    /\ listed[j] # NoFile =>
         report[j] # NoFile /\ Continues(report[j], listed[j])

\* ... and what was read of it lies between what it held when it was listed and
\* what it holds now; a report with operations in the window is not passed over.
ReportsCounted ==
  /\ \A j \in Jobs :
       consolidated[j] # NULL =>
         /\ report[j] # NoFile
         /\ \A v \in Volumes :
              /\ consolidated[j][v] <= Cardinality(Performed(report[j], v, Since))
              /\ OneNode(j) /\ j \notin abandoned /\ listed[j] # NoFile =>
                   consolidated[j][v] >= Cardinality(Performed(listed[j], v, Since + 1))
  /\ det = "read" =>
       \A j \in Jobs : listed[j] # NoFile /\ Entries(listed[j], Since + 1) # {} =>
         j \in toRead \/ consolidated[j] # NULL
  /\ det = "read" => \A j \in toRead : report[j] # NoFile
  /\ det \in {"scan", "check", "sleep"} => \A j \in Jobs : consolidated[j] = NULL
  /\ det \in {"scan", "check", "read", "dead"} => topJobs = {}

DetectorInv ==
  /\ ReportsInv /\ DetectorTypeOK /\ TellsTrue
  /\ NothingMissed /\ FilesSeen /\ ReportsGrow /\ ReportsCounted
=============================================================================
