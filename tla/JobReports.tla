----------------------------- MODULE JobReports -----------------------------
(***************************************************************************)
(* The job report files, in a directory the compute agents of all nodes    *)
(* share: writeJobStatistics() of elim.netapp_compute, seen from the       *)
(* files.  An agent looks whether the file exists, opens it for appending, *)
(* which creates it, and what it wrote reaches the file when it is closed. *)
(*                                                                         *)
(* Definitions called Mistaken... are not used: each is a plausible error  *)
(* in the definition below it, to show that the properties detect it.      *)
(***************************************************************************)
EXTENDS Naturals, Sequences, FiniteSets, Functions

CONSTANTS
  Agents, Jobs,
  Nodes,            \* job -> the agents of the nodes it runs on
  Volumes,          \* what operations are performed on
  Works,            \* sets of volumes an agent may report at a time
  MaxTime,          \* bound of the clock
  MaxLines,         \* bound: no more is written once the reports have that many,
                    \* with the headers that are missing
  MaxAbandoned,     \* bound: how many files agents leave empty
  Header, NoFile, NULL

\* A timestamp and the volume lines under it; each stands for one operation.
Entry == [at : Nat, ops : SUBSET Volumes]

ASSUME ReportsAssumption ==
  /\ Nodes \in [Jobs -> SUBSET Agents]
  /\ Works \subseteq SUBSET Volumes
  /\ MaxTime \in Nat /\ MaxLines \in Nat /\ MaxAbandoned \in Nat
  /\ Header \notin Entry
  /\ NoFile \notin Seq(Entry \cup {Header})
  /\ NULL \notin [job : Jobs, at : Nat, fileExists : BOOLEAN, open : BOOLEAN]

VARIABLES
  now,          \* time.time()
  report,       \* job -> the lines of its file, or NoFile
  mtime,        \* job -> when the file was last written to
  writer,       \* agent -> the file it is busy with, or NULL
  abandoned     \* history: jobs whose file an agent left empty

reportVars == <<now, report, mtime, writer, abandoned>>

ReportsInit ==
  /\ now = 0
  /\ report = [j \in Jobs |-> NoFile] /\ mtime = [j \in Jobs |-> 0]
  /\ writer = [a \in Agents |-> NULL] /\ abandoned = {}

MistakenFileExists(j) == FALSE
FileExists(j) == report[j] # NoFile

LinesOf(j) == IF report[j] = NoFile THEN 0 ELSE Len(report[j])

\* The timestamp, and os.path.exists().  (The agent takes one timestamp for all
\* the jobs it writes at a time.  For a later one of them this is a Look that
\* took long: with one agent to a job nothing happens to its file meanwhile.)
Look(a, j) ==
  /\ writer[a] = NULL /\ a \in Nodes[j]
  /\ SumFunction([k \in Jobs |-> LinesOf(k)]) + Cardinality(abandoned) < MaxLines
  /\ writer' = [writer EXCEPT ![a] =
       [job |-> j, at |-> now, fileExists |-> FileExists(j), open |-> FALSE]]
  /\ UNCHANGED <<now, report, mtime, abandoned>>

\* open(filepath, 'a').
OpenReport(a) ==
  /\ writer[a] # NULL /\ ~writer[a].open
  /\ writer' = [writer EXCEPT ![a].open = TRUE]
  /\ LET j == writer[a].job IN
       IF report[j] = NoFile
         THEN report' = [report EXCEPT ![j] = << >>] /\ mtime' = [mtime EXCEPT ![j] = now]
         ELSE UNCHANGED <<report, mtime>>
  /\ UNCHANGED <<now, abandoned>>

\* f.close(): a header if the file did not exist, and the entry.
CloseReport(a) ==
  /\ writer[a] # NULL /\ writer[a].open
  /\ LET w == writer[a] IN
       /\ \E ops \in Works :
            report' = [report EXCEPT ![w.job] =
              @ \o (IF w.fileExists THEN << >> ELSE <<Header>>) \o <<[at |-> w.at, ops |-> ops]>>]
       /\ mtime' = [mtime EXCEPT ![w.job] = now]
  /\ writer' = [writer EXCEPT ![a] = NULL]
  /\ UNCHANGED <<now, abandoned>>

\* The agent is killed, or the write fails.
Abandon(a) ==
  /\ writer[a] # NULL
  /\ report[writer[a].job] = << >> => Cardinality(abandoned) < MaxAbandoned
  /\ writer' = [writer EXCEPT ![a] = NULL]
  /\ abandoned' = (IF report[writer[a].job] = << >> THEN abandoned \cup {writer[a].job}
                                                    ELSE abandoned)
  /\ UNCHANGED <<now, report, mtime>>

ReportsTick ==
  /\ now < MaxTime /\ now' = now + 1
  /\ UNCHANGED <<report, mtime, writer, abandoned>>

ReportsNext ==
  \/ \E a \in Agents : \/ \E j \in Jobs : Look(a, j)
                       \/ OpenReport(a) \/ CloseReport(a) \/ Abandon(a)
  \/ ReportsTick

ReportsSpec == ReportsInit /\ [][ReportsNext]_reportVars
-----------------------------------------------------------------------------
OneNode(j) == \A a, b \in Nodes[j] : a = b

ReportsTypeOK ==
  /\ now \in Nat
  /\ report \in [Jobs -> Seq(Entry \cup {Header}) \cup {NoFile}]
  /\ mtime \in [Jobs -> Nat]
  /\ writer \in [Agents -> [job : Jobs, at : Nat, fileExists : BOOLEAN, open : BOOLEAN] \cup {NULL}]
  /\ abandoned \subseteq Jobs

\* What the hot job detector takes for granted: one header, which is the first
\* line, and timestamps that increase towards the end of the file.
WellFormed(lines) ==
  \A i \in 1 .. Len(lines) :
    /\ lines[i] = Header <=> i = 1
    /\ \A k \in 2 .. i : i > 1 => lines[k].at <= lines[i].at

\* The report of a job that runs on one node is well formed whenever it is
\* read, unless the agent was killed between creating the file and writing to
\* it.  (Two nodes may both find that the file does not exist.)
ReportsWellFormed ==
  /\ ReportsTypeOK
  /\ \A j \in Jobs :
       OneNode(j) /\ j \notin abandoned /\ report[j] # NoFile => WellFormed(report[j])

\* Why: an agent that is about to write the header writes the first line.
WriterHonest(a) ==
  LET w == writer[a] IN
  w # NULL =>
    /\ a \in Nodes[w.job] /\ w.at <= now
    /\ w.open => report[w.job] # NoFile
    /\ OneNode(w.job) /\ w.job \notin abandoned =>
         /\ w.fileExists => report[w.job] # NoFile /\ Len(report[w.job]) >= 1
         /\ ~w.fileExists => report[w.job] = (IF w.open THEN << >> ELSE NoFile)
         /\ report[w.job] # NoFile =>
              \A i \in 2 .. Len(report[w.job]) : report[w.job][i].at <= w.at

\* Every timestamp is past, and a file of one node that is empty is about to
\* get its header.
ReportsPast ==
  \A j \in Jobs : OneNode(j) /\ j \notin abandoned /\ report[j] # NoFile =>
    /\ \A i \in 2 .. Len(report[j]) : report[j][i].at <= now
    /\ report[j] = << >> =>
         \E a \in Agents : writer[a] # NULL /\ writer[a].job = j /\ writer[a].open
                           /\ ~writer[a].fileExists

ReportsInv == ReportsWellFormed /\ (\A a \in Agents : WriterHonest(a)) /\ ReportsPast
=============================================================================
