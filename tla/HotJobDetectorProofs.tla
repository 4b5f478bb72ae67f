------------------------ MODULE HotJobDetectorProofs ------------------------
(***************************************************************************)
(* ReportsInv of JobReports is inductive, for every set of agents, jobs    *)
(* and volumes: the report of a job on one node is always well formed.     *)
(***************************************************************************)
EXTENDS HotJobDetector, FiniteSetTheorems, WellFoundedInduction, TLAPS

Lines == Seq(Entry \cup {Header})
Writer == [job : Jobs, at : Nat, fileExists : BOOLEAN, open : BOOLEAN]

LEMMA ShortSequences ==
  ASSUME NEW S
  PROVE  << >> \in Seq(S) /\ \A x \in S : <<x>> \in Seq(S)
  OBVIOUS

LEMMA EmptyReport == << >> \in Lines /\ <<Header>> \in Lines /\ << >> # NoFile
  <1>1. << >> \in Lines /\ <<Header>> \in Lines
    BY ShortSequences DEF Lines
  <1>2. NoFile \notin Lines
    BY ReportsAssumption DEF Lines
  <1> QED BY <1>1, <1>2

\* What an agent appends to a file that was there.
LEMMA AppendWellFormed ==
  ASSUME NEW s \in Lines, NEW e \in Entry, s # << >>, WellFormed(s),
         \A i \in 2 .. Len(s) : s[i].at <= e.at
  PROVE  WellFormed(s \o << >> \o <<e>>)
  <1> DEFINE l == s \o << >> \o <<e>>
  <1>1. /\ Len(l) = Len(s) + 1 /\ Len(s) \in Nat /\ Len(s) >= 1
        /\ l[Len(s) + 1] = e
        /\ \A i \in 1 .. Len(s) : l[i] = s[i]
    BY DEF Lines
  <1>2. e # Header /\ e.at \in Nat
    BY ReportsAssumption DEF Entry
  <1> HIDE DEF l
  <1>3. ASSUME NEW i \in 1 .. Len(s) + 1
        PROVE  /\ l[i] = Header <=> i = 1
               /\ \A k \in 2 .. i : i > 1 => l[k].at <= l[i].at
    <2>1. CASE i \in 1 .. Len(s)
      BY <1>1, <2>1 DEF WellFormed
    <2>2. CASE i = Len(s) + 1
      BY <1>1, <1>2, <2>2
    <2> QED BY <1>1, <2>1, <2>2
  <1>4. WellFormed(l)
    BY <1>1, <1>3 DEF WellFormed
  <1> QED BY <1>4 DEF l

\* What it writes to a file it created.
LEMMA FirstWellFormed ==
  ASSUME NEW e \in Entry
  PROVE  WellFormed(<< >> \o <<Header>> \o <<e>>)
  <1> DEFINE l == << >> \o <<Header>> \o <<e>>
  <1>1. Len(l) = 2 /\ l[1] = Header /\ l[2] = e
    OBVIOUS
  <1>2. e # Header /\ e.at <= e.at
    BY ReportsAssumption DEF Entry
  <1> HIDE DEF l
  <1>3. WellFormed(l)
    BY <1>1, <1>2 DEF WellFormed
  <1> QED BY <1>3 DEF l

LEMMA ReportsInitOK == ReportsInit => ReportsInv
  <1> SUFFICES ASSUME ReportsInit PROVE ReportsInv
    OBVIOUS
  <1>1. ReportsTypeOK
    BY DEF ReportsInit, ReportsTypeOK
  <1>2. \A j \in Jobs : report[j] = NoFile
    BY DEF ReportsInit
  <1>3. \A a \in Agents : writer[a] = NULL
    BY DEF ReportsInit
  <1> QED BY <1>1, <1>2, <1>3
      DEF ReportsInv, ReportsWellFormed, WriterHonest, ReportsPast

\* A busy agent, and the one agent of a job on one node.
LEMMA Busy ==
  ASSUME ReportsInv, NEW a \in Agents, writer[a] # NULL
  PROVE  /\ writer[a] \in Writer /\ writer[a].job \in Jobs
         /\ writer[a].at \in Nat /\ writer[a].at <= now /\ now \in Nat
         /\ a \in Nodes[writer[a].job]
         /\ writer[a].open => report[writer[a].job] \in Lines
  BY DEF ReportsInv, ReportsWellFormed, ReportsTypeOK, WriterHonest, Writer, Lines

LEMMA Alone ==
  ASSUME ReportsInv, NEW a \in Agents, NEW b \in Agents, NEW j \in Jobs, OneNode(j),
         writer[b] # NULL, writer[b].job = j, a \in Nodes[j]
  PROVE  a = b
  BY Busy DEF OneNode

\* An agent stays honest that does nothing, if nobody else touches the file of
\* its job, should that run on one node.
LEMMA HonestKept ==
  ASSUME ReportsInv, NEW b \in Agents, writer'[b] = writer[b],
         now' = now, abandoned' = abandoned,
         writer[b] # NULL /\ writer[b].open => report'[writer[b].job] # NoFile,
         writer[b] # NULL /\ OneNode(writer[b].job)
           => report'[writer[b].job] = report[writer[b].job]
  PROVE  WriterHonest(b)'
  <1>1. WriterHonest(b)
    BY DEF ReportsInv
  <1> QED BY <1>1 DEF WriterHonest, OneNode

LEMMA LookOK ==
  ASSUME ReportsInv, NEW a \in Agents, NEW j \in Jobs, Look(a, j)
  PROVE  ReportsInv'
  <1> DEFINE w == [job |-> j, at |-> now, fileExists |-> FileExists(j), open |-> FALSE]
  <1>1. /\ writer[a] = NULL /\ a \in Nodes[j] /\ writer' = [writer EXCEPT ![a] = w]
        /\ now' = now /\ report' = report /\ mtime' = mtime /\ abandoned' = abandoned
    BY DEF Look
  <1>2. ReportsTypeOK
    BY DEF ReportsInv, ReportsWellFormed
  <1>3. w \in Writer
    BY <1>2 DEF ReportsTypeOK, Writer, FileExists
  <1>4. writer'[a] = w /\ w # NULL /\ \A b \in Agents : b # a => writer'[b] = writer[b]
    BY <1>1, <1>2, <1>3, ReportsAssumption DEF ReportsTypeOK, Writer
  <1>5. w.job = j /\ w.at = now /\ w.fileExists = FileExists(j) /\ w.open = FALSE
    OBVIOUS
  <1> HIDE DEF w
  <1>6. ReportsWellFormed'
    <2>1. ReportsTypeOK'
      BY <1>1, <1>2, <1>3 DEF ReportsTypeOK, Writer
    <2> QED BY <1>1, <2>1 DEF ReportsInv, ReportsWellFormed, OneNode
  <1>7. ASSUME NEW b \in Agents PROVE WriterHonest(b)'
    <2>1. CASE b # a
      BY <1>1, <1>4, <2>1 DEF ReportsInv, WriterHonest, OneNode
    <2>2. CASE b = a
      <3>1. ASSUME OneNode(j), j \notin abandoned, report[j] # NoFile PROVE report[j] # << >>
        BY <1>1, <3>1, Alone DEF ReportsInv, ReportsPast
      <3>2. report[j] # NoFile => report[j] \in Lines
        BY <1>2 DEF ReportsTypeOK, Lines
      <3>3. ASSUME OneNode(j), j \notin abandoned, report[j] # NoFile PROVE Len(report[j]) >= 1
        BY <3>1, <3>2, <3>3 DEF Lines
      <3>4. OneNode(j) /\ j \notin abandoned /\ report[j] # NoFile
              => \A i \in 2 .. Len(report[j]) : report[j][i].at <= now
        BY DEF ReportsInv, ReportsPast
      <3>5. now <= now
        BY <1>2 DEF ReportsTypeOK
      <3>6. OneNode(j) /\ j \notin abandoned =>
              /\ w.fileExists => report[j] # NoFile /\ Len(report[j]) >= 1
              /\ ~w.fileExists => report[j] = NoFile
              /\ report[j] # NoFile => \A i \in 2 .. Len(report[j]) : report[j][i].at <= w.at
        BY <1>5, <3>3, <3>4 DEF FileExists
      <3> QED BY <1>1, <1>4, <1>5, <2>2, <3>5, <3>6 DEF WriterHonest, OneNode
    <2> QED BY <2>1, <2>2
  <1>8. ReportsPast'
    <2>1. \A k \in Jobs, b \in Agents :
            writer[b] # NULL /\ writer[b].job = k /\ writer[b].open /\ ~writer[b].fileExists
            => writer'[b] = writer[b]
      BY <1>1, <1>4
    <2> QED BY <1>1, <2>1 DEF ReportsInv, ReportsPast, OneNode
  <1> QED BY <1>6, <1>7, <1>8 DEF ReportsInv

LEMMA OpenReportOK ==
  ASSUME ReportsInv, NEW a \in Agents, OpenReport(a)
  PROVE  ReportsInv'
  <1> DEFINE j == writer[a].job
             w == [writer[a] EXCEPT !.open = TRUE]
  <1>1. /\ writer[a] # NULL /\ ~writer[a].open /\ writer' = [writer EXCEPT ![a] = w]
        /\ now' = now /\ abandoned' = abandoned
        /\ \/ report[j] = NoFile /\ report' = [report EXCEPT ![j] = << >>]
                                 /\ mtime' = [mtime EXCEPT ![j] = now]
           \/ report[j] # NoFile /\ report' = report /\ mtime' = mtime
    BY DEF OpenReport
  <1>2. ReportsTypeOK
    BY DEF ReportsInv, ReportsWellFormed
  <1>3. writer[a] \in Writer /\ j \in Jobs /\ w \in Writer
    BY <1>1, Busy DEF Writer
  <1>4. /\ writer'[a] = w /\ w # NULL /\ \A b \in Agents : b # a => writer'[b] = writer[b]
        /\ w.job = j /\ w.at = writer[a].at /\ w.fileExists = writer[a].fileExists /\ w.open
    BY <1>1, <1>2, <1>3, ReportsAssumption DEF ReportsTypeOK, Writer
  <1>5. << >> \in Lines /\ << >> # NoFile
    BY EmptyReport
  <1>6. \A k \in Jobs : /\ report'[k] # report[k] => k = j /\ report[k] = NoFile /\ report'[k] = << >>
                        /\ report'[j] # NoFile
    BY <1>1, <1>2, <1>3, <1>5 DEF ReportsTypeOK
  <1>7. ReportsTypeOK'
    <2>1. writer' \in [Agents -> Writer \cup {NULL}]
      BY <1>1, <1>2, <1>3 DEF ReportsTypeOK, Writer
    <2>2. report' \in [Jobs -> Lines \cup {NoFile}]
      BY <1>1, <1>2, <1>3, <1>5 DEF ReportsTypeOK, Lines
    <2>3. mtime' \in [Jobs -> Nat]
      BY <1>1, <1>2, <1>3 DEF ReportsTypeOK
    <2> QED BY <1>1, <1>2, <2>1, <2>2, <2>3 DEF ReportsTypeOK, Lines, Writer
  <1> HIDE DEF w
  <1>8. ReportsWellFormed'
    <2>1. WellFormed(<< >>)
      BY DEF WellFormed
    <2> QED BY <1>1, <1>6, <1>7, <2>1 DEF ReportsInv, ReportsWellFormed, OneNode
  <1>9. ASSUME NEW b \in Agents PROVE WriterHonest(b)'
    <2>1. CASE b # a
      <3>1. writer'[b] = writer[b]
        BY <1>4, <2>1
      <3>2. ASSUME writer[b] # NULL, writer[b].job = j, OneNode(j) PROVE FALSE
        BY <1>1, <1>3, <2>1, <3>2, Alone, Busy
      <3>3. writer[b] # NULL => writer[b].job \in Jobs /\ b \in Nodes[writer[b].job]
        BY Busy
      <3>4. writer[b] # NULL /\ writer[b].open => report'[writer[b].job] # NoFile
        BY <1>5, <1>6, <3>3 DEF ReportsInv, WriterHonest
      <3>5. writer[b] # NULL /\ OneNode(writer[b].job) => report'[writer[b].job] = report[writer[b].job]
        BY <1>6, <3>2, <3>3
      <3> QED BY <1>1, <3>1, <3>4, <3>5, HonestKept
    <2>2. CASE b = a
      <3>1. WriterHonest(a)
        BY DEF ReportsInv
      <3>2. a \in Nodes[j] /\ w.at <= now /\ report'[j] # NoFile
        BY <1>1, <1>3, <1>4, <1>6, Busy
      <3>3. ASSUME OneNode(j), j \notin abandoned
            PROVE  IF w.fileExists THEN report'[j] = report[j] /\ Len(report'[j]) >= 1
                                   ELSE report'[j] = << >>
        BY <1>1, <1>3, <1>4, <1>6, <3>1, <3>3 DEF WriterHonest
      <3>4. ASSUME OneNode(j), j \notin abandoned
            PROVE  \A i \in 2 .. Len(report'[j]) : report'[j][i].at <= w.at
        BY <1>4, <1>6, <1>1, <1>3, <3>1, <3>3, <3>4 DEF WriterHonest
      <3> QED BY <1>1, <1>4, <2>2, <3>2, <3>3, <3>4 DEF WriterHonest, OneNode
    <2> QED BY <2>1, <2>2
  <1>10. ReportsPast'
    <2> SUFFICES ASSUME NEW k \in Jobs, OneNode(k), k \notin abandoned, report'[k] # NoFile
                 PROVE  /\ \A i \in 2 .. Len(report'[k]) : report'[k][i].at <= now
                        /\ report'[k] = << >> =>
                             \E b \in Agents : /\ writer'[b] # NULL /\ writer'[b].job = k
                                               /\ writer'[b].open /\ ~writer'[b].fileExists
      BY <1>1 DEF ReportsPast, OneNode
    <2>1. CASE report'[k] # report[k]
      <3>1. k = j /\ report[k] = NoFile /\ report'[k] = << >>
        BY <1>6, <2>1
      <3>2. ~writer[a].fileExists
        BY <1>1, <3>1 DEF ReportsInv, WriterHonest
      <3> QED BY <1>4, <3>1, <3>2
    <2>2. CASE report'[k] = report[k]
      BY <1>1, <1>4, <2>2 DEF ReportsInv, ReportsPast
    <2> QED BY <2>1, <2>2
  <1> QED BY <1>8, <1>9, <1>10 DEF ReportsInv

LEMMA CloseReportOK ==
  ASSUME ReportsInv, NEW a \in Agents, CloseReport(a)
  PROVE  ReportsInv'
  <1> DEFINE w == writer[a]
             j == w.job
             head == IF w.fileExists THEN << >> ELSE <<Header>>
  <1>1. /\ w # NULL /\ w.open /\ writer' = [writer EXCEPT ![a] = NULL]
        /\ now' = now /\ abandoned' = abandoned /\ mtime' = [mtime EXCEPT ![j] = now]
    BY DEF CloseReport
  <1>2. PICK ops \in Works :
          report' = [report EXCEPT ![j] = report[j] \o head \o <<[at |-> w.at, ops |-> ops]>>]
    BY DEF CloseReport
  <1> DEFINE e == [at |-> w.at, ops |-> ops]
             new == report[j] \o head \o <<e>>
  <1>3. ReportsTypeOK
    BY DEF ReportsInv, ReportsWellFormed
  <1>4. /\ w \in Writer /\ j \in Jobs /\ w.at \in Nat /\ w.at <= now /\ now \in Nat
        /\ a \in Nodes[j] /\ report[j] \in Lines
    BY <1>1, Busy
  <1>5. e \in Entry
    BY <1>4, ReportsAssumption DEF Entry
  <1>6. new \in Lines /\ new # << >>
    <2>1. head \in Lines
      BY EmptyReport
    <2>2. <<e>> \in Lines /\ Len(<<e>>) = 1
      BY <1>5 DEF Lines
    <2> HIDE DEF head, e
    <2>3. report[j] \o head \in Lines
      BY <1>4, <2>1 DEF Lines
    <2> DEFINE front == report[j] \o head
               tail == <<e>>
    <2> HIDE DEF front, tail
    <2>4. front \o tail \in Lines /\ Len(front \o tail) = Len(front) + 1 /\ Len(front) \in Nat
      BY <2>2, <2>3 DEF Lines, front, tail
    <2>5. new = front \o tail
      BY DEF front, tail
    <2> HIDE DEF new
    <2> QED BY <2>4, <2>5 DEF Lines
  <1>7. new # NoFile /\ e.at = w.at
    BY <1>6, ReportsAssumption DEF Lines
  <1>8. report'[j] = new /\ \A k \in Jobs : k # j => report'[k] = report[k]
    BY <1>2, <1>3, <1>4 DEF ReportsTypeOK
  <1>9. ASSUME OneNode(j), j \notin abandoned
        PROVE  WellFormed(new) /\ \A i \in 2 .. Len(new) : new[i].at <= w.at
    <2>1. WriterHonest(a)
      BY DEF ReportsInv
    <2>2. CASE w.fileExists
      <3>1. /\ report[j] # << >> /\ WellFormed(report[j])
            /\ \A i \in 2 .. Len(report[j]) : report[j][i].at <= w.at
        BY <1>1, <1>4, <1>9, <2>1, <2>2
        DEF WriterHonest, ReportsInv, ReportsWellFormed, Lines
      <3>2. new = report[j] \o << >> \o <<e>>
        BY <2>2
      <3> HIDE DEF e, new
      <3>3. WellFormed(new)
        BY <1>4, <1>5, <1>7, <3>1, <3>2, AppendWellFormed
      <3>4. /\ Len(new) = Len(report[j]) + 1 /\ new[Len(report[j]) + 1] = e
            /\ \A i \in 1 .. Len(report[j]) : new[i] = report[j][i]
            /\ Len(report[j]) \in Nat
        BY <1>4, <3>2 DEF Lines
      <3>5. \A i \in 2 .. Len(new) : i \in 2 .. Len(report[j]) \/ i = Len(report[j]) + 1
        BY <3>4
      <3> QED BY <1>4, <1>7, <3>1, <3>3, <3>4, <3>5
    <2>3. CASE ~w.fileExists
      <3>1. report[j] = << >>
        BY <1>1, <1>4, <1>9, <2>1, <2>3 DEF WriterHonest
      <3>2. new = << >> \o <<Header>> \o <<e>>
        BY <2>3, <3>1
      <3> HIDE DEF e, new
      <3>3. WellFormed(new)
        BY <1>5, <3>2, FirstWellFormed
      <3>4. Len(new) = 2 /\ new[2] = e
        BY <3>2
      <3> QED BY <1>4, <1>7, <3>3, <3>4
    <2> QED BY <2>2, <2>3
  <1> HIDE DEF new, e, head
  <1>10. ReportsTypeOK'
    <2>1. report' \in [Jobs -> Lines \cup {NoFile}]
      BY <1>2, <1>3, <1>4, <1>6 DEF ReportsTypeOK, Lines, new, e
    <2>2. writer' \in [Agents -> Writer \cup {NULL}]
      BY <1>1, <1>3 DEF ReportsTypeOK, Writer
    <2> QED BY <1>1, <1>3, <1>4, <2>1, <2>2 DEF ReportsTypeOK, Lines, Writer
  <1>11. ReportsWellFormed'
    BY <1>1, <1>4, <1>8, <1>9, <1>10 DEF ReportsInv, ReportsWellFormed, OneNode
  <1>12. writer'[a] = NULL /\ \A b \in Agents : b # a => writer'[b] = writer[b]
    BY <1>1, <1>3 DEF ReportsTypeOK
  <1>13. ASSUME NEW b \in Agents PROVE WriterHonest(b)'
    <2>1. CASE b = a
      BY <1>12, <2>1 DEF WriterHonest
    <2>2. CASE b # a
      <3>1. writer'[b] = writer[b]
        BY <1>12, <2>2
      <3>2. ASSUME writer[b] # NULL, OneNode(writer[b].job) PROVE writer[b].job # j
        BY <1>4, <2>2, <3>2, Alone
      <3>3. writer[b] # NULL => writer[b].job \in Jobs /\ b \in Nodes[writer[b].job]
        BY Busy
      <3>4. writer[b] # NULL /\ writer[b].open => report'[writer[b].job] # NoFile
        BY <1>7, <1>8, <3>3 DEF ReportsInv, WriterHonest
      <3>5. writer[b] # NULL /\ OneNode(writer[b].job) => report'[writer[b].job] = report[writer[b].job]
        BY <1>8, <3>2, <3>3
      <3> QED BY <1>1, <3>1, <3>4, <3>5, HonestKept
    <2> QED BY <2>1, <2>2
  <1>14. ReportsPast'
    <2> SUFFICES ASSUME NEW k \in Jobs, OneNode(k), k \notin abandoned, report'[k] # NoFile
                 PROVE  /\ \A i \in 2 .. Len(report'[k]) : report'[k][i].at <= now
                        /\ report'[k] = << >> =>
                             \E b \in Agents : /\ writer'[b] # NULL /\ writer'[b].job = k
                                               /\ writer'[b].open /\ ~writer'[b].fileExists
      BY <1>1 DEF ReportsPast, OneNode
    <2>1. CASE k = j
      <3>1. new # << >>
        BY <1>6
      <3>2. \A i \in 2 .. Len(new) : new[i].at <= w.at
        BY <1>1, <1>9, <2>1
      <3>3. WellFormed(new)
        BY <1>1, <1>9, <2>1
      <3>4. \A i \in 2 .. Len(new) : new[i].at \in Nat
        <4>1. ASSUME NEW i \in 2 .. Len(new) PROVE new[i] \in Entry
          <5>1. i \in 1 .. Len(new) /\ i # 1
            BY <1>6 DEF Lines
          <5>2. new[i] \in Entry \cup {Header} /\ new[i] # Header
            BY <1>6, <3>3, <5>1 DEF Lines, WellFormed
          <5> QED BY <5>2
        <4> QED BY <4>1 DEF Entry
      <3>5. \A i \in 2 .. Len(new) : new[i].at <= now
        BY <1>4, <3>2, <3>4
      <3> QED BY <1>8, <2>1, <3>1, <3>5
    <2>2. CASE k # j
      BY <1>4, <1>8, <1>12, <2>2 DEF ReportsInv, ReportsPast
    <2> QED BY <2>1, <2>2
  <1> QED BY <1>11, <1>13, <1>14 DEF ReportsInv

LEMMA AbandonOK ==
  ASSUME ReportsInv, NEW a \in Agents, Abandon(a)
  PROVE  ReportsInv'
  <1> DEFINE j == writer[a].job
  <1>1. /\ writer[a] # NULL /\ writer' = [writer EXCEPT ![a] = NULL]
        /\ now' = now /\ report' = report /\ mtime' = mtime
        /\ report[j] = << >> => abandoned' = abandoned \cup {j}
        /\ report[j] # << >> => abandoned' = abandoned
    BY DEF Abandon
  <1>2. ReportsTypeOK /\ j \in Jobs
    BY <1>1, Busy DEF ReportsInv, ReportsWellFormed
  <1>3. /\ writer'[a] = NULL /\ \A b \in Agents : b # a => writer'[b] = writer[b]
        /\ \A k \in Jobs : k \notin abandoned' => k \notin abandoned
    BY <1>1, <1>2 DEF ReportsTypeOK
  <1>4. ReportsTypeOK'
    BY <1>1, <1>2 DEF ReportsTypeOK
  <1>5. ReportsWellFormed'
    BY <1>1, <1>3, <1>4 DEF ReportsInv, ReportsWellFormed, OneNode
  <1>6. ASSUME NEW b \in Agents PROVE WriterHonest(b)'
    <2>1. writer[b] # NULL => writer[b].job \in Jobs
      BY Busy
    <2> QED BY <1>1, <1>3, <2>1 DEF ReportsInv, WriterHonest, OneNode
  <1>7. ReportsPast'
    <2> SUFFICES ASSUME NEW k \in Jobs, OneNode(k), k \notin abandoned', report[k] # NoFile
                 PROVE  /\ \A i \in 2 .. Len(report[k]) : report[k][i].at <= now
                        /\ report[k] = << >> =>
                             \E b \in Agents : /\ writer'[b] # NULL /\ writer'[b].job = k
                                               /\ writer'[b].open /\ ~writer'[b].fileExists
      BY <1>1 DEF ReportsPast, OneNode
    <2>1. report[k] = << >> => k # j
      BY <1>1
    <2> QED BY <1>3, <2>1 DEF ReportsInv, ReportsPast
  <1> QED BY <1>5, <1>6, <1>7 DEF ReportsInv

LEMMA ReportsTickOK ==
  ASSUME ReportsInv, ReportsTick
  PROVE  ReportsInv'
  <1>1. /\ now \in Nat /\ now' = now + 1 /\ report' = report /\ mtime' = mtime
        /\ writer' = writer /\ abandoned' = abandoned
    BY DEF ReportsTick, ReportsInv, ReportsWellFormed, ReportsTypeOK
  <1>2. ReportsWellFormed'
    BY <1>1 DEF ReportsInv, ReportsWellFormed, ReportsTypeOK, OneNode
  <1>3. ASSUME NEW b \in Agents PROVE WriterHonest(b)'
    <2>1. writer[b] # NULL => writer[b].at <= now + 1
      BY <1>1, Busy
    <2> QED BY <1>1, <2>1 DEF ReportsInv, WriterHonest, OneNode
  <1>4. ReportsPast'
    <2>1. ASSUME NEW k \in Jobs, OneNode(k), k \notin abandoned, report[k] # NoFile,
                 NEW i \in 2 .. Len(report[k])
          PROVE  report[k][i].at <= now + 1
      <3>1. report[k] \in Lines /\ WellFormed(report[k])
        BY <2>1 DEF ReportsInv, ReportsWellFormed, ReportsTypeOK, Lines
      <3>2. i \in 1 .. Len(report[k]) /\ i # 1
        BY <3>1 DEF Lines
      <3>3. report[k][i] \in Entry
        BY <3>1, <3>2 DEF Lines, WellFormed
      <3>4. report[k][i].at \in Nat /\ report[k][i].at <= now
        BY <2>1, <3>3 DEF Entry, ReportsInv, ReportsPast
      <3> QED BY <1>1, <3>4
    <2> QED BY <1>1, <2>1 DEF ReportsInv, ReportsPast, OneNode
  <1> QED BY <1>2, <1>3, <1>4 DEF ReportsInv

LEMMA ReportsNextOK == ReportsInv /\ [ReportsNext]_reportVars => ReportsInv'
  <1> SUFFICES ASSUME ReportsInv, [ReportsNext]_reportVars PROVE ReportsInv'
    OBVIOUS
  <1>1. ASSUME NEW a \in Agents, NEW j \in Jobs, Look(a, j) PROVE ReportsInv'
    BY <1>1, LookOK
  <1>2. ASSUME NEW a \in Agents, OpenReport(a) \/ CloseReport(a) \/ Abandon(a) PROVE ReportsInv'
    BY <1>2, OpenReportOK, CloseReportOK, AbandonOK
  <1>3. CASE ReportsTick
    BY <1>3, ReportsTickOK
  <1>4. CASE UNCHANGED reportVars
    BY <1>4 DEF reportVars, ReportsInv, ReportsWellFormed, ReportsTypeOK, WriterHonest,
                ReportsPast, OneNode
  <1> QED BY <1>1, <1>2, <1>3, <1>4 DEF ReportsNext

\* The report of a job that runs on one node has its header as the first line
\* and nowhere else, and timestamps that increase, whenever it is looked at,
\* with any number of agents, jobs and abandoned writes, unless an agent left
\* that very file empty.
THEOREM ReportsCorrect == ReportsSpec => []ReportsInv
  BY ReportsInitOK, ReportsNextOK, PTL DEF ReportsSpec
-----------------------------------------------------------------------------
(***************************************************************************)
(* What the lines of a report add up to.                                   *)
(***************************************************************************)
\* Sums over finite sets: MapThenSumSet() is a recursive function, about which
\* induction on the size of the set proves what is needed.
LEMMA LeastNat ==
  ASSUME NEW T \in SUBSET Nat, T # {}
  PROVE  \E n \in T : \A m \in T : n <= m
  <1> DEFINE R == OpToRel(<, Nat)
  <1>1. IsWellFoundedOn(R, Nat)
    BY NatLessThanWellFounded
  <1>2. \E x \in T : \A y \in T : ~ (<<y, x>> \in R)
    <2> HIDE DEF R
    <2> QED BY <1>1, WFMin
  <1>3. PICK x \in T : \A y \in T : ~ (<<y, x>> \in R)
    BY <1>2
  <1>4. \A y \in T : <<y, x>> \in R <=> y < x
    BY DEF OpToRel
  <1> HIDE DEF R
  <1>5. ASSUME NEW y \in T PROVE x <= y
    <2>1. x \in Nat /\ y \in Nat /\ ~ (y < x)
      BY <1>3, <1>4
    <2> QED BY <2>1
  <1> QED BY <1>5

LEMMA NatSetInduction ==
  ASSUME NEW S \in SUBSET Nat, 0 \in S, \A n \in S : n + 1 \in S
  PROVE  S = Nat
  <1> SUFFICES ASSUME Nat \ S # {} PROVE FALSE
    OBVIOUS
  <1>1. PICK n \in Nat \ S : \A m \in Nat \ S : n <= m
    BY LeastNat
  <1>2. n # 0 /\ n - 1 \in Nat /\ n - 1 \in S
    BY <1>1
  <1> QED BY <1>1, <1>2

LEMMA SumOfCounts ==
  ASSUME NEW V, IsFiniteSet(V), NEW U, V \subseteq U, NEW w \in [U -> Nat]
  PROVE  /\ Total(w, V) \in Nat
         /\ \A x : V = {x} => Total(w, V) = w[x]
  <1> DEFINE First(s) == CHOOSE x \in s : TRUE
             Rest(s) == s \ {First(s)}
             Sums(g) == [s \in SUBSET V |-> IF s = {} THEN 0 ELSE w[First(s)] + g[Rest(s)]]
             iter == CHOOSE g : g = Sums(g)
             Small(n) == {s \in SUBSET V : Cardinality(s) <= n}
             SumsUpTo(g, n) ==
               \A s \in Small(n) : g[s] = IF s = {} THEN 0 ELSE w[First(s)] + g[Rest(s)]
             Good == {n \in Nat : \E g \in [SUBSET V -> Nat] : SumsUpTo(g, n)}
  <1>1. Total(w, V) = iter[V]
    BY DEF Total, MapThenSumSet, MapThenFoldSet
  <1>2. ASSUME NEW s \in SUBSET V
        PROVE  /\ IsFiniteSet(s) /\ Cardinality(s) \in Nat /\ Cardinality(s) <= Cardinality(V)
               /\ Cardinality(s) = 0 <=> s = {}
               /\ s # {} => /\ First(s) \in s /\ w[First(s)] \in Nat /\ Rest(s) \in SUBSET V
                            /\ Cardinality(Rest(s)) = Cardinality(s) - 1
    <2>1. IsFiniteSet(s) /\ Cardinality(s) \in Nat /\ Cardinality(s) <= Cardinality(V)
      BY <1>2, FS_Subset, FS_CardinalityType
    <2>2. Cardinality(s) = 0 <=> s = {}
      BY <2>1, FS_EmptySet
    <2>3. ASSUME s # {}
          PROVE  /\ First(s) \in s /\ w[First(s)] \in Nat /\ Rest(s) \in SUBSET V
                 /\ Cardinality(Rest(s)) = Cardinality(s) - 1
      <3>1. First(s) \in s
        BY <2>3
      <3> HIDE DEF First
      <3> QED BY <3>1, <2>1, FS_RemoveElement
    <2> QED BY <2>1, <2>2, <2>3
  <1> HIDE DEF First, Rest
  <1>3. 0 \in Good
    <2> DEFINE g == [s \in SUBSET V |-> 0]
    <2>1. g \in [SUBSET V -> Nat]
      OBVIOUS
    <2>2. ASSUME NEW s \in Small(0) PROVE s = {}
      <3>1. s \in SUBSET V /\ Cardinality(s) <= 0
        BY <2>2
      <3> QED BY <1>2, <3>1
    <2> HIDE DEF Small
    <2>3. SumsUpTo(g, 0)
      BY <2>2 DEF Small
    <2> QED BY <2>1, <2>3
  <1>4. ASSUME NEW n \in Good PROVE n + 1 \in Good
    <2>1. PICK g \in [SUBSET V -> Nat] : SumsUpTo(g, n)
      BY <1>4
    <2> DEFINE h == [s \in SUBSET V |-> IF s \in Small(n) \/ s = {} THEN g[s] ELSE w[First(s)] + g[Rest(s)]]
    <2>2. h \in [SUBSET V -> Nat]
      BY <1>2
    <2>3. ASSUME NEW s \in Small(n + 1)
          PROVE  h[s] = IF s = {} THEN 0 ELSE w[First(s)] + h[Rest(s)]
      <3>1. CASE s = {}
        <4>1. s \in Small(n)
          BY <1>2, <3>1
        <4> QED BY <2>1, <3>1, <4>1
      <3>2. CASE s # {}
        <4>1. Rest(s) \in Small(n)
          BY <1>2, <3>2
        <4>2. h[Rest(s)] = g[Rest(s)]
          BY <4>1
        <4>3. h[s] = w[First(s)] + g[Rest(s)]
          BY <2>1, <3>2
        <4> QED BY <3>2, <4>2, <4>3
      <3> QED BY <3>1, <3>2
    <2> HIDE DEF h
    <2>4. SumsUpTo(h, n + 1)
      BY <2>3
    <2> HIDE DEF SumsUpTo
    <2>5. n + 1 \in Nat
      BY <1>4
    <2> QED BY <2>2, <2>4, <2>5
  <1>5. Good = Nat
    <2>1. Good \in SUBSET Nat
      OBVIOUS
    <2> HIDE DEF Good
    <2> QED BY <1>3, <1>4, <2>1, NatSetInduction
  <1>6. \E g : g = Sums(g)
    <2>1. Cardinality(V) \in Nat
      BY FS_CardinalityType
    <2>2. PICK g \in [SUBSET V -> Nat] : SumsUpTo(g, Cardinality(V))
      BY <1>5, <2>1
    <2>3. ASSUME NEW s \in SUBSET V PROVE g[s] = IF s = {} THEN 0 ELSE w[First(s)] + g[Rest(s)]
      BY <1>2, <2>2
    <2>4. g = Sums(g)
      BY <2>3
    <2> QED BY <2>4
  <1>7. iter = Sums(iter)
    BY <1>6
  <1> HIDE DEF iter
  <1>8. ASSUME NEW s \in SUBSET V
        PROVE  iter[s] = IF s = {} THEN 0 ELSE w[First(s)] + iter[Rest(s)]
    BY <1>7
  <1> DEFINE Numbers == {n \in Nat : \A s \in Small(n) : iter[s] \in Nat}
  <1>9. Numbers = Nat
    <2>1. 0 \in Numbers
      BY <1>2, <1>8
    <2>2. ASSUME NEW n \in Numbers PROVE n + 1 \in Numbers
      <3>1. ASSUME NEW s \in Small(n + 1) PROVE iter[s] \in Nat
        <4>1. s # {} => Rest(s) \in Small(n)
          BY <1>2
        <4>2. s # {} => iter[Rest(s)] \in Nat
          BY <2>2, <4>1
        <4> QED BY <1>2, <1>8, <4>2
      <3> QED BY <3>1
    <2>3. Numbers \in SUBSET Nat
      OBVIOUS
    <2> HIDE DEF Numbers
    <2> QED BY <2>1, <2>2, <2>3, NatSetInduction
  <1>10. iter[V] \in Nat
    <2>1. V \in Small(Cardinality(V)) /\ Cardinality(V) \in Nat
      BY <1>2
    <2> QED BY <1>9, <2>1
  <1>11. ASSUME NEW x, V = {x} PROVE iter[V] = w[x]
    <2>1. First(V) = x /\ Rest(V) = {}
      BY <1>11 DEF First, Rest
    <2>2. iter[{}] = 0
      BY <1>8
    <2>3. iter[V] = w[x] + iter[{}]
      BY <1>8, <1>11, <2>1
    <2> QED BY <1>11, <2>2, <2>3
  <1> QED BY <1>1, <1>10, <1>11

LEMMA EntriesTyped ==
  ASSUME NEW lines \in Lines, NEW from \in Int
  PROVE  /\ \A i \in Entries(lines, from) :
              /\ i \in 1 .. Len(lines) /\ lines[i] \in Entry /\ lines[i].at \in Nat
              /\ lines[i].ops \subseteq Volumes /\ lines[i].at >= from
         /\ IsFiniteSet(Entries(lines, from))
  <1>1. Len(lines) \in Nat /\ \A i \in 1 .. Len(lines) : lines[i] \in Entry \cup {Header}
    BY DEF Lines
  <1>2. IsFiniteSet(1 .. Len(lines))
    BY <1>1, FS_Interval
  <1>3. Entries(lines, from) \in SUBSET (1 .. Len(lines))
    BY DEF Entries
  <1>4. IsFiniteSet(Entries(lines, from))
    BY <1>2, <1>3, FS_Subset
  <1> QED BY <1>1, <1>4 DEF Entries, Entry

LEMMA VolumesFinite == IsFiniteSet(Volumes)
  BY DetectorAssumption, FS_Product

LEMMA PerformedFinite ==
  ASSUME NEW lines \in Lines, NEW from \in Int, NEW v
  PROVE  IsFiniteSet(Performed(lines, v, from)) /\ Cardinality(Performed(lines, v, from)) \in Nat
  <1>1. Performed(lines, v, from) \in SUBSET Entries(lines, from)
    BY DEF Performed
  <1> QED BY <1>1, EntriesTyped, FS_Subset, FS_CardinalityType

\* The operations on a target, as pairs of a line and a volume.
OperationsIn(lines, t, from, aggrs) ==
  {p \in Entries(lines, from) \X Volumes : p[2] \in lines[p[1]].ops /\ Holds(p[2], t, aggrs)}

LEMMA OperationsFinite ==
  ASSUME NEW lines \in Lines, NEW from \in Int, NEW t, NEW aggrs
  PROVE  /\ IsFiniteSet(OperationsIn(lines, t, from, aggrs))
         /\ Cardinality(OperationsIn(lines, t, from, aggrs)) \in Nat
         /\ Operations(lines, t, from, aggrs) = Cardinality(OperationsIn(lines, t, from, aggrs))
  <1>1. OperationsIn(lines, t, from, aggrs) \in SUBSET (Entries(lines, from) \X Volumes)
    BY DEF OperationsIn
  <1>2. IsFiniteSet(Entries(lines, from) \X Volumes)
    BY EntriesTyped, VolumesFinite, FS_Product
  <1>3. lines # NoFile
    BY ReportsAssumption DEF Lines
  <1> QED BY <1>1, <1>2, <1>3, FS_Subset, FS_CardinalityType DEF Operations, OperationsIn

LEMMA EntriesGrow ==
  ASSUME NEW short \in Lines, NEW long \in Lines, Continues(long, short),
         NEW from \in Int, NEW since \in Int, since <= from
  PROVE  \A i \in Entries(short, from) : i \in Entries(long, since) /\ short[i] = long[i]
  <1>1. Len(short) \in Nat /\ Len(long) \in Nat
    BY DEF Lines
  <1> SUFFICES ASSUME NEW i \in Entries(short, from)
               PROVE  i \in Entries(long, since) /\ short[i] = long[i]
    OBVIOUS
  <1>2. i \in 1 .. Len(short) /\ short[i].at \in Nat /\ short[i].at >= from /\ short[i] # Header
    BY EntriesTyped DEF Entries
  <1>3. i \in 1 .. Len(long) /\ short[i] = long[i]
    BY <1>1, <1>2 DEF Continues
  <1>4. long[i].at >= since
    BY <1>2, <1>3
  <1> QED BY <1>2, <1>3, <1>4 DEF Entries

LEMMA PerformedGrow ==
  ASSUME NEW short \in Lines, NEW long \in Lines, Continues(long, short), NEW v,
         NEW from \in Int, NEW since \in Int, since <= from
  PROVE  Cardinality(Performed(short, v, from)) <= Cardinality(Performed(long, v, since))
  <1>1. Performed(short, v, from) \in SUBSET Performed(long, v, since)
    BY EntriesGrow DEF Performed
  <1> QED BY <1>1, PerformedFinite, FS_Subset

LEMMA OperationsGrow ==
  ASSUME NEW short \in Lines, NEW long \in Lines, Continues(long, short), NEW t, NEW aggrs,
         NEW from \in Int, NEW since \in Int, since <= from
  PROVE  Operations(short, t, from, aggrs) <= Operations(long, t, since, aggrs)
  <1>1. OperationsIn(short, t, from, aggrs) \in SUBSET OperationsIn(long, t, since, aggrs)
    <2> SUFFICES ASSUME NEW p \in OperationsIn(short, t, from, aggrs)
                 PROVE  p \in OperationsIn(long, t, since, aggrs)
      OBVIOUS
    <2>1. p \in Entries(short, from) \X Volumes /\ p[1] \in Entries(short, from)
      BY DEF OperationsIn
    <2>2. p[1] \in Entries(long, since) /\ short[p[1]] = long[p[1]]
      BY <2>1, EntriesGrow
    <2> QED BY <2>1, <2>2 DEF OperationsIn
  <1> QED BY <1>1, OperationsFinite, FS_Subset

\* On a volume the two counts agree.
LEMMA VolumeOperations ==
  ASSUME NEW lines \in Lines, NEW from \in Int, NEW t \in Target, t.level = "volume", NEW aggrs
  PROVE  /\ <<t.filer, t.name>> \in Volumes
         /\ Operations(lines, t, from, aggrs)
              = Cardinality(Performed(lines, <<t.filer, t.name>>, from))
  <1> DEFINE v == <<t.filer, t.name>>
             f == [i \in Performed(lines, v, from) |-> <<i, v>>]
  <1>1. v \in Volumes
    BY DetectorAssumption DEF Target
  <1>2. ASSUME NEW u \in Volumes PROVE Holds(u, t, aggrs) <=> u = v
    BY <1>2, DetectorAssumption DEF Holds
  <1> HIDE DEF v
  <1>3. f \in Bijection(Performed(lines, v, from), OperationsIn(lines, t, from, aggrs))
    <2>1. ASSUME NEW i \in Performed(lines, v, from)
          PROVE  <<i, v>> \in OperationsIn(lines, t, from, aggrs)
      BY <1>1, <1>2 DEF Performed, OperationsIn
    <2>2. ASSUME NEW p \in OperationsIn(lines, t, from, aggrs)
          PROVE  \E i \in Performed(lines, v, from) : p = <<i, v>>
      <3>1. /\ p \in Entries(lines, from) \X Volumes
            /\ p[2] \in lines[p[1]].ops /\ Holds(p[2], t, aggrs)
        BY DEF OperationsIn
      <3>2. p = <<p[1], p[2]>> /\ p[1] \in Entries(lines, from) /\ p[2] = v
        BY <1>2, <3>1
      <3> QED BY <3>1, <3>2 DEF Performed
    <2>3. f \in [Performed(lines, v, from) -> OperationsIn(lines, t, from, aggrs)]
      BY <2>1
    <2>4. \A a, b \in Performed(lines, v, from) : f[a] = f[b] => a = b
      OBVIOUS
    <2>5. \A p \in OperationsIn(lines, t, from, aggrs) :
            \E i \in Performed(lines, v, from) : f[i] = p
      BY <2>2
    <2> HIDE DEF f
    <2> QED BY <2>3, <2>4, <2>5 DEF Bijection, Injection, Surjection, IsInjective
  <1>4. ExistsBijection(Performed(lines, v, from), OperationsIn(lines, t, from, aggrs))
    BY <1>3 DEF ExistsBijection
  <1>5. Cardinality(OperationsIn(lines, t, from, aggrs)) = Cardinality(Performed(lines, v, from))
    BY <1>4, PerformedFinite, FS_Bijection
  <1> QED BY <1>1, <1>5, OperationsFinite DEF v
-----------------------------------------------------------------------------
(***************************************************************************)
(* DetectorInv is inductive: the agents and the monitor.                   *)
(***************************************************************************)
LEMMA ReportTyped ==
  ASSUME ReportsInv, NEW j \in Jobs, report[j] # NoFile
  PROVE  report[j] \in Lines
  BY DEF ReportsInv, ReportsWellFormed, ReportsTypeOK, Lines

LEMMA ListedTyped ==
  ASSUME DetectorTypeOK, NEW j \in Jobs, listed[j] # NoFile
  PROVE  listed[j] \in Lines
  BY DEF DetectorTypeOK, Lines

LEMMA TimesTyped ==
  ASSUME DetectorTypeOK
  PROVE  /\ currentTime \in Nat /\ Window \in Nat /\ Since \in Int /\ Since = currentTime - Window
         /\ Since + 1 \in Int /\ currentTime - Window + 1 = Since + 1
  BY DetectorAssumption DEF DetectorTypeOK, Since

LEMMA DetectorInitOK == Init => DetectorInv
  <1> SUFFICES ASSUME Init PROVE DetectorInv
    OBVIOUS
  <1>1. ReportsInv
    BY ReportsInitOK DEF Init
  <1>2. DetectorTypeOK
    <2>1. xml = [f \in Filers |-> NoFile] /\ aggrOf = [v \in Volumes |-> NULL]
      BY DEF Init
    <2>2. /\ xml \in [Filers -> (UNION {Docs[f] : f \in Filers}) \cup {Torn, NoFile}]
          /\ \A f \in Filers : xml[f] \in Docs[f] \cup {Torn, NoFile}
      BY <2>1
    <2>3. aggrOf \in [Volumes -> Aggrs \cup {NULL}]
      BY <2>1
    <2> QED BY <2>2, <2>3 DEF Init, DetectorTypeOK
  <1>3. TellsTrue /\ NothingMissed /\ FilesSeen
    BY DetectorAssumption DEF Init, TellsTrue, NothingMissed, FilesSeen
  <1>4. ReportsGrow
    BY DEF Init, ReportsInit, ReportsGrow
  <1>5. ReportsCounted
    BY DEF Init, ReportsCounted
  <1> QED BY <1>1, <1>2, <1>3, <1>4, <1>5 DEF DetectorInv

\* What an agent does to a report lets it grow.
Dated(j) ==
  /\ mtime[j] <= now
  /\ report[j] # NoFile =>
       \A i \in 1 .. Len(report[j]) : report[j][i] # Header => report[j][i].at <= mtime[j]
Grown(j) ==
  report[j] # NoFile => report'[j] # NoFile /\ Continues(report'[j], report[j])

LEMMA ReportsGrowNext ==
  ASSUME DetectorInv, ReportsNext, listed' = listed
  PROVE  /\ ReportsGrow' /\ abandoned \subseteq abandoned'
         /\ \A j \in Jobs : report[j] # NoFile =>
              report'[j] # NoFile /\ Continues(report'[j], report[j])
  <1> USE DEF DetectorInv
  <1>1. ReportsTypeOK
    BY DEF ReportsInv, ReportsWellFormed
  <1>2. ASSUME NEW j \in Jobs, report'[j] = report[j], mtime'[j] = mtime[j], now' = now \/ now' = now + 1
        PROVE  Dated(j)' /\ Grown(j)
    <2>1. report[j] # NoFile => Continues(report[j], report[j])
      BY ReportTyped DEF Continues, Lines
    <2>2. mtime[j] \in Nat /\ now \in Nat /\ Dated(j)
      BY <1>1 DEF ReportsTypeOK, ReportsGrow, Dated
    <2> QED BY <1>2, <2>1, <2>2 DEF Dated, Grown
  <1>3. ASSUME NEW a \in Agents, NEW k \in Jobs, Look(a, k)
        PROVE  abandoned \subseteq abandoned' /\ \A j \in Jobs : Dated(j)' /\ Grown(j)
    BY <1>2, <1>3 DEF Look
  <1>4. ASSUME NEW a \in Agents, OpenReport(a)
        PROVE  abandoned \subseteq abandoned' /\ \A j \in Jobs : Dated(j)' /\ Grown(j)
    <2>0. PICK k \in Jobs : k = writer[a].job
      BY <1>4, Busy DEF OpenReport
    <2>1. now' = now /\ abandoned' = abandoned
      BY <1>4 DEF OpenReport
    <2>2. CASE report[k] # NoFile
      BY <1>2, <1>4, <2>0, <2>1, <2>2 DEF OpenReport
    <2>3. CASE report[k] = NoFile
      <3>1. report' = [report EXCEPT ![k] = << >>] /\ mtime' = [mtime EXCEPT ![k] = now]
        BY <1>4, <2>0, <2>3 DEF OpenReport
      <3>2. report'[k] = << >> /\ mtime'[k] = now /\ now \in Nat
        BY <1>1, <2>1, <3>1 DEF ReportsTypeOK
      <3>3. \A j \in Jobs : j # k => report'[j] = report[j] /\ mtime'[j] = mtime[j]
        BY <1>1, <3>1 DEF ReportsTypeOK
      <3>4. Dated(k)' /\ Grown(k)
        BY <2>1, <2>3, <3>2 DEF Dated, Grown
      <3> QED BY <1>2, <2>1, <3>3, <3>4
    <2> QED BY <2>2, <2>3
  <1>5. ASSUME NEW a \in Agents, CloseReport(a)
        PROVE  abandoned \subseteq abandoned' /\ \A j \in Jobs : Dated(j)' /\ Grown(j)
    <2> DEFINE w == writer[a]
    <2>0. PICK k \in Jobs : k = w.job
      BY <1>5, Busy DEF CloseReport
    <2>1. /\ now' = now /\ abandoned' = abandoned
          /\ w # NULL /\ w.open /\ report[k] \in Lines /\ w.at \in Nat /\ w.at <= now /\ now \in Nat
      BY <1>5, <2>0, Busy DEF CloseReport
    <2>2. PICK ops \in Works :
            report' = [report EXCEPT ![k] =
              @ \o (IF w.fileExists THEN << >> ELSE <<Header>>) \o <<[at |-> w.at, ops |-> ops]>>]
      BY <1>5, <2>0 DEF CloseReport
    <2> DEFINE e == [at |-> w.at, ops |-> ops]
               h == IF w.fileExists THEN << >> ELSE <<Header>>
               l == report[k] \o h \o <<e>>
    <2>3. /\ report'[k] = l /\ mtime'[k] = now
          /\ \A j \in Jobs : j # k => report'[j] = report[j] /\ mtime'[j] = mtime[j]
      BY <1>1, <1>5, <2>0, <2>1, <2>2 DEF CloseReport, ReportsTypeOK
    <2>4. e \in Entry /\ e.at = w.at
      BY <2>1, <2>2, ReportsAssumption DEF Entry
    <2>5. h \in Lines /\ Len(h) \in Nat /\ \A i \in 1 .. Len(h) : h[i] = Header
      BY EmptyReport, ShortSequences
    <2> HIDE DEF w, e, h
    <2>6. /\ l \in Lines /\ Len(l) = Len(report[k]) + Len(h) + 1
          /\ Len(report[k]) \in Nat
          /\ \A i \in 1 .. Len(report[k]) : l[i] = report[k][i]
          /\ \A i \in 1 .. Len(l) :
               i > Len(report[k]) => l[i] = e \/ (i - Len(report[k]) \in 1 .. Len(h)
                                                  /\ l[i] = h[i - Len(report[k])])
      BY <2>1, <2>4, <2>5 DEF Lines
    <2> HIDE DEF l
    <2>7. Continues(l, report[k])
      BY <2>5, <2>6 DEF Continues
    <2>8. ASSUME NEW i \in 1 .. Len(l), l[i] # Header
          PROVE  l[i].at <= now
      <3>1. CASE i <= Len(report[k])
        <4>1. i \in 1 .. Len(report[k]) /\ l[i] = report[k][i] /\ report[k] # NoFile
          BY <2>1, <2>6, <3>1, ReportsAssumption DEF Lines
        <4>2. l[i] \in Entry /\ l[i].at \in Nat
          BY <2>1, <2>6, <2>8, <4>1 DEF Lines, Entry
        <4>3. l[i].at <= mtime[k] /\ mtime[k] <= now /\ mtime[k] \in Nat
          BY <1>1, <2>1, <2>8, <4>1 DEF ReportsGrow, ReportsTypeOK
        <4> QED BY <2>1, <4>2, <4>3
      <3>2. CASE i > Len(report[k])
        BY <2>1, <2>4, <2>5, <2>6, <2>8, <3>2
      <3> QED BY <2>6, <3>1, <3>2
    <2>9. Dated(k)' /\ Grown(k)
      <3>1. l # NoFile
        BY <2>6, ReportsAssumption DEF Lines
      <3> QED BY <2>1, <2>3, <2>7, <2>8, <3>1 DEF Dated, Grown
    <2> QED BY <1>2, <2>1, <2>3, <2>9
  <1>6. ASSUME NEW a \in Agents, Abandon(a)
        PROVE  abandoned \subseteq abandoned' /\ \A j \in Jobs : Dated(j)' /\ Grown(j)
    BY <1>2, <1>6 DEF Abandon
  <1>7. ASSUME ReportsTick
        PROVE  abandoned \subseteq abandoned' /\ \A j \in Jobs : Dated(j)' /\ Grown(j)
    BY <1>2, <1>7 DEF ReportsTick
  <1>8. abandoned \subseteq abandoned' /\ \A j \in Jobs : Dated(j)' /\ Grown(j)
    BY <1>3, <1>4, <1>5, <1>6, <1>7 DEF ReportsNext
  <1>9. ASSUME NEW j \in Jobs, listed[j] # NoFile
        PROVE  report'[j] # NoFile /\ Continues(report'[j], listed[j])
    <2>1. report[j] # NoFile /\ Continues(report[j], listed[j])
      BY <1>9 DEF ReportsGrow
    <2>2. report'[j] # NoFile /\ Continues(report'[j], report[j])
      BY <1>8, <2>1 DEF Grown
    <2>3. report[j] \in Lines /\ listed[j] \in Lines
      BY <1>9, <2>1, ReportTyped, ListedTyped
    <2>4. report'[j] \in Lines
      <3>1. ReportsInv'
        BY ReportsNextOK
      <3> QED BY <2>2, <3>1 DEF ReportsInv, ReportsWellFormed, ReportsTypeOK, Lines
    <2> QED BY <2>1, <2>2, <2>3, <2>4 DEF Continues, Lines
  <1> QED BY <1>8, <1>9 DEF ReportsGrow, Dated, Grown

\* The last part of the invariant, for one job.
LEMMA AtMostGrows ==
  ASSUME DetectorInv, NEW j \in Jobs, NEW t, NEW lines \in Lines \cup {NoFile},
         report[j] # NoFile => lines # NoFile /\ Continues(lines, report[j])
  PROVE  /\ AtMost(j, t) \in Nat
         /\ AtMost(j, t) <= Operations(lines, t, currentTime - Window, aggrOf)
         /\ AtMost(j, t) > 0 => report[j] # NoFile
  <1>1. Since \in Int /\ Since = currentTime - Window
    BY TimesTyped DEF DetectorInv
  <1>2. CASE report[j] = NoFile
    <2>1. AtMost(j, t) = 0
      BY <1>2 DEF AtMost, Operations
    <2>2. Operations(lines, t, Since, aggrOf) \in Nat
      <3>1. lines = NoFile => Operations(lines, t, Since, aggrOf) = 0
        BY DEF Operations
      <3>2. lines \in Lines => Operations(lines, t, Since, aggrOf) \in Nat
        BY <1>1, OperationsFinite
      <3> QED BY <3>1, <3>2
    <2> QED BY <1>1, <2>1, <2>2
  <1>3. CASE report[j] # NoFile
    <2>1. report[j] \in Lines /\ lines \in Lines /\ Continues(lines, report[j])
      BY <1>3, ReportTyped DEF DetectorInv
    <2>2. AtMost(j, t) = Operations(report[j], t, Since, aggrOf)
      BY <1>1 DEF AtMost
    <2>3. Operations(report[j], t, Since, aggrOf) \in Nat
      BY <1>1, <2>1, OperationsFinite
    <2>4. Operations(report[j], t, Since, aggrOf) <= Operations(lines, t, Since, aggrOf)
      BY <1>1, <2>1, OperationsGrow
    <2> QED BY <1>1, <1>3, <2>2, <2>3, <2>4
  <1> QED BY <1>2, <1>3

LEMMA AgentsOK ==
  ASSUME DetectorInv, ReportsNext, UNCHANGED <<xmlVars, detVars>>
  PROVE  DetectorInv'
  <1>1. /\ xml' = xml /\ xmlTime' = xmlTime /\ det' = det
        /\ filesLastModified' = filesLastModified /\ filesToCheck' = filesToCheck
        /\ errors' = errors /\ aggrOf' = aggrOf /\ currentTime' = currentTime /\ toRead' = toRead
        /\ consolidated' = consolidated /\ topJobs' = topJobs /\ judged' = judged
        /\ listed' = listed /\ Since' = Since
    BY DEF xmlVars, detVars, Since
  <1>2. ReportsInv'
    BY ReportsNextOK DEF DetectorInv
  <1>3. DetectorTypeOK'
    BY <1>1 DEF DetectorInv, DetectorTypeOK
  <1>4. NothingMissed' /\ FilesSeen'
    BY <1>1 DEF DetectorInv, NothingMissed, FilesSeen
  <1>5. /\ ReportsGrow' /\ abandoned \subseteq abandoned'
        /\ \A j \in Jobs : report[j] # NoFile =>
             report'[j] # NoFile /\ Continues(report'[j], report[j])
    BY <1>1, ReportsGrowNext
  <1>6. \A j \in Jobs : report'[j] \in Lines \cup {NoFile}
    BY <1>2 DEF ReportsInv, ReportsWellFormed, ReportsTypeOK, Lines
  <1>7. ReportsCounted'
    <2>1. ASSUME NEW j \in Jobs, consolidated[j] # NULL, NEW v \in Volumes
          PROVE  /\ report'[j] # NoFile
                 /\ consolidated[j][v] <= Cardinality(Performed(report'[j], v, Since))
      <3>1. /\ report[j] # NoFile /\ report'[j] # NoFile
            /\ consolidated[j][v] <= Cardinality(Performed(report[j], v, Since))
        BY <1>5, <2>1 DEF DetectorInv, ReportsCounted
      <3>2. report[j] \in Lines /\ report'[j] \in Lines /\ Since \in Int
        BY <1>6, <3>1, ReportTyped, TimesTyped DEF DetectorInv
      <3>3. /\ Cardinality(Performed(report[j], v, Since)) \in Nat
            /\ Cardinality(Performed(report'[j], v, Since)) \in Nat
            /\ Cardinality(Performed(report[j], v, Since))
                 <= Cardinality(Performed(report'[j], v, Since))
        BY <1>5, <3>1, <3>2, PerformedGrow, PerformedFinite
      <3>4. consolidated[j][v] \in Nat
        BY <2>1 DEF DetectorInv, DetectorTypeOK
      <3> QED BY <3>1, <3>3, <3>4
    <2>2. \A j \in Jobs : report[j] # NoFile => report'[j] # NoFile
      BY <1>5
    <2>3. ReportsCounted
      BY DEF DetectorInv
    <2>4. ASSUME NEW j \in Jobs, consolidated[j] # NULL
          PROVE  /\ report'[j] # NoFile
                 /\ \A v \in Volumes :
                      /\ consolidated[j][v] <= Cardinality(Performed(report'[j], v, Since))
                      /\ OneNode(j) /\ j \notin abandoned' /\ listed[j] # NoFile =>
                           consolidated[j][v] >= Cardinality(Performed(listed[j], v, Since + 1))
      BY <1>5, <2>1, <2>2, <2>3, <2>4 DEF ReportsCounted
    <2>5. det = "read" => \A j \in toRead : report'[j] # NoFile
      BY <2>2, <2>3 DEF DetectorInv, DetectorTypeOK, ReportsCounted
    <2> QED BY <1>1, <2>3, <2>4, <2>5 DEF ReportsCounted, OneNode
  <1>8. TellsTrue'
    <2>1. ASSUME NEW x \in topJobs
          PROVE  /\ AtMost(x.job, x.target)' > 0
                 /\ x.target.level = "volume" /\ OneNode(x.job) /\ x.job \notin abandoned =>
                      x.count \in AtLeast(x.job, x.target) .. AtMost(x.job, x.target)'
      <3>1. x.job \in Jobs /\ x.count \in Nat
        BY <2>1 DEF DetectorInv, DetectorTypeOK
      <3>2. /\ AtMost(x.job, x.target) > 0
            /\ x.target.level = "volume" /\ OneNode(x.job) /\ x.job \notin abandoned =>
                 x.count \in AtLeast(x.job, x.target) .. AtMost(x.job, x.target)
        BY <2>1 DEF DetectorInv, TellsTrue
      <3>3. AtMost(x.job, x.target)' = Operations(report'[x.job], x.target, currentTime - Window, aggrOf)
        BY <1>1 DEF AtMost
      <3>4. AtMost(x.job, x.target) \in Nat /\ AtMost(x.job, x.target) <= AtMost(x.job, x.target)'
        BY <1>5, <1>6, <3>1, <3>3, AtMostGrows
      <3>5. AtMost(x.job, x.target)' \in Int
        <4>1. Since \in Int /\ Since = currentTime - Window
          BY TimesTyped DEF DetectorInv
        <4>2. report[x.job] # NoFile
          BY <1>5, <1>6, <3>1, <3>2, AtMostGrows
        <4>3. report'[x.job] \in Lines
          BY <1>5, <1>6, <3>1, <4>2
        <4> QED BY <3>3, <4>1, <4>3, OperationsFinite
      <3> QED BY <3>1, <3>2, <3>4, <3>5
    <2>2. \A j, t : AtLeast(j, t)' = AtLeast(j, t)
      BY <1>1 DEF AtLeast
    <2>3. \A t : Told(t)' = Told(t)
      BY <1>1 DEF Told
    <2> QED BY <1>1, <1>5, <2>1, <2>2, <2>3 DEF DetectorInv, TellsTrue, OneNode
  <1> QED BY <1>2, <1>3, <1>4, <1>5, <1>7, <1>8 DEF DetectorInv

\* What does not concern the reports.
LEMMA ReportsKept ==
  ASSUME ReportsInv, UNCHANGED reportVars
  PROVE  ReportsInv'
  BY ReportsNextOK

LEMMA MonitorOK ==
  ASSUME DetectorInv, NEW f \in Filers, Truncate(f) \/ Fill(f)
  PROVE  DetectorInv'
  <1>1. /\ UNCHANGED reportVars /\ det' = det
        /\ filesLastModified' = filesLastModified /\ filesToCheck' = filesToCheck
        /\ errors' = errors /\ aggrOf' = aggrOf /\ currentTime' = currentTime /\ toRead' = toRead
        /\ consolidated' = consolidated /\ topJobs' = topJobs /\ judged' = judged
        /\ listed' = listed /\ Since' = Since
    BY DEF Truncate, Fill, detVars, Since
  <1>2. /\ report' = report /\ abandoned' = abandoned /\ mtime' = mtime /\ now' = now
    BY <1>1 DEF reportVars
  <1>3. ReportsInv'
    BY <1>1, ReportsKept DEF DetectorInv
  <1>4. PICK d \in Docs[f] \cup {Torn} : xml' = [xml EXCEPT ![f] = d]
    BY DEF Truncate, Fill
  <1>5. xmlTime' = [xmlTime EXCEPT ![f] = @ + 1]
    BY DEF Truncate, Fill
  <1>6. d # NoFile
    BY <1>4, DetectorAssumption
  <1>7. DetectorTypeOK'
    BY <1>1, <1>4, <1>5 DEF DetectorInv, DetectorTypeOK
  <1>8. NothingMissed' /\ FilesSeen'
    <2>1. xmlTime'[f] = xmlTime[f] + 1 /\ \A g \in Filers : g # f => xmlTime'[g] = xmlTime[g]
      BY <1>5 DEF DetectorInv, DetectorTypeOK
    <2>2. xml'[f] = d /\ \A g \in Filers : g # f => xml'[g] = xml[g]
      BY <1>4 DEF DetectorInv, DetectorTypeOK
    <2>3. \A g \in Filers : xmlTime[g] \in Nat /\ judged[g] \in Nat
                            /\ filesLastModified[g] \in Nat \cup {NULL}
      BY DEF DetectorInv, DetectorTypeOK
    <2>4. NothingMissed'
      <3> SUFFICES ASSUME NEW g \in Filers, filesLastModified[g] = xmlTime'[g], g \notin filesToCheck
                   PROVE  judged[g] = xmlTime'[g]
        BY <1>1 DEF NothingMissed
      <3>1. g # f
        <4> SUFFICES ASSUME g = f PROVE FALSE
          OBVIOUS
        <4>1. filesLastModified[f] = xmlTime[f] + 1 /\ filesLastModified[f] \in Nat
          BY <2>1, <2>3
        <4>2. filesLastModified[f] <= xmlTime[f]
          BY <4>1, DetectorAssumption DEF DetectorInv, FilesSeen
        <4> QED BY <2>3, <4>1, <4>2
      <3> QED BY <2>1, <3>1 DEF DetectorInv, NothingMissed
    <2>5. FilesSeen'
      <3>1. ASSUME NEW g \in Filers
            PROVE  /\ filesLastModified[g] # NULL => filesLastModified[g] <= xmlTime'[g]
                   /\ filesLastModified[g] # NULL /\ g \notin filesToCheck
                        => judged[g] >= filesLastModified[g]
                   /\ judged[g] <= xmlTime'[g]
                   /\ g \in filesToCheck => xml'[g] # NoFile
        BY <1>6, <2>1, <2>2, <2>3 DEF DetectorInv, FilesSeen
      <3> QED BY <1>1, <3>1 DEF DetectorInv, FilesSeen
    <2> QED BY <2>4, <2>5
  <1>9. ReportsGrow' /\ ReportsCounted'
    BY <1>1, <1>2 DEF DetectorInv, ReportsGrow, ReportsCounted, OneNode
  <1>10. TellsTrue'
    BY <1>1, <1>2 DEF DetectorInv, TellsTrue, AtMost, AtLeast, Told, OneNode
  <1> QED BY <1>3, <1>7, <1>8, <1>9, <1>10 DEF DetectorInv
-----------------------------------------------------------------------------
(***************************************************************************)
(* The steps of the detector.                                              *)
(***************************************************************************)
LEMMA ReportsUntouched ==
  ASSUME DetectorInv, UNCHANGED reportVars
  PROVE  /\ ReportsInv' /\ report' = report /\ mtime' = mtime /\ now' = now
         /\ abandoned' = abandoned
         /\ listed' = listed => ReportsGrow'
  <1>1. ReportsInv'
    BY ReportsKept DEF DetectorInv
  <1>2. report' = report /\ mtime' = mtime /\ now' = now /\ abandoned' = abandoned
    BY DEF reportVars
  <1> QED BY <1>1, <1>2 DEF DetectorInv, ReportsGrow

\* As long as the report of the last turn is not written there is nothing to
\* be true.
LEMMA NothingTold ==
  ASSUME topJobs' = {}, det' # "sleep" \/ errors' = {}
  PROVE  TellsTrue'
  BY DEF TellsTrue

LEMMA ScanOK ==
  ASSUME DetectorInv, Scan
  PROVE  DetectorInv'
  <1>1. /\ det = "scan" /\ det' = "check" /\ UNCHANGED reportVars
        /\ xml' = xml /\ xmlTime' = xmlTime
        /\ errors' = errors /\ topJobs' = topJobs /\ currentTime' = currentTime /\ listed' = listed
        /\ aggrOf' = aggrOf /\ toRead' = toRead /\ consolidated' = consolidated /\ judged' = judged
    BY DEF Scan, xmlVars
  <1>2. /\ filesToCheck' = {f \in Filers : xml[f] # NoFile /\ filesLastModified[f] # xmlTime[f]}
        /\ filesLastModified' = [f \in Filers |-> IF xml[f] = NoFile THEN NULL ELSE xmlTime[f]]
    BY DEF Scan, Changed
  <1>3. ReportsInv' /\ report' = report /\ mtime' = mtime /\ now' = now
    BY <1>1, ReportsUntouched
  <1>4. DetectorTypeOK
    BY DEF DetectorInv
  <1>5. DetectorTypeOK'
    <2>1. filesLastModified' \in [Filers -> Nat \cup {NULL}]
      BY <1>2, <1>4 DEF DetectorTypeOK
    <2> QED BY <1>1, <1>2, <1>4, <2>1 DEF DetectorTypeOK
  <1>6. NothingMissed' /\ FilesSeen'
    <2>1. ASSUME NEW f \in Filers
          PROVE  /\ xmlTime[f] \in Nat /\ xmlTime[f] # NULL /\ judged[f] <= xmlTime[f] /\ judged[f] \in Nat
                 /\ filesLastModified[f] = xmlTime[f] => judged[f] = xmlTime[f]
                 /\ filesLastModified'[f] = IF xml[f] = NoFile THEN NULL ELSE xmlTime[f]
                 /\ f \in filesToCheck' <=> xml[f] # NoFile /\ filesLastModified[f] # xmlTime[f]
      BY <1>1, <1>2, <1>4, DetectorAssumption DEF DetectorInv, DetectorTypeOK, NothingMissed, FilesSeen
    <2>2. NothingMissed'
      BY <1>1, <2>1 DEF NothingMissed
    <2>3. FilesSeen'
      BY <1>1, <2>1 DEF FilesSeen
    <2> QED BY <2>2, <2>3
  <1>7. ReportsGrow'
    BY <1>1, ReportsUntouched
  <1>8. ReportsCounted'
    <2>1. (\A j \in Jobs : consolidated[j] = NULL) /\ topJobs' = {}
      BY <1>1 DEF DetectorInv, ReportsCounted
    <2> QED BY <1>1, <2>1 DEF ReportsCounted
  <1>9. topJobs' = {}
    BY <1>1 DEF DetectorInv, ReportsCounted
  <1> QED BY <1>1, <1>9, <1>3, <1>5, <1>6, <1>7, <1>8, NothingTold DEF DetectorInv

\* What checkFiles() finds in a document are errors of targets.
LEMMA ErrorsTyped ==
  ASSUME NEW f \in Filers, NEW d \in Docs[f]
  PROVE  Errors(f, d) \subseteq Target
  <1>1. d \in Doc
    BY DetectorAssumption
  <1>2. VolumesOf(d) \subseteq Names
    BY <1>1 DEF VolumesOf, Doc
  <1> QED BY <1>2 DEF Errors, Target

LEMMA CheckFileOK ==
  ASSUME DetectorInv, CheckFile
  PROVE  DetectorInv'
  <1>1. /\ det = "check" /\ UNCHANGED reportVars /\ xml' = xml /\ xmlTime' = xmlTime
        /\ filesLastModified' = filesLastModified /\ currentTime' = currentTime /\ toRead' = toRead
        /\ consolidated' = consolidated /\ topJobs' = topJobs /\ listed' = listed
    BY DEF CheckFile, xmlVars
  <1>2. ReportsInv' /\ report' = report /\ mtime' = mtime /\ now' = now /\ ReportsGrow'
    BY <1>1, ReportsUntouched
  <1>3. DetectorTypeOK /\ topJobs = {} /\ \A j \in Jobs : consolidated[j] = NULL
    BY <1>1 DEF DetectorInv, ReportsCounted
  <1>4. PICK f \in filesToCheck :
       IF xml[f] = Torn
         THEN det' = "dead" /\ UNCHANGED <<filesToCheck, errors, aggrOf, judged>>
         ELSE /\ errors' = errors \cup Errors(f, xml[f])
              /\ aggrOf' = [v \in Volumes |->
                   IF v[1] = f /\ v[2] \in VolumesOf(xml[f])
                     THEN CHOOSE g \in Aggrs : v[2] \in xml[f].aggrs[g].volumes ELSE aggrOf[v]]
              /\ filesToCheck' = filesToCheck \ {f}
              /\ judged' = [judged EXCEPT ![f] = xmlTime[f]]
              /\ UNCHANGED det
    BY DEF CheckFile
  <1>5. f \in Filers
    BY <1>3, <1>4 DEF DetectorTypeOK
  <1>6. CASE xml[f] = Torn
    <2>1. /\ det' = "dead" /\ filesToCheck' = filesToCheck /\ errors' = errors
          /\ aggrOf' = aggrOf /\ judged' = judged
      BY <1>4, <1>6
    <2>2. DetectorTypeOK'
      BY <1>1, <1>3, <2>1 DEF DetectorTypeOK
    <2>3. NothingMissed' /\ FilesSeen'
      BY <1>1, <2>1 DEF DetectorInv, NothingMissed, FilesSeen
    <2>4. ReportsCounted'
      BY <1>1, <1>3, <2>1 DEF ReportsCounted
    <2> QED BY <1>1, <1>2, <1>3, <2>1, <2>2, <2>3, <2>4, NothingTold DEF DetectorInv
  <1>7. CASE xml[f] # Torn
    <2>1. /\ det' = "check" /\ filesToCheck' = filesToCheck \ {f}
          /\ errors' = errors \cup Errors(f, xml[f])
          /\ judged' = [judged EXCEPT ![f] = xmlTime[f]]
      BY <1>1, <1>4, <1>7
    <2>2. xml[f] \in Docs[f]
      BY <1>3, <1>4, <1>5, <1>7 DEF DetectorInv, FilesSeen, DetectorTypeOK
    <2>3. aggrOf' \in [Volumes -> Aggrs \cup {NULL}]
      <3>1. ASSUME NEW v \in Volumes, v[2] \in VolumesOf(xml[f])
            PROVE  (CHOOSE g \in Aggrs : v[2] \in xml[f].aggrs[g].volumes) \in Aggrs
        <4>1. \E g \in Aggrs : v[2] \in xml[f].aggrs[g].volumes
          BY <3>1 DEF VolumesOf
        <4> QED BY <4>1
      <3>2. aggrOf' = [v \in Volumes |->
              IF v[1] = f /\ v[2] \in VolumesOf(xml[f])
                THEN CHOOSE g \in Aggrs : v[2] \in xml[f].aggrs[g].volumes ELSE aggrOf[v]]
        BY <1>4, <1>7
      <3>3. \A v \in Volumes : aggrOf[v] \in Aggrs \cup {NULL}
        BY <1>3 DEF DetectorTypeOK
      <3> QED BY <3>1, <3>2, <3>3
    <2>4. errors' \subseteq Target
      BY <1>3, <1>5, <2>1, <2>2, ErrorsTyped DEF DetectorTypeOK
    <2>5. DetectorTypeOK'
      BY <1>1, <1>3, <1>5, <2>1, <2>3, <2>4 DEF DetectorTypeOK
    <2>6. /\ judged'[f] = xmlTime[f] /\ \A g \in Filers : g # f => judged'[g] = judged[g]
          /\ xmlTime[f] \in Nat
      BY <1>3, <1>5, <2>1 DEF DetectorTypeOK
    <2>7. NothingMissed' /\ FilesSeen'
      <3>1. NothingMissed'
        BY <1>1, <2>1, <2>6 DEF DetectorInv, NothingMissed
      <3>2. ASSUME NEW g \in Filers
            PROVE  /\ filesLastModified[g] # NULL => filesLastModified[g] <= xmlTime[g]
                   /\ filesLastModified[g] # NULL /\ g \notin filesToCheck \ {f}
                        => judged'[g] >= filesLastModified[g]
                   /\ judged'[g] <= xmlTime[g]
                   /\ g \in filesToCheck \ {f} => xml[g] # NoFile
        <4>1. filesLastModified[g] \in Nat \cup {NULL}
          BY <1>3 DEF DetectorTypeOK
        <4>2. CASE g = f
          BY <2>6, <4>1, <4>2 DEF DetectorInv, FilesSeen
        <4>3. CASE g # f
          BY <2>6, <4>3 DEF DetectorInv, FilesSeen
        <4> QED BY <4>2, <4>3
      <3> QED BY <1>1, <2>1, <3>1, <3>2 DEF FilesSeen
    <2>8. ReportsCounted'
      BY <1>1, <1>3, <2>1 DEF ReportsCounted
    <2> QED BY <1>1, <1>2, <1>3, <2>1, <2>5, <2>7, <2>8, NothingTold DEF DetectorInv
  <1> QED BY <1>6, <1>7

LEMMA NoErrorsOK ==
  ASSUME DetectorInv, NoErrors
  PROVE  DetectorInv'
  <1>1. /\ det = "check" /\ det' = "sleep" /\ UNCHANGED reportVars
        /\ xml' = xml /\ xmlTime' = xmlTime /\ filesLastModified' = filesLastModified
        /\ filesToCheck = {} /\ filesToCheck' = filesToCheck /\ errors = {} /\ errors' = errors
        /\ aggrOf' = aggrOf /\ currentTime' = currentTime /\ toRead' = toRead
        /\ consolidated' = consolidated /\ topJobs' = topJobs /\ judged' = judged /\ listed' = listed
    BY DEF NoErrors, AfterCheck, xmlVars
  <1>2. ReportsInv' /\ report' = report /\ mtime' = mtime /\ now' = now /\ ReportsGrow'
    BY <1>1, ReportsUntouched
  <1>3. topJobs = {} /\ \A j \in Jobs : consolidated[j] = NULL
    BY <1>1 DEF DetectorInv, ReportsCounted
  <1>4. DetectorTypeOK' /\ NothingMissed' /\ FilesSeen'
    BY <1>1 DEF DetectorInv, DetectorTypeOK, NothingMissed, FilesSeen
  <1>5. ReportsCounted'
    BY <1>1, <1>3 DEF ReportsCounted
  <1> QED BY <1>1, <1>2, <1>3, <1>4, <1>5, NothingTold DEF DetectorInv

LEMMA WakeOK ==
  ASSUME DetectorInv, Wake
  PROVE  DetectorInv'
  <1>1. /\ det = "sleep" /\ det' = "scan" /\ UNCHANGED reportVars
        /\ xml' = xml /\ xmlTime' = xmlTime /\ filesLastModified' = filesLastModified
        /\ filesToCheck' = filesToCheck
        /\ errors' = {} /\ topJobs' = {} /\ currentTime' = 0 /\ listed' = [j \in Jobs |-> NoFile]
        /\ aggrOf' = aggrOf /\ toRead' = toRead /\ consolidated' = consolidated /\ judged' = judged
    BY DEF Wake, xmlVars
  <1>2. ReportsInv' /\ report' = report /\ mtime' = mtime /\ now' = now /\ abandoned' = abandoned
    BY <1>1, ReportsUntouched
  <1>3. DetectorTypeOK' /\ NothingMissed' /\ FilesSeen'
    <2>1. listed' \in [Jobs -> Seq(Entry \cup {Header}) \cup {NoFile}]
      BY <1>1
    <2> QED BY <1>1, <2>1 DEF DetectorInv, DetectorTypeOK, NothingMissed, FilesSeen
  <1>4. ReportsGrow'
    <2>1. \A j \in Jobs : listed'[j] = NoFile
      BY <1>1
    <2> QED BY <1>2, <2>1 DEF DetectorInv, ReportsGrow
  <1>5. ReportsCounted'
    <2>1. \A j \in Jobs : consolidated[j] = NULL
      BY <1>1 DEF DetectorInv, ReportsCounted
    <2> QED BY <1>1, <2>1 DEF ReportsCounted
  <1> QED BY <1>1, <1>2, <1>3, <1>4, <1>5, NothingTold DEF DetectorInv

LEMMA ListReportsOK ==
  ASSUME DetectorInv, ListReports
  PROVE  DetectorInv'
  <1>1. /\ det = "check" /\ det' = "read" /\ UNCHANGED reportVars
        /\ xml' = xml /\ xmlTime' = xmlTime /\ filesLastModified' = filesLastModified
        /\ filesToCheck = {} /\ filesToCheck' = filesToCheck /\ errors' = errors
        /\ aggrOf' = aggrOf /\ currentTime' = now
        /\ toRead' = {j \in Jobs : report[j] # NoFile /\ now - mtime[j] < Window}
        /\ consolidated' = consolidated /\ topJobs' = topJobs /\ judged' = judged /\ listed' = report
    BY DEF Recent, ListReports, AfterCheck, xmlVars
  <1>2. ReportsInv' /\ report' = report /\ mtime' = mtime /\ now' = now
    BY <1>1, ReportsUntouched
  <1>3. topJobs = {} /\ \A j \in Jobs : consolidated[j] = NULL
    BY <1>1 DEF DetectorInv, ReportsCounted
  <1>4. ReportsTypeOK /\ DetectorTypeOK
    BY DEF DetectorInv, ReportsInv, ReportsWellFormed
  <1>5. DetectorTypeOK'
    BY <1>1, <1>4 DEF DetectorTypeOK, ReportsTypeOK
  <1>6. NothingMissed' /\ FilesSeen'
    BY <1>1 DEF DetectorInv, NothingMissed, FilesSeen
  <1>7. ReportsGrow'
    <2>1. \A j \in Jobs : report[j] # NoFile => Continues(report[j], report[j])
      BY ReportTyped DEF DetectorInv, Continues, Lines
    <2> QED BY <1>1, <1>2, <2>1 DEF DetectorInv, ReportsGrow
  <1>8. ReportsCounted'
    <2>1. Since' = now - Window /\ now \in Nat /\ Window \in Nat
      BY <1>1, <1>4, DetectorAssumption DEF Since, ReportsTypeOK
    <2>2. ASSUME NEW j \in Jobs, report[j] # NoFile, NEW i \in Entries(report[j], now - Window + 1)
          PROVE  j \in toRead'
      <3>1. report[j] \in Lines
        BY <2>2, ReportTyped DEF DetectorInv
      <3>2. /\ i \in 1 .. Len(report[j]) /\ report[j][i] # Header
            /\ report[j][i].at \in Nat /\ report[j][i].at >= now - Window + 1
        <4>1. now - Window + 1 \in Int
          BY <2>1
        <4> QED BY <2>2, <3>1, <4>1, EntriesTyped DEF Entries
      <3>3. report[j][i].at <= mtime[j] /\ mtime[j] \in Nat
        BY <1>4, <2>2, <3>2 DEF DetectorInv, ReportsGrow, ReportsTypeOK
      <3>4. now - mtime[j] < Window
        BY <2>1, <3>2, <3>3
      <3> QED BY <1>1, <2>2, <3>4
    <2>3. \A j \in Jobs : listed'[j] # NoFile /\ Entries(listed'[j], Since' + 1) # {} => j \in toRead'
      BY <1>1, <2>1, <2>2
    <2>4. \A j \in toRead' : report'[j] # NoFile
      BY <1>1, <1>2
    <2> QED BY <1>1, <1>3, <2>3, <2>4 DEF ReportsCounted
  <1> QED BY <1>1, <1>2, <1>3, <1>5, <1>6, <1>7, <1>8, NothingTold DEF DetectorInv

\* What is counted in a report when it is read.
LEMMA Consolidated ==
  ASSUME DetectorInv, NEW j \in Jobs, report[j] # NoFile, ~Invalid(report[j]), NEW v \in Volumes
  PROVE  /\ Consolidate(report[j])[v] \in Nat
         /\ Consolidate(report[j])[v] <= Cardinality(Performed(report[j], v, Since))
         /\ OneNode(j) /\ j \notin abandoned /\ listed[j] # NoFile =>
              Consolidate(report[j])[v] >= Cardinality(Performed(listed[j], v, Since + 1))
  <1> DEFINE read == {i \in 2 .. Len(report[j]) : report[j][i].at >= Since /\ v \in report[j][i].ops}
  <1>1. report[j] \in Lines /\ Len(report[j]) \in Nat
    BY ReportTyped DEF DetectorInv, Lines
  <1>2. Since \in Int /\ Since + 1 \in Int
    BY TimesTyped DEF DetectorInv
  <1>3. Consolidate(report[j])[v] = Cardinality(read)
    BY DEF Consolidate
  <1>4. read \in SUBSET Performed(report[j], v, Since)
    <2> SUFFICES ASSUME NEW i \in read PROVE i \in Performed(report[j], v, Since)
      OBVIOUS
    <2>1. i \in 2 .. Len(report[j]) /\ i \in 1 .. Len(report[j])
      BY <1>1
    <2>2. report[j][i] # Header
      BY <2>1 DEF Invalid
    <2> QED BY <2>1, <2>2 DEF Performed, Entries
  <1> HIDE DEF read
  <1>5. IsFiniteSet(read) /\ Cardinality(read) \in Nat
        /\ Cardinality(read) <= Cardinality(Performed(report[j], v, Since))
    BY <1>1, <1>2, <1>4, PerformedFinite, FS_Subset, FS_CardinalityType
  <1>6. ASSUME OneNode(j), j \notin abandoned, listed[j] # NoFile
        PROVE  Cardinality(read) >= Cardinality(Performed(listed[j], v, Since + 1))
    <2>1. listed[j] \in Lines /\ Continues(report[j], listed[j])
      BY <1>6, ListedTyped DEF DetectorInv, ReportsGrow
    <2>2. WellFormed(report[j])
      BY <1>6 DEF DetectorInv, ReportsInv, ReportsWellFormed
    <2>3. Performed(listed[j], v, Since + 1) \in SUBSET read
      <3> SUFFICES ASSUME NEW i \in Performed(listed[j], v, Since + 1) PROVE i \in read
        OBVIOUS
      <3>1. i \in Entries(listed[j], Since + 1) /\ v \in listed[j][i].ops
        BY DEF Performed
      <3>2. i \in Entries(report[j], Since) /\ report[j][i] = listed[j][i]
        BY <1>1, <1>2, <2>1, <3>1, EntriesGrow
      <3>3. i \in 1 .. Len(report[j]) /\ report[j][i] # Header /\ report[j][i].at >= Since
        BY <3>2 DEF Entries
      <3>4. i # 1
        BY <2>2, <3>3 DEF WellFormed
      <3> QED BY <1>1, <3>1, <3>2, <3>3, <3>4 DEF read
    <2>4. /\ Cardinality(Performed(listed[j], v, Since + 1)) <= Cardinality(read)
          /\ Cardinality(Performed(listed[j], v, Since + 1)) \in Nat
      BY <1>2, <1>5, <2>1, <2>3, FS_Subset, PerformedFinite
    <2> QED BY <1>5, <2>4
  <1> QED BY <1>3, <1>5, <1>6

LEMMA ReadReportOK ==
  ASSUME DetectorInv, ReadReport
  PROVE  DetectorInv'
  <1>1. /\ det = "read" /\ UNCHANGED reportVars
        /\ xml' = xml /\ xmlTime' = xmlTime /\ filesLastModified' = filesLastModified
        /\ filesToCheck' = filesToCheck /\ errors' = errors
        /\ aggrOf' = aggrOf /\ currentTime' = currentTime
        /\ topJobs' = topJobs /\ judged' = judged /\ listed' = listed
    BY DEF ReadReport, xmlVars
  <1>2. ReportsInv' /\ report' = report /\ abandoned' = abandoned /\ ReportsGrow' /\ Since' = Since
    BY <1>1, ReportsUntouched DEF Since
  <1>3. PICK j \in toRead :
       IF Invalid(report[j])
         THEN det' = "dead" /\ UNCHANGED <<toRead, consolidated>>
         ELSE /\ consolidated' = [consolidated EXCEPT ![j] = Consolidate(report[j])]
              /\ toRead' = toRead \ {j}
              /\ UNCHANGED det
    BY DEF ReadReport
  <1>4. ReportsCounted /\ DetectorTypeOK /\ topJobs = {} /\ filesToCheck = {}
    BY <1>1 DEF DetectorInv, ReportsCounted, FilesSeen
  <1>5. j \in Jobs /\ report[j] # NoFile
    BY <1>1, <1>3, <1>4 DEF DetectorTypeOK, ReportsCounted
  <1>6. CASE Invalid(report[j])
    <2>1. det' = "dead" /\ toRead' = toRead /\ consolidated' = consolidated
      BY <1>3, <1>6
    <2>2. DetectorTypeOK' /\ NothingMissed' /\ FilesSeen'
      BY <1>1, <2>1 DEF DetectorInv, DetectorTypeOK, NothingMissed, FilesSeen
    <2>3. ReportsCounted'
      BY <1>1, <1>2, <1>4, <2>1 DEF ReportsCounted, OneNode
    <2> QED BY <1>1, <1>2, <1>4, <2>1, <2>2, <2>3, NothingTold DEF DetectorInv
  <1>7. CASE ~Invalid(report[j])
    <2>1. /\ det' = "read" /\ toRead' = toRead \ {j}
          /\ consolidated' = [consolidated EXCEPT ![j] = Consolidate(report[j])]
      BY <1>1, <1>3, <1>7
    <2> DEFINE c == Consolidate(report[j])
    <2>2. /\ c \in [Volumes -> Nat] /\ c # NULL
          /\ \A v \in Volumes :
               /\ c[v] <= Cardinality(Performed(report[j], v, Since))
               /\ OneNode(j) /\ j \notin abandoned /\ listed[j] # NoFile =>
                    c[v] >= Cardinality(Performed(listed[j], v, Since + 1))
      <3>1. c = [v \in Volumes |-> c[v]]
        BY DEF Consolidate
      <3> HIDE DEF c
      <3>2. ASSUME NEW v \in Volumes
            PROVE  /\ c[v] \in Nat
                   /\ c[v] <= Cardinality(Performed(report[j], v, Since))
                   /\ OneNode(j) /\ j \notin abandoned /\ listed[j] # NoFile =>
                        c[v] >= Cardinality(Performed(listed[j], v, Since + 1))
        BY <1>5, <1>7, Consolidated DEF c
      <3>3. c \in [Volumes -> Nat]
        BY <3>1, <3>2
      <3> QED BY <3>2, <3>3, DetectorAssumption
    <2>3. consolidated'[j] = c /\ \A k \in Jobs : k # j => consolidated'[k] = consolidated[k]
      BY <1>4, <1>5, <2>1 DEF DetectorTypeOK
    <2> HIDE DEF c
    <2>4. DetectorTypeOK'
      <3>1. consolidated' = [consolidated EXCEPT ![j] = c]
        BY <2>1 DEF c
      <3>2. consolidated' \in [Jobs -> [Volumes -> Nat] \cup {NULL}]
        BY <1>4, <2>2, <3>1 DEF DetectorTypeOK
      <3>3. toRead' \subseteq Jobs
        BY <1>4, <2>1 DEF DetectorTypeOK
      <3> QED BY <1>1, <1>4, <2>1, <3>2, <3>3 DEF DetectorTypeOK
    <2>5. NothingMissed' /\ FilesSeen'
      BY <1>1, <2>1 DEF DetectorInv, NothingMissed, FilesSeen
    <2>6. ReportsCounted'
      <3>1. ASSUME NEW k \in Jobs, consolidated'[k] # NULL
            PROVE  /\ report[k] # NoFile
                   /\ \A v \in Volumes :
                        /\ consolidated'[k][v] <= Cardinality(Performed(report[k], v, Since))
                        /\ OneNode(k) /\ k \notin abandoned /\ listed[k] # NoFile =>
                             consolidated'[k][v] >= Cardinality(Performed(listed[k], v, Since + 1))
        <4>1. CASE k = j
          BY <1>5, <2>2, <2>3, <4>1
        <4>2. CASE k # j
          BY <1>4, <2>3, <3>1, <4>2 DEF ReportsCounted
        <4> QED BY <4>1, <4>2
      <3>2. ASSUME NEW k \in Jobs, listed[k] # NoFile, Entries(listed[k], Since + 1) # {}
            PROVE  k \in toRead' \/ consolidated'[k] # NULL
        BY <1>1, <1>4, <2>1, <2>2, <2>3, <3>2 DEF ReportsCounted
      <3>3. \A k \in toRead' : report[k] # NoFile
        BY <1>1, <1>4, <2>1 DEF ReportsCounted
      <3> QED BY <1>1, <1>2, <1>4, <2>1, <3>1, <3>2, <3>3 DEF ReportsCounted, OneNode
    <2> QED BY <1>1, <1>2, <1>4, <2>1, <2>4, <2>5, <2>6, NothingTold DEF DetectorInv
  <1> QED BY <1>6, <1>7

\* What the operations of a job on a target add up to.
LEMMA CountTyped ==
  ASSUME DetectorInv, NEW j \in Jobs, NEW t \in Target, On(j, t) # {}
  PROVE  /\ Count(j, t) \in Nat /\ consolidated[j] \in [Volumes -> Nat]
         /\ AtMost(j, t) > 0
         /\ t.level = "volume" => /\ <<t.filer, t.name>> \in Volumes
                                  /\ On(j, t) = {<<t.filer, t.name>>}
                                  /\ Count(j, t) = consolidated[j][<<t.filer, t.name>>]
  <1>1. consolidated[j] # NULL /\ consolidated[j] \in [Volumes -> Nat] /\ report[j] # NoFile
    BY DEF DetectorInv, DetectorTypeOK, ReportsCounted, On
  <1>2. On(j, t) \subseteq Volumes /\ IsFiniteSet(On(j, t)) /\ Cardinality(On(j, t)) \in Nat
    <2>1. On(j, t) \in SUBSET Volumes
      BY DEF On
    <2> QED BY <2>1, VolumesFinite, FS_Subset, FS_CardinalityType
  <1>3. Total(consolidated[j], On(j, t)) \in Nat
    BY <1>1, <1>2, SumOfCounts
  <1>4. Count(j, t) \in Nat
    BY <1>2, <1>3 DEF Count
  <1>5. Since \in Int /\ Since = currentTime - Window
    BY TimesTyped DEF DetectorInv
  <1>6. report[j] \in Lines
    BY <1>1, ReportTyped DEF DetectorInv
  <1>7. AtMost(j, t) > 0
    <2>1. PICK v \in On(j, t) : v \in Volumes /\ consolidated[j][v] > 0 /\ Holds(v, t, aggrOf)
      BY DEF On, Holds
    <2>2. Cardinality(Performed(report[j], v, Since)) > 0
      <3>1. consolidated[j][v] <= Cardinality(Performed(report[j], v, Since))
        BY <1>1, <2>1 DEF DetectorInv, ReportsCounted
      <3> QED BY <1>1, <1>5, <1>6, <2>1, <3>1, PerformedFinite
    <2>3. PICK i : i \in Performed(report[j], v, Since)
      BY <2>2, FS_EmptySet
    <2>4. <<i, v>> \in OperationsIn(report[j], t, Since, aggrOf)
      BY <2>1, <2>3 DEF Performed, OperationsIn
    <2>5. Cardinality(OperationsIn(report[j], t, Since, aggrOf)) # 0
      BY <1>5, <1>6, <2>4, OperationsFinite, FS_EmptySet
    <2> QED BY <1>5, <1>6, <2>5, OperationsFinite DEF AtMost
  <1>8. ASSUME t.level = "volume"
        PROVE  /\ <<t.filer, t.name>> \in Volumes
               /\ On(j, t) = {<<t.filer, t.name>>}
               /\ Count(j, t) = consolidated[j][<<t.filer, t.name>>]
    <2> DEFINE v == <<t.filer, t.name>>
    <2>1. v \in Volumes
      BY <1>8, DetectorAssumption DEF Target
    <2>2. \A u \in On(j, t) : u = v
      BY <1>8, DetectorAssumption DEF On
    <2>3. On(j, t) = {v}
      BY <2>2
    <2> HIDE DEF v
    <2>4. Total(consolidated[j], On(j, t)) = consolidated[j][v]
      BY <1>1, <1>2, <2>3, SumOfCounts
    <2>5. Cardinality(On(j, t)) = 1 /\ consolidated[j][v] \in Nat
      BY <1>1, <2>1, <2>3, FS_Singleton
    <2>6. Count(j, t) = consolidated[j][v]
      BY <2>4, <2>5 DEF Count
    <2> QED BY <2>1, <2>3, <2>6 DEF v
  <1> QED BY <1>1, <1>4, <1>7, <1>8

\* A number that is reported of a volume.
LEMMA CountTrue ==
  ASSUME DetectorInv, NEW j \in Jobs, NEW t \in Target, On(j, t) # {}, t.level = "volume",
         OneNode(j), j \notin abandoned
  PROVE  Count(j, t) \in AtLeast(j, t) .. AtMost(j, t)
  <1> DEFINE v == <<t.filer, t.name>>
  <1>1. v \in Volumes /\ Count(j, t) = consolidated[j][v] /\ Count(j, t) \in Nat
    BY CountTyped
  <1>2. consolidated[j] # NULL /\ report[j] \in Lines
    BY ReportTyped DEF DetectorInv, ReportsCounted, On
  <1>3. Since \in Int /\ Since = currentTime - Window /\ Since + 1 \in Int
        /\ currentTime - Window + 1 = Since + 1
    BY TimesTyped DEF DetectorInv
  <1>4. AtMost(j, t) = Cardinality(Performed(report[j], v, Since)) /\ AtMost(j, t) \in Nat
    BY <1>2, <1>3, VolumeOperations, PerformedFinite DEF AtMost
  <1>5. Count(j, t) <= AtMost(j, t)
    BY <1>1, <1>2, <1>4 DEF DetectorInv, ReportsCounted
  <1>6. AtLeast(j, t) \in Nat /\ AtLeast(j, t) <= Count(j, t)
    <2>1. CASE listed[j] = NoFile
      BY <1>1, <2>1 DEF AtLeast, Operations
    <2>2. CASE listed[j] # NoFile
      <3>1. listed[j] \in Lines
        BY <2>2, ListedTyped DEF DetectorInv
      <3>2. /\ AtLeast(j, t) = Cardinality(Performed(listed[j], v, Since + 1))
            /\ AtLeast(j, t) \in Nat
        BY <1>3, <3>1, VolumeOperations, PerformedFinite DEF AtLeast
      <3> QED BY <1>1, <1>2, <2>2, <3>2 DEF DetectorInv, ReportsCounted
    <2> QED BY <2>1, <2>2
  <1> QED BY <1>1, <1>4, <1>5, <1>6

\* A job with operations in the window was read.
LEMMA AllFound ==
  ASSUME DetectorInv, det = "read", toRead = {}, NEW j \in Jobs, NEW t \in Target,
         AtLeast(j, t) > 0, OneNode(j), j \notin abandoned
  PROVE  On(j, t) # {}
  <1>1. Since \in Int /\ Since + 1 \in Int /\ currentTime - Window + 1 = Since + 1
    BY TimesTyped DEF DetectorInv
  <1>2. listed[j] # NoFile
    BY DEF AtLeast, Operations
  <1>3. listed[j] \in Lines
    BY <1>2, ListedTyped DEF DetectorInv
  <1>4. OperationsIn(listed[j], t, Since + 1, aggrOf) # {}
    <2>1. Cardinality(OperationsIn(listed[j], t, Since + 1, aggrOf)) # 0
      BY <1>1, <1>3, OperationsFinite DEF AtLeast
    <2> QED BY <2>1, FS_EmptySet
  <1>5. PICK p : p \in OperationsIn(listed[j], t, Since + 1, aggrOf)
    BY <1>4
  <1>6. /\ p[1] \in Entries(listed[j], Since + 1) /\ p[2] \in Volumes
        /\ p[2] \in listed[j][p[1]].ops /\ Holds(p[2], t, aggrOf)
    BY <1>5 DEF OperationsIn
  <1>7. consolidated[j] # NULL
    BY <1>2, <1>6 DEF DetectorInv, ReportsCounted
  <1>8. consolidated[j][p[2]] >= Cardinality(Performed(listed[j], p[2], Since + 1))
    BY <1>2, <1>6, <1>7 DEF DetectorInv, ReportsCounted
  <1>9. Cardinality(Performed(listed[j], p[2], Since + 1)) > 0
    <2>1. p[1] \in Performed(listed[j], p[2], Since + 1)
      BY <1>6 DEF Performed
    <2> QED BY <1>1, <1>3, <2>1, PerformedFinite, FS_EmptySet
  <1>10. consolidated[j][p[2]] \in Nat /\ consolidated[j][p[2]] > 0
    <2>1. consolidated[j][p[2]] \in Nat
      BY <1>6, <1>7 DEF DetectorInv, DetectorTypeOK
    <2>2. Cardinality(Performed(listed[j], p[2], Since + 1)) \in Nat
      BY <1>1, <1>3, PerformedFinite
    <2> QED BY <1>8, <1>9, <2>1, <2>2
  <1>11. p[2] \in On(j, t)
    BY <1>6, <1>7, <1>10 DEF On, Holds
  <1> QED BY <1>11

LEMMA MinOfTwo ==
  ASSUME NEW a \in Nat, NEW b \in Nat
  PROVE  Min({a, b}) \in {a, b}
  <1>1. \E x \in {a, b} : \A y \in {a, b} : x <= y
    OBVIOUS
  <1> QED BY <1>1 DEF Min

\* A job is among the first of the list, or the list is full with jobs that did
\* as much.
LEMMA TopComplete ==
  ASSUME NEW js \in SUBSET Jobs, NEW t, IsTop(js, t),
         NEW j \in Jobs, On(j, t) # {}, j \notin js
  PROVE  Cardinality(js) = NumTop /\ \A k \in js : Count(k, t) >= Count(j, t)
  <1> DEFINE all == {k \in Jobs : On(k, t) # {}}
  <1>1. /\ js \subseteq all /\ Cardinality(js) = Min({NumTop, Cardinality(all)})
        /\ \A k \in js, l \in all \ js : Count(k, t) >= Count(l, t)
    BY DEF IsTop
  <1>2. j \in all
    OBVIOUS
  <1>3. IsFiniteSet(all) /\ Cardinality(all) \in Nat
    BY DetectorAssumption, FS_Subset, FS_CardinalityType
  <1> HIDE DEF all
  <1>4. Cardinality(js) # Cardinality(all)
    BY <1>1, <1>2, <1>3, FS_Subset
  <1>5. Min({NumTop, Cardinality(all)}) \in {NumTop, Cardinality(all)}
    BY <1>3, MinOfTwo, DetectorAssumption
  <1> QED BY <1>1, <1>2, <1>4, <1>5

LEMMA PublishOK ==
  ASSUME DetectorInv, Publish
  PROVE  DetectorInv'
  <1>1. /\ det = "read" /\ det' = "sleep" /\ toRead = {} /\ UNCHANGED reportVars
        /\ xml' = xml /\ xmlTime' = xmlTime /\ filesLastModified' = filesLastModified
        /\ filesToCheck' = filesToCheck /\ errors' = errors
        /\ aggrOf' = aggrOf /\ currentTime' = currentTime /\ toRead' = toRead
        /\ consolidated' = [j \in Jobs |-> NULL] /\ judged' = judged /\ listed' = listed
    BY DEF Publish, xmlVars
  <1>2. ReportsInv' /\ report' = report /\ abandoned' = abandoned /\ ReportsGrow'
    BY <1>1, ReportsUntouched
  <1> DEFINE Entered(t, j) == [target |-> t, job |-> j, count |-> Count(j, t)]
  <1>3. PICK top \in [errors -> SUBSET Jobs] :
          /\ \A t \in errors : IsTop(top[t], t)
          /\ topJobs' = UNION {{Entered(t, j) : j \in top[t]} : t \in errors}
    BY DEF Publish
  <1>4. DetectorTypeOK /\ errors \subseteq Target
    BY DEF DetectorInv, DetectorTypeOK
  <1>5. ASSUME NEW t \in errors
        PROVE  /\ top[t] \in SUBSET Jobs /\ IsTop(top[t], t) /\ t \in Target
               /\ \A j \in top[t] : j \in Jobs /\ On(j, t) # {}
    BY <1>3, <1>4 DEF IsTop
  <1> HIDE DEF Entered
  <1>6. ASSUME NEW x \in topJobs'
        PROVE  \E t \in errors : \E j \in top[t] : x = Entered(t, j)
    BY <1>3
  <1>7. ASSUME NEW t \in errors, NEW j \in top[t]
        PROVE  Entered(t, j) \in topJobs'
    BY <1>3
  <1>8. \A t, j : Entered(t, j).target = t /\ Entered(t, j).job = j /\ Entered(t, j).count = Count(j, t)
    BY DEF Entered
  <1>9. DetectorTypeOK'
    <2>1. topJobs' \subseteq [target : Target, job : Jobs, count : Nat]
      <3> SUFFICES ASSUME NEW x \in topJobs' PROVE x \in [target : Target, job : Jobs, count : Nat]
        OBVIOUS
      <3>0. PICK t \in errors : \E j \in top[t] : x = Entered(t, j)
        BY <1>6
      <3>1. PICK j \in top[t] : x = Entered(t, j)
        BY <3>0
      <3>2. t \in Target /\ j \in Jobs /\ Count(j, t) \in Nat
        BY <1>5, CountTyped
      <3> QED BY <3>1, <3>2 DEF Entered
    <2> QED BY <1>1, <1>4, <2>1 DEF DetectorTypeOK
  <1>10. NothingMissed' /\ FilesSeen'
    BY <1>1 DEF DetectorInv, NothingMissed, FilesSeen
  <1>11. ReportsCounted'
    BY <1>1 DEF ReportsCounted
  <1>12. /\ \A j, t : AtLeast(j, t)' = AtLeast(j, t)
         /\ \A j, t : AtMost(j, t)' = AtMost(j, t)
         /\ \A t : Told(t)' = {x \in topJobs' : x.target = t}
    BY <1>1, <1>2 DEF AtLeast, AtMost, Told
  <1>13. TellsTrue'
    <2>1. ASSUME NEW x \in topJobs'
          PROVE  /\ AtMost(x.job, x.target) > 0
                 /\ x.target.level = "volume" /\ OneNode(x.job) /\ x.job \notin abandoned =>
                      x.count \in AtLeast(x.job, x.target) .. AtMost(x.job, x.target)
      <3>0. PICK t \in errors : \E j \in top[t] : x = Entered(t, j)
        BY <1>6, <2>1
      <3>1. PICK j \in top[t] : x = Entered(t, j)
        BY <3>0
      <3>2. x.target = t /\ x.job = j /\ x.count = Count(j, t)
        BY <1>8, <3>1
      <3>3. t \in Target /\ j \in Jobs /\ On(j, t) # {}
        BY <1>5
      <3> QED BY <3>2, <3>3, CountTyped, CountTrue
    <2>2. ASSUME NEW t \in errors, NEW j \in Jobs,
                 AtLeast(j, t) > 0, OneNode(j), j \notin abandoned
          PROVE  \/ \E x \in topJobs' : x.target = t /\ x.job = j
                 \/ /\ Cardinality(Told(t)') = NumTop
                    /\ t.level = "volume" =>
                         \A x \in topJobs' : x.target = t => x.count >= AtLeast(j, t)
      <3>1. t \in Target /\ On(j, t) # {}
        BY <1>1, <1>5, <2>2, AllFound
      <3>2. CASE j \in top[t]
        BY <1>7, <1>8, <3>2
      <3>3. CASE j \notin top[t]
        <4>1. Cardinality(top[t]) = NumTop /\ \A k \in top[t] : Count(k, t) >= Count(j, t)
          BY <1>5, <3>1, <3>3, TopComplete
        <4>2. Cardinality(Told(t)') = Cardinality(top[t])
          <5> DEFINE f == [k \in top[t] |-> Entered(t, k)]
          <5>1. f \in [top[t] -> Told(t)']
            BY <1>7, <1>8, <1>12
          <5>2. \A k, l \in top[t] : f[k] = f[l] => k = l
            BY <1>8
          <5>3. \A x \in Told(t)' : \E k \in top[t] : f[k] = x
            <6> SUFFICES ASSUME NEW x \in Told(t)' PROVE \E k \in top[t] : f[k] = x
              OBVIOUS
            <6>1. x \in topJobs' /\ x.target = t
              BY <1>12
            <6>0. PICK u \in errors : \E k \in top[u] : x = Entered(u, k)
              BY <1>6, <6>1
            <6>2. PICK k \in top[u] : x = Entered(u, k)
              BY <6>0
            <6>3. u = t
              BY <1>8, <6>1, <6>2
            <6> QED BY <6>2, <6>3
          <5> HIDE DEF f
          <5>4. ExistsBijection(top[t], Told(t)')
            BY <5>1, <5>2, <5>3 DEF ExistsBijection, Bijection, Injection, Surjection, IsInjective
          <5>5. IsFiniteSet(top[t])
            BY <1>5, DetectorAssumption, FS_Subset
          <5> QED BY <5>4, <5>5, FS_Bijection
        <4>3. ASSUME t.level = "volume", NEW x \in topJobs', x.target = t
              PROVE  x.count >= AtLeast(j, t)
          <5>0. PICK u \in errors : \E k \in top[u] : x = Entered(u, k)
            BY <1>6, <4>3
          <5>1. PICK k \in top[u] : x = Entered(u, k)
            BY <5>0
          <5>2. u = t /\ x.count = Count(k, t)
            BY <1>8, <4>3, <5>1
          <5>3. Count(k, t) >= Count(j, t) /\ Count(k, t) \in Nat
            BY <1>5, <4>1, <5>1, <5>2, CountTyped
          <5>4. Count(j, t) \in AtLeast(j, t) .. AtMost(j, t) /\ Count(j, t) \in Nat
            BY <2>2, <3>1, <4>3, CountTrue, CountTyped
          <5>5. AtLeast(j, t) \in Int
            <6>1. currentTime - Window + 1 = Since + 1 /\ Since + 1 \in Int
              BY <1>4, TimesTyped
            <6>2. listed[j] # NoFile => listed[j] \in Lines
              BY <1>4, ListedTyped
            <6>3. listed[j] # NoFile => AtLeast(j, t) \in Nat
              BY <6>1, <6>2, OperationsFinite DEF AtLeast
            <6>4. listed[j] = NoFile => AtLeast(j, t) = 0
              BY DEF AtLeast, Operations
            <6> QED BY <6>3, <6>4
          <5> QED BY <5>2, <5>3, <5>4, <5>5
        <4> QED BY <4>1, <4>2, <4>3
      <3> QED BY <3>2, <3>3
    <2> QED BY <1>1, <1>2, <1>12, <2>1, <2>2 DEF TellsTrue, OneNode
  <1> QED BY <1>2, <1>9, <1>10, <1>11, <1>13 DEF DetectorInv

LEMMA DetectorNext == DetectorInv /\ [Next]_vars => DetectorInv'
  <1> SUFFICES ASSUME DetectorInv, [Next]_vars PROVE DetectorInv'
    OBVIOUS
  <1>1. CASE Detect
    BY <1>1, ScanOK, CheckFileOK, NoErrorsOK, ListReportsOK, ReadReportOK, PublishOK, WakeOK DEF Detect
  <1>2. CASE Others
    BY <1>2, AgentsOK, MonitorOK DEF Others, Monitor
  <1>3. CASE UNCHANGED vars
    <2>1. ReportsInv' /\ report' = report /\ mtime' = mtime /\ now' = now /\ abandoned' = abandoned
      BY <1>3, ReportsUntouched DEF vars
    <2>2. DetectorTypeOK' /\ NothingMissed' /\ FilesSeen'
      BY <1>3 DEF vars, xmlVars, detVars, DetectorInv, DetectorTypeOK, NothingMissed, FilesSeen
    <2>3. ReportsGrow' /\ ReportsCounted' /\ TellsTrue'
      BY <1>3, <2>1 DEF vars, xmlVars, detVars, DetectorInv, ReportsGrow, ReportsCounted,
                        TellsTrue, AtMost, AtLeast, Told, Since, OneNode
    <2> QED BY <2>1, <2>2, <2>3 DEF DetectorInv
  <1> QED BY <1>1, <1>2, <1>3 DEF Next

\* Agents and the monitor may write between any two steps of the detector: what
\* the detector has seen, read and counted stands to the files as DetectorInv
\* says, for any filers, jobs, documents, limits and window.
THEOREM DetectorCorrect == Spec => []DetectorInv
  BY DetectorInitOK, DetectorNext, PTL DEF Spec

\* With the detector looking on, reports of one node are well formed.
THEOREM ReportsReadWell == Spec => []ReportsInv
  <1>1. DetectorInv => ReportsInv
    BY DEF DetectorInv
  <1> QED BY <1>1, DetectorCorrect, PTL

\* What the report of the detector says is true, and no job that did more on a
\* volume is left out of it.
THEOREM ReportTrue == Spec => []TellsTrue
  <1>1. DetectorInv => TellsTrue
    BY DEF DetectorInv
  <1> QED BY <1>1, DetectorCorrect, PTL

\* A counter file that a scan passes over was judged as it is.
THEOREM ChangesSeen == Spec => []NothingMissed
  <1>1. DetectorInv => NothingMissed
    BY DEF DetectorInv
  <1> QED BY <1>1, DetectorCorrect, PTL
=============================================================================
