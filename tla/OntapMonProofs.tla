--------------------------- MODULE OntapMonProofs ---------------------------
(***************************************************************************)
(* The monitor never waits for a lost result and never has two writers on  *)
(* a file, for every set of filers and volumes, every number of threads    *)
(* and every sequence of faults: MonitorInv of OntapMon is inductive.      *)
(***************************************************************************)
EXTENDS OntapMon, FiniteSetTheorems, SequenceTheorems, TLAPS

-----------------------------------------------------------------------------
(***************************************************************************)
(* Documents.                                                              *)
(***************************************************************************)
Part(n, d) == [part |-> n, data |-> d]

\* The three things a file that is written in two parts can hold.
LEMMA Beginnings ==
  ASSUME NEW d
  PROVE  /\ Document(d) = <<Part(1, d), Part(2, d)>>
         /\ IsPrefix(<< >>, Document(d))
         /\ IsPrefix(<<Part(1, d)>>, Document(d))
         /\ IsPrefix(Document(d), Document(d))
  BY DEF Document, Part, IsPrefix

\* What two parts of a document in a row can be.
LEMMA Splits ==
  ASSUME NEW f \in Filers, NEW S, NEW s \in Seq(S), NEW w \in Seq(S), w # << >>, s \o w \in Docs[f]
  PROVE  \E d \in FilerData :
           \/ s = << >> /\ w = <<Part(1, d), Part(2, d)>>
           \/ s = <<Part(1, d)>> /\ w = <<Part(2, d)>>
  <1>1. PICK d \in FilerData : s \o w = <<Part(1, d), Part(2, d)>>
    BY Beginnings DEF Docs
  <1>2. Len(s) \in Nat /\ Len(w) \in Nat /\ Len(s \o w) = Len(s) + Len(w)
    OBVIOUS
  <1>3. Len(s \o w) = 2 /\ Len(w) # 0
    BY <1>1
  <1>4. CASE Len(s) = 0
    <2>1. s = << >> /\ s \o w = w
      BY <1>4
    <2> QED BY <1>1, <2>1
  <1>5. CASE Len(s) = 1
    <2>1. s = <<s[1]>> /\ w = <<w[1]>> /\ (s \o w)[1] = s[1] /\ (s \o w)[2] = w[1]
      BY <1>2, <1>3, <1>5
    <2> QED BY <1>1, <2>1
  <1>6. Len(s) = 0 \/ Len(s) = 1
    <2>1. \A m, n \in Nat : m + n = 2 /\ n # 0 => m = 0 \/ m = 1
      OBVIOUS
    <2>2. Len(s) + Len(w) = 2
      BY <1>2, <1>3
    <2> QED BY <1>2, <1>3, <2>1, <2>2
  <1> QED BY <1>4, <1>5, <1>6

\* The lists that SetToSeq() makes of a finite set.
LEMMA Listed ==
  ASSUME NEW S \in SUBSET Filers
  PROVE  /\ SetToSeq(S) \in Seq(S)
         /\ \A i, j \in DOMAIN SetToSeq(S) : SetToSeq(S)[i] = SetToSeq(S)[j] => i = j
  <1>1. IsFiniteSet(S)
    BY SentinelAssumption, FS_Subset
  <1>2. Cardinality(S) \in Nat /\ ExistsBijection(1 .. Cardinality(S), S)
    BY <1>1, FS_CardinalityType
  <1>3. \E g \in [1 .. Cardinality(S) -> S] : IsInjective(g)
    BY <1>2 DEF ExistsBijection, Bijection, Injection
  <1>4. SetToSeq(S) \in [1 .. Cardinality(S) -> S] /\ IsInjective(SetToSeq(S))
    BY <1>3 DEF SetToSeq
  <1> QED BY <1>2, <1>4 DEF IsInjective

-----------------------------------------------------------------------------
(***************************************************************************)
(* Types.                                                                  *)
(***************************************************************************)
WorkerRec == [at : Places, filer : Filers \cup {NULL}, err : {-1, 0}]

\* The filers and threads that the code looks at are such.
LEMMA InHand ==
  ASSUME MonitorInv, NEW t \in Threads, worker[t].at \notin {"off", "get"}
  PROVE  /\ t \in Busy
         /\ worker[t] \in WorkerRec
         /\ worker[t].filer \in Filers
         /\ filerData[worker[t].filer] \in FilerData
  <1>1. worker \in [Threads -> WorkerRec] /\ filerData \in [Filers -> FilerData \cup {NULL}]
    BY DEF MonitorInv, MTypeOK, WorkerRec
  <1>2. t \in Busy
    BY DEF Busy
  <1>3. worker[t].filer \in Filers /\ filerData[worker[t].filer] # NULL
    BY <1>2 DEF MonitorInv, DataKnown
  <1> QED BY <1>1, <1>2, <1>3 DEF WorkerRec

ResultRec == [err : {-1, 0}, filer : Filers]

LEMMA QueuesTyped ==
  ASSUME MonitorInv
  PROVE  /\ \A i \in DOMAIN workq : workq[i] \in Filers
         /\ \A i \in DOMAIN resultq : resultq[i] \in ResultRec /\ resultq[i].filer \in Filers
  <1>1. workq \in Seq(Filers) /\ resultq \in Seq(ResultRec)
    BY DEF MonitorInv, MTypeOK, ResultRec
  <1>2. \A i \in DOMAIN workq : workq[i] \in Filers
    BY <1>1
  <1>3. \A i \in DOMAIN resultq : resultq[i] \in ResultRec
    BY <1>1
  <1> QED BY <1>2, <1>3 DEF ResultRec

\* What the parts of perf_mon() leave in filerDataDict.
LEMMA DataTyped ==
  ASSUME MonitorInv, NEW f \in Filers, filerData[f] \in FilerData
  PROVE  /\ \A vs \in SUBSET Volumes : WithCounters(f, vs) \in FilerData
         /\ WithAggr(f) \in FilerData
         /\ WithDomain(f) \in FilerData
         /\ \A vs \in SUBSET Known(f) : WithSpace(f, vs) \in FilerData
         /\ WithVolumes(f) \in FilerData
         /\ \A place \in {"aggr", "domain", "vols"} : Partly(f, place) \subseteq FilerData
  <1>1. dfm[f] \in FilerState
    BY DEF MonitorInv, MTypeOK
  <1>2. /\ dfm[f].busy \in Level /\ dfm[f].domain \in Level /\ dfm[f].vols \subseteq Volumes
        /\ 0 \in Level /\ 1 \in Level
    BY <1>1 DEF FilerState, Level
  <1>3. /\ filerData[f].vols \in [Volumes -> VolumeData \cup {NULL}]
        /\ filerData[f].maxdiskb \in Level /\ filerData[f].dvalue \in Level
    BY DEF FilerData
  <1>4. ASSUME NEW vs \in SUBSET Volumes PROVE WithCounters(f, vs) \in FilerData
    <2> DEFINE new == [v \in Volumes |->
                 IF v \notin vs THEN filerData[f].vols[v]
                 ELSE [avglatency |-> dfm[f].busy,
                       availsize |-> IF filerData[f].vols[v] = NULL THEN 0
                                     ELSE filerData[f].vols[v].availsize]]
    <2>1. new \in [Volumes -> VolumeData \cup {NULL}]
      BY <1>2, <1>3 DEF VolumeData
    <2>2. WithCounters(f, vs) = [filerData[f] EXCEPT !.maxdiskb = MaxDisk(f), !.vols = new]
      BY DEF WithCounters
    <2> QED BY <1>2, <2>1, <2>2 DEF FilerData, MaxDisk
  <1>5. WithDomain(f) \in FilerData
    BY <1>2, <1>3 DEF WithDomain, FilerData
  <1>6. ASSUME NEW vs \in SUBSET Known(f) PROVE WithSpace(f, vs) \in FilerData
    <2> DEFINE new == [v \in Volumes |->
                 IF v \in vs THEN [filerData[f].vols[v] EXCEPT !.availsize = 1]
                 ELSE filerData[f].vols[v]]
    <2>1. \A v \in vs : v \in Volumes /\ filerData[f].vols[v] \in VolumeData
      BY <1>2, <1>3 DEF Known
    <2>2. new \in [Volumes -> VolumeData \cup {NULL}]
      BY <1>2, <1>3, <2>1 DEF VolumeData
    <2>3. WithSpace(f, vs) = [filerData[f] EXCEPT !.vols = new]
      BY DEF WithSpace
    <2> QED BY <2>2, <2>3 DEF FilerData
  <1>7. ASSUME NEW vs \in SUBSET Volumes, NEW m \in {0, MaxDisk(f)}
        PROVE  [WithCounters(f, vs) EXCEPT !.maxdiskb = m] \in FilerData
    BY <1>2, <1>4 DEF FilerData, MaxDisk
  <1>8. Known(f) \subseteq dfm[f].vols /\ SUBSET dfm[f].vols \subseteq SUBSET Volumes
    BY <1>2 DEF Known
  <1>9. WithAggr(f) \in FilerData /\ WithVolumes(f) \in FilerData
    BY <1>2, <1>4, <1>6 DEF WithAggr, WithVolumes
  <1>10. ASSUME NEW place \in {"aggr", "domain", "vols"} PROVE Partly(f, place) \subseteq FilerData
    <2>1. CASE place = "aggr"
      <3>1. SUFFICES ASSUME NEW d \in Partly(f, place) PROVE d \in FilerData
        OBVIOUS
      <3>2. \/ d = filerData[f]
            \/ \E vs \in SUBSET dfm[f].vols, m \in {0, MaxDisk(f)} :
                 d = [WithCounters(f, vs) EXCEPT !.maxdiskb = m]
        BY <2>1 DEF Partly
      <3> QED BY <1>7, <1>8, <3>2
    <2>2. CASE place = "domain"
      BY <1>5, <2>2 DEF Partly
    <2>3. CASE place = "vols"
      BY <1>6, <2>3 DEF Partly
    <2> QED BY <2>1, <2>2, <2>3
  <1> QED BY <1>4, <1>5, <1>6, <1>9, <1>10

-----------------------------------------------------------------------------
(***************************************************************************)
(* A thread goes from one place to another with its filer in hand.         *)
(***************************************************************************)
\* Nothing new has gone wrong, or something has.
FaultsGrow ==
  \/ faults' = faults
  \/ \E kind \in Faults : Len(faults) < MaxFaults /\ faults' = Append(faults, kind)

LEMMA FaultsTyped ==
  ASSUME MonitorInv, FaultsGrow
  PROVE  /\ faults' \in Seq(Faults) /\ Len(faults') <= MaxFaults
         /\ Raised => Raised'
  <1>1. faults \in Seq(Faults) /\ Len(faults) <= MaxFaults /\ MaxFaults \in Nat
    BY ConfigAssumption DEF MonitorInv, MTypeOK
  <1>2. CASE faults' = faults
    BY <1>1, <1>2 DEF Raised
  <1>3. ASSUME NEW kind \in Faults, Len(faults) < MaxFaults, faults' = Append(faults, kind)
        PROVE  /\ faults' \in Seq(Faults) /\ Len(faults') <= MaxFaults
               /\ Raised => Raised'
    <2>1. /\ faults' \in Seq(Faults) /\ Len(faults') = Len(faults) + 1
          /\ \A i \in DOMAIN faults : i \in DOMAIN faults' /\ faults'[i] = faults[i]
      BY <1>1, <1>3
    <2>2. Len(faults) \in Nat
      BY <1>1
    <2>3. Len(faults') <= MaxFaults
      BY <1>1, <1>3, <2>1, <2>2
    <2>4. Raised => Raised'
      BY <2>1 DEF Raised
    <2> QED BY <2>1, <2>3, <2>4
  <1> QED BY <1>2, <1>3 DEF FaultsGrow

Moves(t) ==
  /\ \E r \in WorkerRec :
       /\ worker' = [worker EXCEPT ![t] = r]
       /\ r.filer = worker[t].filer
       /\ r.at \notin {"off", "get"}
  /\ worker[t].at \notin {"off", "get"}
  /\ UNCHANGED <<dfm, mainVars, changes>>
  /\ FaultsGrow

LEMMA MoveKept ==
  ASSUME MonitorInv, NEW t \in Threads, Moves(t),
         \A f \in Filers : filerData[f] # NULL => filerData'[f] # NULL
  PROVE  /\ OnePlace' /\ DataKnown' /\ ThreadsRun'
         /\ ~Raised' => WorkCounted'
  <1>1. worker \in [Threads -> WorkerRec]
    BY DEF MonitorInv, MTypeOK, WorkerRec
  <1>2. PICK r \in WorkerRec :
          /\ worker' = [worker EXCEPT ![t] = r]
          /\ r.filer = worker[t].filer
          /\ r.at \notin {"off", "get"}
    BY DEF Moves
  <1>3. \A u \in Threads : worker'[u].filer = worker[u].filer
    BY <1>1, <1>2
  <1>4. \A u \in Threads :
          \/ worker'[u].at = worker[u].at
          \/ worker[u].at \notin {"off", "get"} /\ worker'[u].at \notin {"off", "get"}
    <2>1. worker[t].at \notin {"off", "get"} /\ worker'[t] = r
      BY <1>1, <1>2 DEF Moves
    <2>2. ASSUME NEW u \in Threads, u # t PROVE worker'[u].at = worker[u].at
      BY <1>1, <1>2, <2>2
    <2>3. worker[t].at \notin {"off", "get"} /\ worker'[t].at \notin {"off", "get"}
      BY <1>2, <2>1
    <2> QED BY <2>2, <2>3
  <1>5. Busy' = Busy
    BY <1>4 DEF Busy
  <1>6. UNCHANGED <<mpc, workq, resultq, ntimes, nwork, nthr, succ>>
    BY DEF Moves, mainVars
  <1>7. Busy \subseteq Threads
    BY DEF Busy
  <1>8. OnePlace'
    BY <1>3, <1>5, <1>6, <1>7 DEF MonitorInv, OnePlace
  <1>9. DataKnown'
    <2>1. /\ \A i \in DOMAIN workq : workq[i] \in Filers
          /\ \A i \in DOMAIN resultq : resultq[i].filer \in Filers
      BY QueuesTyped
    <2>2. \A u \in Busy : worker[u].filer \in Filers
      BY InHand DEF Busy
    <2> QED BY <1>3, <1>5, <1>6, <1>7, <2>1, <2>2 DEF MonitorInv, DataKnown
  <1>10. ThreadsRun'
    <2>1. \A u \in Threads : At(u, "off")' <=> At(u, "off")
      BY <1>4 DEF At
    <2> QED BY <1>6, <2>1 DEF MonitorInv, ThreadsRun
  <1>11. ~Raised' => WorkCounted'
    <2>1. \A u \in Threads : At(u, "off")' <=> At(u, "off")
      BY <1>4 DEF At
    <2>2. nthr \in 0 .. NThreads
      BY DEF MonitorInv, MTypeOK
    <2>3. 1 .. nthr \subseteq Threads
      BY <2>2, ConfigAssumption DEF Threads
    <2>4. Raised => Raised'
      BY FaultsTyped DEF Moves
    <2>5. WorkCounted => WorkCounted'
      BY <1>5, <1>6, <2>1, <2>3 DEF WorkCounted
    <2> QED BY <2>4, <2>5 DEF MonitorInv
  <1> QED BY <1>8, <1>9, <1>10, <1>11

\* The types of what a moving thread leaves alone.
LEMMA MoveTyped ==
  ASSUME MonitorInv, NEW t \in Threads, Moves(t),
         filerData' \in [Filers -> FilerData \cup {NULL}],
         disk' \in [Filers -> Seq(Parts) \cup {NoFile}], writing' \in [Filers -> Seq(Parts)],
         \A f \in Filers : disk'[f] = NoFile \/ \E d \in Docs[f] : IsPrefix(disk'[f], d)
  PROVE  MTypeOK'
  <1>1. worker' \in [Threads -> WorkerRec]
    BY DEF MonitorInv, MTypeOK, WorkerRec, Moves
  <1>2. faults' \in Seq(Faults) /\ Len(faults') <= MaxFaults
    BY FaultsTyped DEF Moves
  <1> QED BY <1>1, <1>2 DEF MonitorInv, MTypeOK, WorkerRec, Moves, mainVars

LEMMA CollectKept ==
  ASSUME MonitorInv, NEW t \in Threads, Moves(t), NEW d \in FilerData,
         filerData' = [filerData EXCEPT ![worker[t].filer] = d],
         worker[t].at # "write", worker'[t].at # "write",
         UNCHANGED <<disk, writing>>
  PROVE  MonitorInv'
  <1>1. worker[t].filer \in Filers
    BY InHand DEF Moves
  <1>2. worker \in [Threads -> WorkerRec] /\ filerData \in [Filers -> FilerData \cup {NULL}]
    BY DEF MonitorInv, MTypeOK, WorkerRec
  <1>3. filerData' \in [Filers -> FilerData \cup {NULL}]
    BY <1>1, <1>2
  <1>4. \A f \in Filers : filerData[f] # NULL => filerData'[f] # NULL
    BY <1>1, <1>2, SentinelAssumption
  <1>5. MTypeOK'
    BY <1>3, MoveTyped DEF MonitorInv, MTypeOK
  <1>6. WritersKnown'
    <2>1. \A u \in Threads : /\ At(u, "write")' <=> At(u, "write")
                             /\ worker'[u].filer = worker[u].filer
      BY <1>2 DEF Moves, At
    <2> QED BY <2>1 DEF MonitorInv, WritersKnown
  <1> QED BY <1>4, <1>5, <1>6, MoveKept DEF MonitorInv

\* A part of perf_mon() moves the thread.
LEMMA PartMoves ==
  ASSUME MonitorInv, NEW t \in Threads,
         worker[t].at \notin {"off", "get"},
         UNCHANGED <<dfm, mainVars, changes>>, FaultsGrow,
         \/ \E place \in {"domain", "vols", "open", "write"} : Goto(t, place)
         \/ \E err \in {-1, 0} : Result(t, err)
         \/ UNCHANGED worker
  PROVE  Moves(t)
  <1>1. worker \in [Threads -> WorkerRec] /\ worker[t] \in WorkerRec
    BY InHand DEF MonitorInv, MTypeOK, WorkerRec
  <1>2. ASSUME NEW place \in {"domain", "vols", "open", "write"}, Goto(t, place)
        PROVE  Moves(t)
    <2> DEFINE r == [worker[t] EXCEPT !.at = place]
    <2>1. r \in WorkerRec /\ r.filer = worker[t].filer /\ r.at = place
      BY <1>1 DEF WorkerRec, Places
    <2>2. worker' = [worker EXCEPT ![t] = r]
      BY <1>1, <1>2 DEF Goto, WorkerRec
    <2> HIDE DEF r
    <2> QED BY <2>1, <2>2 DEF Moves
  <1>3. ASSUME NEW err \in {-1, 0}, Result(t, err)
        PROVE  Moves(t)
    <2> DEFINE r == [worker[t] EXCEPT !.at = "put", !.err = err]
    <2>1. r \in WorkerRec /\ r.filer = worker[t].filer /\ r.at = "put"
      BY <1>1 DEF WorkerRec, Places
    <2>2. worker' = [worker EXCEPT ![t] = r]
      BY <1>1, <1>3 DEF Result, WorkerRec
    <2> HIDE DEF r
    <2> QED BY <2>1, <2>2 DEF Moves
  <1>4. CASE UNCHANGED worker
    <2>1. worker' = [worker EXCEPT ![t] = worker[t]]
      BY <1>1, <1>4
    <2> QED BY <1>1, <2>1 DEF Moves
  <1> QED BY <1>2, <1>3, <1>4

LEMMA CollectingKept ==
  ASSUME MonitorInv, NEW t \in Threads,
         \/ CollectAggr(t) \/ CollectDomain(t) \/ CollectVolumes(t)
         \/ VolumeUnknown(t) \/ CollectFails(t)
  PROVE  MonitorInv'
  <1> DEFINE f == worker[t].filer
  <1>1. worker[t].at \in {"aggr", "domain", "vols"}
    BY DEF CollectAggr, CollectDomain, CollectVolumes, VolumeUnknown, CollectFails, Collect,
           At, Collecting
  <1>2. f \in Filers /\ filerData[f] \in FilerData
    BY <1>1, InHand
  <1>3. \E d \in FilerData : filerData' = [filerData EXCEPT ![f] = d]
    <2>1. CASE CollectAggr(t) \/ CollectDomain(t) \/ CollectVolumes(t)
      BY <1>2, <2>1, DataTyped DEF CollectAggr, CollectDomain, CollectVolumes, Collect
    <2>2. CASE VolumeUnknown(t)
      BY <1>2, <2>2, DataTyped DEF VolumeUnknown
    <2>3. CASE CollectFails(t)
      <3>1. Partly(f, worker[t].at) \subseteq FilerData
        BY <1>1, <1>2, DataTyped
      <3> QED BY <2>3, <3>1 DEF CollectFails
    <2> QED BY <2>1, <2>2, <2>3
  <1>4. /\ UNCHANGED <<dfm, mainVars, changes, disk, writing>>
        /\ \/ \E place \in {"domain", "vols", "open"} : Goto(t, place)
           \/ \E err \in {-1, 0} : Result(t, err)
    BY DEF CollectAggr, CollectDomain, CollectVolumes, VolumeUnknown, CollectFails, Collect,
           boundVars
  <1>5. FaultsGrow
    BY DEF CollectAggr, CollectDomain, CollectVolumes, VolumeUnknown, CollectFails, Collect,
           boundVars, Fault, FaultsGrow
  <1>6. Moves(t)
    BY <1>1, <1>4, <1>5, PartMoves
  <1>7. worker'[t].at # "write"
    <2>1. worker \in [Threads -> WorkerRec]
      BY DEF MonitorInv, MTypeOK, WorkerRec
    <2> QED BY <1>4, <2>1 DEF Goto, Result, WorkerRec
  <1> QED BY <1>1, <1>3, <1>4, <1>6, <1>7, CollectKept

-----------------------------------------------------------------------------
(***************************************************************************)
(* The counter files.                                                      *)
(***************************************************************************)
\* Only one thread writes a file, and what it writes completes a document.
LEMMA AtWork ==
  ASSUME MonitorInv, NEW t \in Threads, worker[t].at \notin {"off", "get"}
  PROVE  /\ \A u \in Threads : At(u, "write") /\ worker[u].filer = worker[t].filer => u = t
         /\ ~At(t, "write") => writing[worker[t].filer] = << >>
  <1>1. t \in Busy /\ worker[t].filer \in Filers
    BY InHand
  <1>2. \A u \in Threads : At(u, "write") => u \in Busy
    BY DEF At, Busy
  <1>3. \A u \in Threads : At(u, "write") /\ worker[u].filer = worker[t].filer => u = t
    BY <1>1, <1>2 DEF MonitorInv, OnePlace
  <1> QED BY <1>1, <1>3 DEF MonitorInv, WritersKnown

LEMMA WriterKept ==
  ASSUME MonitorInv, NEW t \in Threads, Moves(t), UNCHANGED filerData,
         NEW s, NEW w,
         disk' = [disk EXCEPT ![worker[t].filer] = s],
         writing' = [writing EXCEPT ![worker[t].filer] = w],
         s \in Seq(Parts) \cup {NoFile}, w \in Seq(Parts),
         s = NoFile \/ \E d \in Docs[worker[t].filer] : IsPrefix(s, d),
         w # << >> => s # NoFile /\ s \o w \in Docs[worker[t].filer],
         w # << >> <=> worker'[t].at = "write"
  PROVE  MonitorInv'
  <1> DEFINE f == worker[t].filer
  <1>1. worker[t].at \notin {"off", "get"} /\ f \in Filers
    BY InHand DEF Moves
  <1>2. \A u \in Threads : /\ worker'[u].filer = worker[u].filer
                           /\ u # t => worker'[u].at = worker[u].at
    BY DEF Moves, MonitorInv, MTypeOK
  <1> disk \in [Filers -> Seq(Parts) \cup {NoFile}] /\ writing \in [Filers -> Seq(Parts)]
    BY DEF MonitorInv, MTypeOK
  <1>3. MTypeOK'
    <2>1. \A g \in Filers : disk'[g] = NoFile \/ \E d \in Docs[g] : IsPrefix(disk'[g], d)
      BY <1>1 DEF MonitorInv, MTypeOK
    <2>2. filerData' \in [Filers -> FilerData \cup {NULL}]
      BY DEF MonitorInv, MTypeOK
    <2>3. disk' \in [Filers -> Seq(Parts) \cup {NoFile}] /\ writing' \in [Filers -> Seq(Parts)]
      BY <1>1 DEF MonitorInv, MTypeOK
    <2> QED BY <2>1, <2>2, <2>3, MoveTyped
  <1>4. WritersKnown'
    <2>1. ASSUME NEW g \in Filers, writing'[g] # << >>
          PROVE  /\ disk'[g] # NoFile /\ disk'[g] \o writing'[g] \in Docs[g]
                 /\ \E u \in Threads : At(u, "write")' /\ worker'[u].filer = g
      <3>1. CASE g = f
        <4>1. writing'[g] = w /\ disk'[g] = s
          BY <1>1, <3>1
        <4>2. At(t, "write")' /\ worker'[t].filer = g
          BY <1>2, <2>1, <3>1, <4>1 DEF At
        <4> QED BY <2>1, <3>1, <4>1, <4>2
      <3>2. CASE g # f
        <4>1. writing'[g] = writing[g] /\ disk'[g] = disk[g]
          BY <1>1, <3>2
        <4>2. PICK u \in Threads : At(u, "write") /\ worker[u].filer = g
          BY <2>1, <4>1 DEF MonitorInv, WritersKnown
        <4>3. At(u, "write")' /\ worker'[u].filer = g
          BY <1>2, <3>2, <4>2 DEF At
        <4> QED BY <2>1, <4>1, <4>3 DEF MonitorInv, WritersKnown
      <3> QED BY <3>1, <3>2
    <2>2. ASSUME NEW u \in Threads, At(u, "write")'
          PROVE  writing'[worker'[u].filer] # << >>
      <3>1. CASE u = t
        BY <1>1, <1>2, <2>2, <3>1 DEF At
      <3>2. CASE u # t
        <4>1. At(u, "write") /\ worker[u].filer # f
          BY <1>1, <1>2, <2>2, <3>2, AtWork DEF At
        <4>2. worker[u].filer \in Filers
          BY <4>1, InHand DEF At
        <4> QED BY <1>2, <4>1, <4>2 DEF MonitorInv, WritersKnown
      <3> QED BY <3>1, <3>2
    <2> QED BY <2>1, <2>2 DEF WritersKnown
  <1> QED BY <1>3, <1>4, MoveKept DEF MonitorInv

LEMMA DocumentTyped ==
  ASSUME NEW d \in FilerData
  PROVE  /\ Part(1, d) \in Parts /\ Part(2, d) \in Parts
         /\ Document(d) \in Seq(Parts) /\ Document(d) # << >>
         /\ \A f \in Filers : Document(d) \in Docs[f]
  <1>1. Part(1, d) \in Parts /\ Part(2, d) \in Parts
    BY DEF Part, Parts
  <1>2. Document(d) \in Seq(Parts) /\ Document(d) # << >>
    <2>1. Document(d) = <<Part(1, d), Part(2, d)>>
      BY Beginnings
    <2> HIDE DEF Document
    <2> QED BY <1>1, <2>1
  <1>3. \A f \in Filers : Document(d) \in Docs[f]
    BY DEF Docs
  <1> QED BY <1>1, <1>2, <1>3

LEMMA Single ==
  ASSUME NEW S, NEW s \in Seq(S), Len(s) = 1
  PROVE  s = <<s[1]>>
  OBVIOUS

LEMMA Pair ==
  ASSUME NEW S, NEW s \in Seq(S), Len(s) = 2
  PROVE  s = <<s[1], s[2]>>
  OBVIOUS

\* What a step of the writer does to a document of two parts.
LEMMA Pieces ==
  ASSUME NEW S, NEW p \in S, NEW q \in S
  PROVE  /\ Append(<< >>, Head(<<p, q>>)) = <<p>> /\ Tail(<<p, q>>) = <<q>>
         /\ Append(<<p>>, Head(<<q>>)) = <<p, q>> /\ Tail(<<q>>) = << >>
         /\ SubSeq(<<p, q>>, 1, 1) = <<p>> /\ SubSeq(<<p, q>>, 2, 2) = <<q>>
         /\ SubSeq(<<q>>, 1, 1) = <<q>> /\ SubSeq(<<q>>, 2, 1) = << >>
         /\ << >> \o <<p>> = <<p>> /\ <<p>> \o <<q>> = <<p, q>> /\ <<p, q>> \o << >> = <<p, q>>
         /\ << >> \o <<p, q>> = <<p, q>>
         /\ Len(<<q>>) = 1 /\ Len(<<p, q>>) = 2 /\ <<q>> # << >>
  <1>1. <<p>> \in Seq(S) /\ <<q>> \in Seq(S) /\ <<p, q>> \in Seq(S) /\ << >> \in Seq(S)
    OBVIOUS
  <1>2. Len(<<p>>) = 1 /\ Len(<<q>>) = 1 /\ Len(<<p, q>>) = 2
    OBVIOUS
  <1>3. Append(<<p>>, q) = <<p, q>>
    <2> DEFINE s == Append(<<p>>, q)
    <2>1. s \in Seq(S) /\ Len(s) = 2 /\ s[1] = p /\ s[2] = q
      BY <1>1, <1>2, AppendProperties
    <2> HIDE DEF s
    <2>2. s = <<s[1], s[2]>>
      BY <2>1, Pair
    <2> QED BY <2>1, <2>2 DEF s
  <1>4. SubSeq(<<p, q>>, 1, 1) = <<p>>
    <2> DEFINE s == SubSeq(<<p, q>>, 1, 1)
    <2>1. s \in Seq(S) /\ Len(s) = 1 /\ s[1] = p
      BY <1>1, <1>2, SubSeqProperties
    <2> HIDE DEF s
    <2>2. s = <<s[1]>>
      BY <2>1, Single
    <2> QED BY <2>1, <2>2 DEF s
  <1>5. SubSeq(<<p, q>>, 2, 2) = <<q>>
    <2> DEFINE s == SubSeq(<<p, q>>, 2, 2)
    <2>1. s \in Seq(S) /\ Len(s) = 1 /\ s[1] = q
      BY <1>1, <1>2, SubSeqProperties
    <2> HIDE DEF s
    <2>2. s = <<s[1]>>
      BY <2>1, Single
    <2> QED BY <2>1, <2>2 DEF s
  <1>6. <<p>> \o <<q>> = <<p, q>>
    <2> DEFINE s == <<p>> \o <<q>>
    <2>1. s \in Seq(S) /\ Len(s) = 2 /\ s[1] = p /\ s[2] = q
      BY <1>1, <1>2, ConcatProperties
    <2> HIDE DEF s
    <2>2. s = <<s[1], s[2]>>
      BY <2>1, Pair
    <2> QED BY <2>1, <2>2 DEF s
  <1>7. Append(<< >>, Head(<<p, q>>)) = <<p>> /\ Tail(<<p, q>>) = <<q>>
    OBVIOUS
  <1>8. Head(<<q>>) = q /\ Tail(<<q>>) = << >> /\ <<q>> # << >>
    BY <1>1
  <1>9. SubSeq(<<q>>, 1, 1) = <<q>> /\ SubSeq(<<q>>, 2, 1) = << >>
    <2>1. SubSeq(<<q>>, 1, Len(<<q>>)) = <<q>>
      BY <1>1, SubSeqFull
    <2>2. SubSeq(<<q>>, 2, 1) = << >>
      BY SubSeqEmpty
    <2> QED BY <1>2, <2>1, <2>2
  <1>10. << >> \o <<p>> = <<p>> /\ << >> \o <<p, q>> = <<p, q>> /\ <<p, q>> \o << >> = <<p, q>>
    BY <1>1, ConcatEmptySeq
  <1> QED BY <1>2, <1>3, <1>4, <1>5, <1>6, <1>7, <1>8, <1>9, <1>10

LEMMA OpenKept ==
  ASSUME MonitorInv, NEW t \in Threads, OpenFile(t)
  PROVE  MonitorInv' /\ Files!Open(worker[t].filer)
  <1> DEFINE f == worker[t].filer
             d == filerData[f]
  <1>1. /\ worker[t].at = "open" /\ worker[t] \in WorkerRec
        /\ f \in Filers /\ d \in FilerData
    BY InHand DEF OpenFile, At
  <1>2. writing[f] = << >>
    BY <1>1, AtWork DEF At
  <1>3. /\ disk' = [disk EXCEPT ![f] = << >>]
        /\ writing' = [writing EXCEPT ![f] = Document(d)]
        /\ Goto(t, "write")
        /\ UNCHANGED <<dfm, mainVars, filerData, boundVars>>
    BY DEF OpenFile, Opened
  <1>4. Document(d) \in Seq(Parts) /\ Document(d) # << >> /\ Document(d) \in Docs[f]
    BY <1>1, DocumentTyped
  <1>5. Moves(t)
    BY <1>1, <1>3, PartMoves DEF boundVars, FaultsGrow
  <1>6. worker'[t].at = "write"
    BY <1>1, <1>3 DEF Goto, WorkerRec, MonitorInv, MTypeOK
  <1>7. << >> \in Seq(Parts) /\ << >> \o Document(d) = Document(d) /\ << >> # NoFile
    <2>1. << >> \in Seq(Parts)
      OBVIOUS
    <2>2. << >> \o Document(d) = Document(d)
      BY <1>4, ConcatEmptySeq
    <2> QED BY <2>1, <2>2, SentinelAssumption
  <1>8. IsPrefix(<< >>, Document(d))
    BY Beginnings
  <1>9. MonitorInv'
    BY <1>3, <1>4, <1>5, <1>6, <1>7, <1>8, WriterKept
  <1>10. Files!Open(f)
    BY <1>2, <1>3, <1>4 DEF Files!Open
  <1> QED BY <1>9, <1>10

LEMMA WriteKept ==
  ASSUME MonitorInv, NEW t \in Threads, WritePart(t)
  PROVE  MonitorInv' /\ Files!Write(worker[t].filer)
  <1> DEFINE f == worker[t].filer
  <1>1. worker[t].at = "write" /\ worker[t] \in WorkerRec /\ f \in Filers
    BY InHand DEF WritePart, At
  <1>2. /\ writing[f] # << >> /\ disk[f] # NoFile /\ disk[f] \o writing[f] \in Docs[f]
        /\ disk[f] \in Seq(Parts) /\ writing[f] \in Seq(Parts)
    BY <1>1 DEF MonitorInv, WritersKnown, MTypeOK, At
  <1>3. PICK d \in FilerData :
          \/ disk[f] = << >> /\ writing[f] = <<Part(1, d), Part(2, d)>>
          \/ disk[f] = <<Part(1, d)>> /\ writing[f] = <<Part(2, d)>>
    BY <1>1, <1>2, Splits
  <1>4. /\ disk' = [disk EXCEPT ![f] = Append(disk[f], Head(writing[f]))]
        /\ writing' = [writing EXCEPT ![f] = Tail(writing[f])]
        /\ IF Len(writing[f]) = 1 THEN Result(t, 0) ELSE UNCHANGED worker
        /\ UNCHANGED <<dfm, mainVars, filerData, boundVars>>
    BY DEF WritePart
  <1>5. Moves(t)
    BY <1>1, <1>4, PartMoves DEF boundVars, FaultsGrow
  <1> DEFINE s == Append(disk[f], Head(writing[f]))
             w == Tail(writing[f])
  <1>6. /\ s \o w = Document(d) /\ IsPrefix(s, Document(d))
        /\ s \in Seq(Parts) /\ w \in Seq(Parts)
        /\ w = << >> <=> Len(writing[f]) = 1
        /\ s = disk[f] \o SubSeq(writing[f], 1, 1)
        /\ w = SubSeq(writing[f], 2, Len(writing[f]))
        /\ Len(writing[f]) \in {1, 2}
    <2>1. Part(1, d) \in Parts /\ Part(2, d) \in Parts
      BY DocumentTyped
    <2>2. <<Part(1, d)>> \in Seq(Parts) /\ <<Part(2, d)>> \in Seq(Parts) /\ << >> \in Seq(Parts)
      BY <2>1
    <2>3. CASE disk[f] = << >> /\ writing[f] = <<Part(1, d), Part(2, d)>>
      <3>1. s = <<Part(1, d)>> /\ w = <<Part(2, d)>> /\ Len(writing[f]) = 2
        BY <2>1, <2>3, Pieces
      <3>2. /\ s = disk[f] \o SubSeq(writing[f], 1, 1)
            /\ w = SubSeq(writing[f], 2, Len(writing[f]))
        BY <2>1, <2>3, <3>1, Pieces
      <3>3. << >> # w /\ IsPrefix(<<Part(1, d)>>, Document(d))
        BY <2>1, <3>1, Pieces, Beginnings
      <3>4. <<Part(1, d)>> \o <<Part(2, d)>> = Document(d)
        BY <2>1, Pieces, Beginnings
      <3> HIDE DEF s, w
      <3>5. s \o w = Document(d) /\ IsPrefix(s, Document(d))
        BY <3>1, <3>3, <3>4
      <3>6. s \in Seq(Parts) /\ w \in Seq(Parts)
        BY <2>2, <3>1
      <3>7. w = << >> <=> Len(writing[f]) = 1
        BY <3>1, <3>3
      <3> QED BY <3>1, <3>2, <3>5, <3>6, <3>7
    <2>4. CASE disk[f] = <<Part(1, d)>> /\ writing[f] = <<Part(2, d)>>
      <3>1. s = <<Part(1, d), Part(2, d)>> /\ w = << >> /\ Len(writing[f]) = 1
        BY <2>1, <2>4, Pieces
      <3>2. /\ s = disk[f] \o SubSeq(writing[f], 1, 1)
            /\ w = SubSeq(writing[f], 2, Len(writing[f]))
        BY <2>1, <2>4, <3>1, Pieces
      <3>3. <<Part(1, d), Part(2, d)>> \o << >> = Document(d)
        <4>1. Document(d) \o << >> = Document(d)
          BY DocumentTyped, ConcatEmptySeq
        <4> QED BY <4>1, Beginnings
      <3> HIDE DEF s, w
      <3>5. s \o w = Document(d) /\ IsPrefix(s, Document(d))
        BY <3>1, <3>3, Beginnings
      <3>6. s \in Seq(Parts) /\ w \in Seq(Parts)
        BY <2>2, <3>1, Beginnings, DocumentTyped
      <3>7. w = << >> <=> Len(writing[f]) = 1
        BY <3>1
      <3> QED BY <3>1, <3>2, <3>5, <3>6, <3>7
    <2> QED BY <1>3, <2>3, <2>4
  <1>7. Document(d) \in Docs[f] /\ s # NoFile
    BY <1>1, <1>6, DocumentTyped, SentinelAssumption
  <1>8. worker'[t].at = "write" <=> w # << >>
    <2>1. worker \in [Threads -> WorkerRec]
      BY DEF MonitorInv, MTypeOK, WorkerRec
    <2> QED BY <1>1, <1>4, <1>6, <2>1 DEF Result, WorkerRec
  <1>9. MonitorInv'
    <2>1. disk' = [disk EXCEPT ![f] = s] /\ writing' = [writing EXCEPT ![f] = w]
      BY <1>4
    <2>2. UNCHANGED filerData
      BY <1>4
    <2> HIDE DEF s, w
    <2> QED BY <1>5, <1>6, <1>7, <1>8, <2>1, <2>2, WriterKept
  <1>10. Files!Write(f)
    <2>1. /\ disk' = [disk EXCEPT ![f] = @ \o SubSeq(writing[f], 1, 1)]
          /\ writing' = [writing EXCEPT ![f] = SubSeq(@, 1 + 1, Len(@))]
      <3>1. disk' = [disk EXCEPT ![f] = s] /\ writing' = [writing EXCEPT ![f] = w]
        BY <1>4
      <3> HIDE DEF s, w
      <3> QED BY <1>6, <3>1
    <2>2. 1 \in 1 .. Len(writing[f])
      BY <1>6
    <2> QED BY <2>1, <2>2 DEF Files!Write
  <1> QED BY <1>9, <1>10

LEMMA PrintFailsKept ==
  ASSUME MonitorInv, NEW t \in Threads, PrintFails(t)
  PROVE  MonitorInv' /\ Files!Stop({worker[t].filer})
  <1> DEFINE f == worker[t].filer
  <1>1. worker[t].at \in {"open", "write"} /\ worker[t] \in WorkerRec /\ f \in Filers
    BY InHand DEF PrintFails
  <1>2. /\ writing' = [writing EXCEPT ![f] = << >>]
        /\ Result(t, 0)
        /\ UNCHANGED <<dfm, mainVars, filerData, disk, changes>>
        /\ FaultsGrow
    BY DEF PrintFails, Fault, FaultsGrow
  <1>3. Moves(t)
    BY <1>1, <1>2, PartMoves
  <1>4. worker'[t].at = "put"
    BY <1>1, <1>2 DEF Result, WorkerRec, MonitorInv, MTypeOK
  <1>5. /\ disk[f] \in Seq(Parts) \cup {NoFile} /\ disk' = [disk EXCEPT ![f] = disk[f]]
        /\ disk[f] = NoFile \/ \E d \in Docs[f] : IsPrefix(disk[f], d)
        /\ << >> \in Seq(Parts)
    <2>1. disk \in [Filers -> Seq(Parts) \cup {NoFile}]
      BY DEF MonitorInv, MTypeOK
    <2>2. disk[f] = NoFile \/ \E d \in Docs[f] : IsPrefix(disk[f], d)
      BY <1>1 DEF MonitorInv, MTypeOK
    <2>3. << >> \in Seq(Parts)
      OBVIOUS
    <2> QED BY <1>1, <1>2, <2>1, <2>2, <2>3
  <1>6. MonitorInv'
    BY <1>2, <1>3, <1>4, <1>5, WriterKept
  <1>7. Files!Stop({f})
    BY <1>1, <1>2 DEF Files!Stop, MonitorInv, MTypeOK
  <1> QED BY <1>6, <1>7

-----------------------------------------------------------------------------
(***************************************************************************)
(* A thread takes a filer, hands its result over, or ends.                 *)
(***************************************************************************)
LEMMA Finite == IsFiniteSet(Busy) /\ Cardinality(Busy) \in Nat
  <1>1. IsFiniteSet(Threads)
    BY FS_Interval, ConfigAssumption DEF Threads
  <1>2. Busy \subseteq Threads
    BY DEF Busy
  <1> QED BY <1>1, <1>2, FS_Subset, FS_CardinalityType

\* A thread that is no writer, before and after, leaves the files alone.
LEMMA FilesKept ==
  ASSUME MonitorInv, NEW t \in Threads, NEW r \in WorkerRec,
         worker' = [worker EXCEPT ![t] = r],
         worker[t].at # "write", r.at # "write", UNCHANGED <<disk, writing>>
  PROVE  WritersKnown'
  <1>1. worker \in [Threads -> WorkerRec]
    BY DEF MonitorInv, MTypeOK, WorkerRec
  <1>2. ASSUME NEW u \in Threads
        PROVE  /\ At(u, "write")' <=> At(u, "write")
               /\ At(u, "write") => worker'[u].filer = worker[u].filer
    <2>1. CASE u = t
      BY <1>1, <2>1 DEF At
    <2>2. CASE u # t
      BY <1>1, <2>2 DEF At
    <2> QED BY <2>1, <2>2
  <1> QED BY <1>2 DEF MonitorInv, WritersKnown

\* A thread ends with an exception.
LEMMA RaiseKept ==
  ASSUME MonitorInv, NEW t \in Threads, CollectRaises(t)
  PROVE  MonitorInv'
  <1> DEFINE f == worker[t].filer
  <1>1. /\ worker[t].at \in {"aggr", "domain", "vols"} /\ f \in Filers /\ filerData[f] \in FilerData
        /\ t \in Busy
    BY InHand DEF CollectRaises, Collecting
  <1>2. /\ UNCHANGED <<dfm, mainVars, disk, writing, changes>>
        /\ worker' = [worker EXCEPT ![t] = Idle]
        /\ FaultsGrow
    BY DEF CollectRaises, Fault, FaultsGrow
  <1>3. PICK d \in FilerData : filerData' = [filerData EXCEPT ![f] = d]
    <2>1. Partly(f, worker[t].at) \subseteq FilerData
      BY <1>1, DataTyped
    <2> QED BY <2>1 DEF CollectRaises
  <1>4. Idle \in WorkerRec
    BY DEF Idle, WorkerRec, Places
  <1>5. /\ worker \in [Threads -> WorkerRec]
        /\ filerData \in [Filers -> FilerData \cup {NULL}]
    BY DEF MonitorInv, MTypeOK, WorkerRec
  <1>6. MTypeOK'
    <2>1. worker' \in [Threads -> WorkerRec] /\ filerData' \in [Filers -> FilerData \cup {NULL}]
      BY <1>1, <1>2, <1>3, <1>4, <1>5
    <2>2. faults' \in Seq(Faults) /\ Len(faults') <= MaxFaults
      BY <1>2, FaultsTyped
    <2> QED BY <1>2, <2>1, <2>2 DEF MonitorInv, MTypeOK, WorkerRec, mainVars
  <1>7. /\ \A u \in Threads : u # t => worker'[u] = worker[u]
        /\ worker'[t] = Idle /\ Idle.at = "off"
    BY <1>2, <1>5 DEF Idle
  <1>8. Busy' \subseteq Busy \ {t} /\ \A u \in Busy' : worker'[u] = worker[u]
    BY <1>7 DEF Busy
  <1>9. OnePlace'
    BY <1>2, <1>8 DEF MonitorInv, OnePlace, mainVars
  <1>10. DataKnown'
    <2>1. \A g \in Filers : filerData[g] # NULL => filerData'[g] # NULL
      BY <1>3, <1>5, SentinelAssumption
    <2>2. \A u \in Busy : worker[u].filer \in Filers
      BY InHand DEF Busy
    <2> QED BY <1>2, <1>8, <2>1, <2>2, QueuesTyped DEF MonitorInv, DataKnown, mainVars
  <1>11. WritersKnown'
    BY <1>1, <1>2, <1>4, <1>7, FilesKept
  <1>12. ThreadsRun'
    <2>1. \A u \in Threads : At(u, "off") => At(u, "off")'
      BY <1>7 DEF At
    <2> QED BY <1>2, <2>1 DEF MonitorInv, ThreadsRun, mainVars
  <1>13. Raised'
    <2>1. faults' = Append(faults, "raise") /\ faults \in Seq(Faults) /\ "raise" \in Faults
      BY DEF CollectRaises, Fault, MonitorInv, MTypeOK
    <2>2. Len(faults) + 1 \in DOMAIN faults' /\ faults'[Len(faults) + 1] = "raise"
      BY <2>1
    <2> QED BY <2>2 DEF Raised
  <1> QED BY <1>6, <1>9, <1>10, <1>11, <1>12, <1>13 DEF MonitorInv

LEMMA GetKept ==
  ASSUME MonitorInv, NEW t \in Threads, Get(t)
  PROVE  MonitorInv'
  <1>1. /\ At(t, "get")
        /\ UNCHANGED <<dfm, mpc, flist, resultq, ntimes, nwork, nthr, succ, dataVars, boundVars>>
    BY DEF Get
  <1>2. /\ worker \in [Threads -> WorkerRec] /\ workq \in Seq(Filers)
    BY DEF MonitorInv, MTypeOK, WorkerRec
  <1>3. Raised' <=> Raised
    BY <1>1 DEF Raised, boundVars
  <1>4. mpc = "join"
    BY <1>1 DEF MonitorInv, ThreadsRun, At
  <1>5. CASE workq = << >>
    <2> DEFINE r == [worker[t] EXCEPT !.at = "off"]
    <2>1. r \in WorkerRec /\ r.at = "off"
      BY <1>2 DEF WorkerRec, Places
    <2>2. worker' = [worker EXCEPT ![t] = r] /\ UNCHANGED workq
      BY <1>2, <1>5 DEF Get, Goto, WorkerRec
    <2> HIDE DEF r
    <2>3. /\ \A u \in Threads : u # t => worker'[u] = worker[u]
          /\ worker'[t].at = "off"
      BY <1>2, <2>1, <2>2
    <2>4. Busy' = Busy /\ \A u \in Busy : worker'[u] = worker[u]
      BY <1>1, <2>3 DEF Busy, At
    <2>5. MTypeOK'
      <3>1. worker' \in [Threads -> WorkerRec]
        BY <1>2, <2>1, <2>2
      <3> QED BY <1>1, <2>2, <3>1 DEF MonitorInv, MTypeOK, WorkerRec, dataVars, boundVars
    <2>6. OnePlace' /\ DataKnown'
      BY <1>1, <2>2, <2>4 DEF MonitorInv, OnePlace, DataKnown, dataVars
    <2>7. WritersKnown'
      BY <1>1, <2>1, <2>2, FilesKept DEF dataVars, At
    <2>8. ThreadsRun'
      BY <1>1, <1>4 DEF MonitorInv, ThreadsRun
    <2>9. WorkCounted => WorkCounted'
      BY <1>1, <1>4, <1>5, <2>2, <2>4 DEF WorkCounted
    <2> QED BY <1>3, <2>5, <2>6, <2>7, <2>8, <2>9 DEF MonitorInv
  <1>6. CASE workq # << >>
    <2> DEFINE f == Head(workq)
               r == [at |-> "aggr", filer |-> f, err |-> 0]
    <2>1. worker' = [worker EXCEPT ![t] = r] /\ workq' = Tail(workq)
      BY <1>6 DEF Get, Take
    <2>2. /\ 1 \in DOMAIN workq /\ f = workq[1] /\ f \in Filers
          /\ workq' \in Seq(Filers) /\ Len(workq) \in Nat \ {0} /\ Len(workq') = Len(workq) - 1
          /\ \A i \in DOMAIN workq' : i + 1 \in DOMAIN workq /\ i + 1 # 1 /\ workq'[i] = workq[i + 1]
      BY <1>2, <1>6, <2>1
    <2>3. r \in WorkerRec /\ r.at = "aggr" /\ r.filer = f
      BY <2>2 DEF WorkerRec, Places
    <2> HIDE DEF r, f
    <2>4. /\ \A u \in Threads : u # t => worker'[u] = worker[u]
          /\ worker'[t] = r
      BY <1>2, <2>1
    <2>5. /\ Busy' = Busy \cup {t} /\ t \notin Busy
          /\ \A u \in Busy : worker'[u] = worker[u]
      BY <1>1, <2>3, <2>4 DEF Busy, At
    <2>6. MTypeOK'
      <3>1. worker' \in [Threads -> WorkerRec]
        BY <1>2, <2>1, <2>3
      <3> QED BY <1>1, <2>2, <3>1 DEF MonitorInv, MTypeOK, WorkerRec, dataVars, boundVars
    <2>7. OnePlace'
      <3>1. \A i, j \in DOMAIN workq' : workq'[i] = workq'[j] => i = j
        <4>1. ASSUME NEW i \in DOMAIN workq', NEW j \in DOMAIN workq', workq'[i] = workq'[j]
              PROVE  i = j
          <5>1. i + 1 = j + 1
            BY <2>2, <4>1 DEF MonitorInv, OnePlace
          <5>2. i \in Nat /\ j \in Nat
            BY <2>2
          <5> QED BY <5>1, <5>2
        <4> QED BY <4>1
      <3>2. \A u, v \in Busy' : worker'[u].filer = worker'[v].filer => u = v
        BY <2>2, <2>3, <2>4, <2>5 DEF MonitorInv, OnePlace
      <3>3. \A i \in DOMAIN workq', j \in DOMAIN resultq : workq'[i] # resultq[j].filer
        BY <2>2 DEF MonitorInv, OnePlace
      <3>4. \A i \in DOMAIN workq', u \in Busy' : workq'[i] # worker'[u].filer
        BY <2>2, <2>3, <2>4, <2>5 DEF MonitorInv, OnePlace
      <3>5. \A j \in DOMAIN resultq, u \in Busy' : resultq[j].filer # worker'[u].filer
        BY <2>2, <2>3, <2>4, <2>5 DEF MonitorInv, OnePlace
      <3> QED BY <1>1, <3>1, <3>2, <3>3, <3>4, <3>5 DEF MonitorInv, OnePlace
    <2>8. DataKnown'
      <3> QED BY <1>1, <2>2, <2>3, <2>4, <2>5 DEF MonitorInv, DataKnown, dataVars
    <2>9. WritersKnown'
      BY <1>1, <2>1, <2>3, FilesKept DEF dataVars, At
    <2>10. ThreadsRun'
      BY <1>1, <1>4 DEF MonitorInv, ThreadsRun
    <2>11. WorkCounted => WorkCounted'
      <3>1. Cardinality(Busy') = Cardinality(Busy) + 1
        BY <2>5, Finite, FS_AddElement
      <3>2. \A u \in Threads : At(u, "off")' => At(u, "off")
        BY <2>3, <2>4 DEF At
      <3>3. 1 .. nthr \subseteq Threads
        BY ConfigAssumption DEF Threads, MonitorInv, MTypeOK
      <3>4. nwork \in Nat /\ Len(resultq) \in Nat
        BY DEF MonitorInv, MTypeOK
      <3>5. SUFFICES ASSUME WorkCounted PROVE WorkCounted'
        OBVIOUS
      <3>6. /\ nwork = Len(workq) + Cardinality(Busy) + Len(resultq)
            /\ \A u \in 1 .. nthr : ~At(u, "off")
        BY <1>4, <1>6, <3>5 DEF WorkCounted
      <3>7. nwork = Len(workq') + Cardinality(Busy') + Len(resultq)
        BY <2>2, <3>1, <3>4, <3>6, Finite
      <3>8. \A u \in 1 .. nthr : ~At(u, "off")'
        BY <3>2, <3>3, <3>6
      <3> QED BY <1>1, <1>4, <3>7, <3>8 DEF WorkCounted
    <2> QED BY <1>3, <2>6, <2>7, <2>8, <2>9, <2>10, <2>11 DEF MonitorInv
  <1> QED BY <1>5, <1>6

LEMMA PutKept ==
  ASSUME MonitorInv, NEW t \in Threads, Put(t)
  PROVE  MonitorInv'
  <1> DEFINE r == [Idle EXCEPT !.at = "get"]
             x == [err |-> worker[t].err, filer |-> worker[t].filer]
  <1>1. /\ worker[t].at = "put"
        /\ resultq' = Append(resultq, x)
        /\ worker' = [worker EXCEPT ![t] = r]
        /\ UNCHANGED <<dfm, mpc, flist, workq, ntimes, nwork, nthr, succ, dataVars, boundVars>>
    BY DEF Put, At
  <1>2. /\ worker \in [Threads -> WorkerRec] /\ resultq \in Seq(ResultRec)
        /\ workq \in Seq(Filers)
    BY DEF MonitorInv, MTypeOK, WorkerRec, ResultRec
  <1>3. /\ t \in Busy /\ worker[t] \in WorkerRec /\ worker[t].filer \in Filers
        /\ filerData[worker[t].filer] # NULL
    BY <1>1, InHand, SentinelAssumption
  <1>4. x \in ResultRec /\ x.filer = worker[t].filer
    BY <1>3 DEF ResultRec, WorkerRec
  <1>5. r \in WorkerRec /\ r.at = "get"
    BY DEF WorkerRec, Places, Idle
  <1> HIDE DEF r, x
  <1>6. Raised' <=> Raised
    BY <1>1 DEF Raised, boundVars
  <1>7. mpc = "join"
    BY <1>1 DEF MonitorInv, ThreadsRun, At
  <1>8. /\ \A u \in Threads : u # t => worker'[u] = worker[u]
        /\ worker'[t] = r
    BY <1>1, <1>2
  <1>9. /\ Busy' = Busy \ {t}
        /\ \A u \in Busy' : worker'[u] = worker[u] /\ u \in Busy /\ u # t
    BY <1>5, <1>8 DEF Busy
  <1>10. /\ resultq' \in Seq(ResultRec) /\ Len(resultq) \in Nat /\ Len(resultq') = Len(resultq) + 1
         /\ \A j \in DOMAIN resultq' : \/ j \in DOMAIN resultq /\ resultq'[j] = resultq[j]
                                       \/ j = Len(resultq) + 1 /\ resultq'[j] = x
    BY <1>1, <1>2, <1>4, AppendProperties
  <1>11. MTypeOK'
    <2>1. worker' \in [Threads -> WorkerRec]
      BY <1>1, <1>2, <1>5
    <2> QED BY <1>1, <1>10, <2>1 DEF MonitorInv, MTypeOK, WorkerRec, ResultRec, dataVars, boundVars
  <1>12. OnePlace'
    <2>1. /\ \A j \in DOMAIN resultq : resultq[j].filer # worker[t].filer
          /\ \A i \in DOMAIN workq : workq[i] # worker[t].filer
          /\ \A u \in Busy' : worker[u].filer # worker[t].filer
      BY <1>3, <1>9 DEF MonitorInv, OnePlace
    <2>2. \A i, j \in DOMAIN resultq' : resultq'[i].filer = resultq'[j].filer => i = j
      BY <1>4, <1>10, <2>1 DEF MonitorInv, OnePlace
    <2>3. \A u, v \in Busy' : worker'[u].filer = worker'[v].filer => u = v
      BY <1>9 DEF MonitorInv, OnePlace
    <2>4. \A i \in DOMAIN workq, j \in DOMAIN resultq' : workq[i] # resultq'[j].filer
      BY <1>4, <1>10, <2>1 DEF MonitorInv, OnePlace
    <2>5. \A i \in DOMAIN workq, u \in Busy' : workq[i] # worker'[u].filer
      BY <1>9 DEF MonitorInv, OnePlace
    <2>6. \A j \in DOMAIN resultq', u \in Busy' : resultq'[j].filer # worker'[u].filer
      BY <1>4, <1>9, <1>10, <2>1 DEF MonitorInv, OnePlace
    <2> QED BY <1>1, <2>2, <2>3, <2>4, <2>5, <2>6 DEF MonitorInv, OnePlace
  <1>13. DataKnown'
    BY <1>1, <1>3, <1>4, <1>9, <1>10 DEF MonitorInv, DataKnown, dataVars
  <1>14. WritersKnown'
    BY <1>1, <1>5, FilesKept DEF dataVars
  <1>15. ThreadsRun'
    BY <1>1, <1>7 DEF MonitorInv, ThreadsRun
  <1>16. WorkCounted => WorkCounted'
    <2>1. Cardinality(Busy') = Cardinality(Busy) - 1
      BY <1>3, <1>9, Finite, FS_RemoveElement
    <2>2. \A u \in Threads : At(u, "off")' => At(u, "off")
      BY <1>5, <1>8 DEF At
    <2>3. 1 .. nthr \subseteq Threads
      BY ConfigAssumption DEF Threads, MonitorInv, MTypeOK
    <2>4. nwork \in Nat /\ Len(workq) \in Nat
      BY <1>2 DEF MonitorInv, MTypeOK
    <2>5. SUFFICES ASSUME WorkCounted PROVE WorkCounted'
      OBVIOUS
    <2>6. /\ nwork = Len(workq) + Cardinality(Busy) + Len(resultq)
          /\ workq # << >> => \A u \in 1 .. nthr : ~At(u, "off")
      BY <1>7, <2>5 DEF WorkCounted
    <2>7. nwork = Len(workq) + Cardinality(Busy') + Len(resultq')
      BY <1>10, <2>1, <2>4, <2>6, Finite
    <2>8. workq # << >> => \A u \in 1 .. nthr : ~At(u, "off")'
      BY <2>2, <2>3, <2>6
    <2> QED BY <1>1, <1>7, <2>7, <2>8 DEF WorkCounted
  <1> QED BY <1>6, <1>11, <1>12, <1>13, <1>14, <1>15, <1>16 DEF MonitorInv

-----------------------------------------------------------------------------
(***************************************************************************)
(* The main loop.                                                          *)
(***************************************************************************)
\* Between rounds no thread holds a filer.
LEMMA NoneBusy ==
  ASSUME \A t \in Threads : At(t, "off")
  PROVE  Busy = {} /\ \A t \in Threads : ~At(t, "write")
  BY DEF Busy, At

LEMMA GetFilersKept ==
  ASSUME MonitorInv, GetFilers
  PROVE  MonitorInv'
  <1>1. /\ mpc = "list" /\ mpc' = "round"
        /\ flist' = SetToSeq(Managed) /\ workq' = flist' /\ resultq' = << >>
        /\ ntimes' = 0 /\ nwork' = Len(flist') /\ nthr' = NThreads
        /\ filerData' = [f \in Filers |->
             IF f \in Managed /\ filerData[f] = NULL THEN NewFilerData ELSE filerData[f]]
        /\ UNCHANGED <<dfm, succ, worker, disk, writing, boundVars>>
    BY DEF GetFilers, RestartCount
  <1>2. Managed \subseteq Filers
    BY DEF Managed
  <1>3. /\ flist' \in Seq(Managed) /\ Len(flist') \in Nat
        /\ \A i, j \in DOMAIN flist' : flist'[i] = flist'[j] => i = j
        /\ \A i \in DOMAIN flist' : flist'[i] \in Managed
    BY <1>1, <1>2, Listed
  <1>4. flist' \in Seq(Filers)
    BY <1>2, <1>3
  <1>5. NewFilerData \in FilerData
    BY DEF NewFilerData, FilerData, Level
  <1>6. filerData' \in [Filers -> FilerData \cup {NULL}] /\ \A f \in Managed : filerData'[f] # NULL
    BY <1>1, <1>2, <1>5, SentinelAssumption DEF MonitorInv, MTypeOK
  <1>7. \A t \in Threads : At(t, "off")
    BY <1>1 DEF MonitorInv, ThreadsRun
  <1>8. Busy' = {}
    BY <1>1, <1>7 DEF Busy, At
  <1>9. MTypeOK'
    BY <1>1, <1>3, <1>4, <1>6, ConfigAssumption DEF MonitorInv, MTypeOK, boundVars
  <1>10. OnePlace' /\ DataKnown'
    <2>1. DOMAIN resultq' = {}
      BY <1>1
    <2>2. /\ \A i, j \in DOMAIN workq' : workq'[i] = workq'[j] => i = j
          /\ \A i \in DOMAIN workq' : filerData'[workq'[i]] # NULL
      BY <1>1, <1>3, <1>6
    <2>3. OnePlace'
      BY <1>8, <2>1, <2>2 DEF OnePlace
    <2>4. DataKnown'
      BY <1>8, <2>1, <2>2 DEF DataKnown
    <2> QED BY <2>3, <2>4
  <1>11. WritersKnown'
    BY <1>1 DEF MonitorInv, WritersKnown, At
  <1>12. ThreadsRun' /\ WorkCounted'
    BY <1>1, <1>7 DEF ThreadsRun, WorkCounted, At
  <1> QED BY <1>9, <1>10, <1>11, <1>12 DEF MonitorInv

LEMMA StartRoundKept ==
  ASSUME MonitorInv, StartRound
  PROVE  MonitorInv'
  <1>1. /\ mpc = "round" /\ ntimes < Refresh /\ mpc' = "join"
        /\ nthr' = IF nwork < NThreads THEN nwork ELSE nthr
        /\ worker' = [t \in Threads |-> IF t <= nthr' THEN [Idle EXCEPT !.at = "get"] ELSE Idle]
        /\ UNCHANGED <<dfm, flist, workq, resultq, ntimes, nwork, succ, dataVars, boundVars>>
    BY DEF StartRound
  <1>2. /\ nwork \in Nat /\ nthr \in 0 .. NThreads /\ NThreads \in Nat \ {0}
        /\ nthr = NThreads \/ nwork < NThreads
    BY <1>1, ConfigAssumption DEF MonitorInv, MTypeOK, ThreadsRun
  <1>3. nthr' \in 0 .. NThreads
    BY <1>1, <1>2
  <1>4. /\ nthr' = NThreads \/ nwork < NThreads
        /\ nthr' = 0 => nwork = 0
    BY <1>1, <1>2
  <1>5. \A t \in Threads : worker'[t] \in WorkerRec /\ worker'[t].at \in {"off", "get"}
                           /\ (t <= nthr' => worker'[t].at = "get")
    BY <1>1 DEF WorkerRec, Idle, Places
  <1>6. Busy' = {} /\ \A t \in Threads : ~At(t, "write")'
    BY <1>5 DEF Busy, At
  <1>7. MTypeOK'
    BY <1>1, <1>3, <1>5 DEF MonitorInv, MTypeOK, WorkerRec, dataVars, boundVars
  <1>8. OnePlace' /\ DataKnown'
    <2>1. UNCHANGED <<workq, resultq, filerData>>
      BY <1>1 DEF dataVars
    <2>2. OnePlace'
      BY <1>6, <2>1 DEF MonitorInv, OnePlace
    <2>3. DataKnown'
      BY <1>6, <2>1 DEF MonitorInv, DataKnown
    <2> QED BY <2>2, <2>3
  <1>9. WritersKnown'
    <2>1. \A t \in Threads : ~At(t, "write")
      BY <1>1, NoneBusy DEF MonitorInv, ThreadsRun
    <2> QED BY <1>1, <1>6, <2>1 DEF MonitorInv, WritersKnown, dataVars
  <1>10. ThreadsRun'
    BY <1>1, <1>4 DEF ThreadsRun
  <1>11. WorkCounted => WorkCounted'
    <2>1. Cardinality(Busy') = 0 /\ Len(<< >>) = 0
      BY <1>6, FS_EmptySet
    <2>2. Len(workq) \in Nat
      BY DEF MonitorInv, MTypeOK
    <2>3. \A t \in 1 .. nthr' : ~At(t, "off")'
      BY <1>3, <1>5, ConfigAssumption DEF At, Threads
    <2> QED BY <1>1, <2>1, <2>2, <2>3 DEF WorkCounted
  <1>12. Raised' <=> Raised
    BY <1>1 DEF Raised, boundVars
  <1> QED BY <1>7, <1>8, <1>9, <1>10, <1>11, <1>12 DEF MonitorInv

LEMMA JoinKept ==
  ASSUME MonitorInv, Join
  PROVE  MonitorInv'
  <1>1. /\ mpc = "join" /\ mpc' = "results" /\ \A t \in Threads : At(t, "off")
        /\ ntimes' = ntimes + 1 /\ succ' = 0
        /\ UNCHANGED <<dfm, flist, workq, resultq, nwork, nthr, worker, dataVars, boundVars>>
    BY DEF Join, At
  <1>2. /\ nwork \in Nat /\ ntimes \in Nat /\ ntimes < Refresh /\ nthr \in 0 .. NThreads
        /\ Refresh \in Nat /\ NThreads \in Nat \ {0}
    BY <1>1, ConfigAssumption DEF MonitorInv, MTypeOK, ThreadsRun
  <1>3. MTypeOK'
    <2>1. ntimes' \in 0 .. Refresh /\ succ' \in Nat
      BY <1>1, <1>2
    <2> QED BY <1>1, <2>1 DEF MonitorInv, MTypeOK, dataVars, boundVars
  <1>4. UNCHANGED <<workq, resultq, filerData, disk, writing, worker>>
    BY <1>1 DEF dataVars
  <1>5. OnePlace' /\ DataKnown' /\ WritersKnown'
    <2>1. Busy' = Busy /\ \A t \in Threads : At(t, "write")' <=> At(t, "write")
      BY <1>4 DEF Busy, At
    <2>2. OnePlace' /\ DataKnown'
      BY <1>4, <2>1 DEF MonitorInv, OnePlace, DataKnown
    <2>3. WritersKnown'
      BY <1>4, <2>1 DEF MonitorInv, WritersKnown
    <2> QED BY <2>2, <2>3
  <1>6. ThreadsRun'
    BY <1>1, <1>2 DEF MonitorInv, ThreadsRun, At
  <1>7. WorkCounted => WorkCounted'
    <2>1. Cardinality(Busy) = 0
      BY <1>1, NoneBusy, FS_EmptySet
    <2>2. workq \in Seq(Filers) /\ resultq \in Seq(ResultRec)
      BY DEF MonitorInv, MTypeOK, ResultRec
    <2>3. SUFFICES ASSUME WorkCounted PROVE WorkCounted'
      OBVIOUS
    <2>4. workq = << >>
      <3>1. CASE nthr = 0
        <4>1. nwork = 0
          BY <1>1, <3>1 DEF MonitorInv, ThreadsRun
        <4>2. nwork = Len(workq) + Len(resultq) /\ Len(workq) \in Nat /\ Len(resultq) \in Nat
          BY <1>1, <2>1, <2>2, <2>3 DEF WorkCounted
        <4> QED BY <2>2, <4>1, <4>2
      <3>2. CASE nthr # 0
        BY <1>1, <1>2, <2>3, <3>2 DEF WorkCounted, Threads
      <3> QED BY <3>1, <3>2
    <2>5. nwork = Len(resultq)
      BY <1>1, <2>1, <2>2, <2>3, <2>4 DEF WorkCounted
    <2> QED BY <1>1, <2>4, <2>5 DEF WorkCounted
  <1>8. Raised' <=> Raised
    BY <1>1 DEF Raised, boundVars
  <1> QED BY <1>3, <1>5, <1>6, <1>7, <1>8 DEF MonitorInv

LEMMA TakeResultKept ==
  ASSUME MonitorInv, TakeResult
  PROVE  MonitorInv'
  <1> DEFINE x == Head(resultq)
  <1>1. /\ mpc = "results" /\ nwork > 0 /\ resultq # << >>
        /\ resultq' = Tail(resultq) /\ nwork' = nwork - 1
        /\ \/ x.err = 0 /\ workq' = Append(workq, x.filer) /\ succ' = succ + 1
           \/ UNCHANGED <<workq, succ>>
        /\ UNCHANGED <<dfm, mpc, flist, ntimes, nthr, worker, dataVars, boundVars>>
    BY DEF TakeResult
  <1>2. /\ workq \in Seq(Filers) /\ resultq \in Seq(ResultRec) /\ nwork \in Nat /\ succ \in Nat
        /\ Len(workq) \in Nat
    BY DEF MonitorInv, MTypeOK, ResultRec
  <1>3. /\ 1 \in DOMAIN resultq /\ x = resultq[1] /\ x \in ResultRec /\ x.filer \in Filers
        /\ resultq' \in Seq(ResultRec)
        /\ Len(resultq) \in Nat \ {0} /\ Len(resultq') = Len(resultq) - 1
        /\ \A j \in DOMAIN resultq' : j \in Nat /\ j + 1 \in DOMAIN resultq /\ j + 1 # 1
                                      /\ resultq'[j] = resultq[j + 1]
    BY <1>1, <1>2, QueuesTyped
  <1> HIDE DEF x
  <1>4. /\ workq' \in Seq(Filers) /\ succ' \in Nat
        /\ succ' + nwork' <= succ + nwork
        /\ Len(workq') - succ' = Len(workq) - succ /\ Len(workq') \in Nat
        /\ \A i \in DOMAIN workq' : \/ i \in DOMAIN workq /\ workq'[i] = workq[i]
                                    \/ i = Len(workq) + 1 /\ workq'[i] = x.filer
    <2>1. CASE workq' = Append(workq, x.filer) /\ succ' = succ + 1
      BY <1>1, <1>2, <1>3, <2>1, AppendProperties
    <2>2. CASE UNCHANGED <<workq, succ>>
      BY <1>1, <1>2, <2>2
    <2> QED BY <1>1, <2>1, <2>2
  <1>5. UNCHANGED <<filerData, disk, writing, worker>>
    BY <1>1 DEF dataVars
  <1>6. Busy' = Busy /\ Busy = {} /\ \A t \in Threads : At(t, "write")' <=> At(t, "write")
    BY <1>1, <1>5, NoneBusy DEF Busy, At, MonitorInv, ThreadsRun
  <1>7. MTypeOK'
    <2>1. nwork' \in Nat
      BY <1>1, <1>2
    <2> QED BY <1>1, <1>3, <1>4, <2>1 DEF MonitorInv, MTypeOK, ResultRec, dataVars, boundVars
  <1>8. OnePlace'
    <2>1. \A i \in DOMAIN workq : workq[i] # x.filer
      BY <1>3 DEF MonitorInv, OnePlace
    <2>2. \A i, j \in DOMAIN workq' : workq'[i] = workq'[j] => i = j
      BY <1>4, <2>1 DEF MonitorInv, OnePlace
    <2>3. \A j \in DOMAIN resultq' : resultq'[j].filer # x.filer
      BY <1>3 DEF MonitorInv, OnePlace
    <2>4. \A i \in DOMAIN workq', j \in DOMAIN resultq' : workq'[i] # resultq'[j].filer
      BY <1>3, <1>4, <2>3 DEF MonitorInv, OnePlace
    <2>5. \A i, j \in DOMAIN resultq' : resultq'[i].filer = resultq'[j].filer => i = j
      <3>1. ASSUME NEW i \in DOMAIN resultq', NEW j \in DOMAIN resultq',
                   resultq'[i].filer = resultq'[j].filer
            PROVE  i = j
        <4>1. i + 1 = j + 1
          BY <1>3, <3>1 DEF MonitorInv, OnePlace
        <4>2. i \in Nat /\ j \in Nat
          BY <1>3
        <4> QED BY <4>1, <4>2
      <3> QED BY <3>1
    <2> QED BY <1>6, <2>2, <2>4, <2>5 DEF OnePlace
  <1>9. DataKnown'
    <2>1. filerData[x.filer] # NULL
      BY <1>3 DEF MonitorInv, DataKnown
    <2> QED BY <1>3, <1>4, <1>5, <1>6, <2>1 DEF MonitorInv, DataKnown
  <1>10. WritersKnown'
    BY <1>5, <1>6 DEF MonitorInv, WritersKnown
  <1>11. ThreadsRun'
    <2>1. \A t \in Threads : At(t, "off")'
      BY <1>1, <1>5 DEF MonitorInv, ThreadsRun, At
    <2>2. nthr = NThreads \/ nwork' + succ' < NThreads
      <3>1. nthr = NThreads \/ nwork + succ < NThreads
        BY <1>1 DEF MonitorInv, ThreadsRun
      <3>2. nwork' \in Int /\ succ' \in Int /\ NThreads \in Int
        BY <1>1, <1>2, <1>4, ConfigAssumption
      <3>3. succ' + nwork' <= succ + nwork /\ nwork \in Int /\ succ \in Int
        BY <1>2, <1>4
      <3>4. \A a, b, c, d, n \in Int : b + a <= d + c /\ c + d < n => a + b < n
        OBVIOUS
      <3>5. nwork + succ < NThreads => nwork' + succ' < NThreads
        BY <3>2, <3>3, <3>4
      <3> QED BY <3>1, <3>5
    <2> QED BY <1>1, <2>1, <2>2 DEF ThreadsRun
  <1>12. WorkCounted => WorkCounted'
    <2>1. SUFFICES ASSUME WorkCounted PROVE WorkCounted'
      OBVIOUS
    <2>2. nwork = Len(resultq) /\ succ = Len(workq)
      BY <1>1, <2>1 DEF WorkCounted
    <2>3. nwork' = Len(resultq') /\ succ' = Len(workq')
      BY <1>1, <1>2, <1>3, <1>4, <2>2
    <2> QED BY <1>1, <2>3 DEF WorkCounted
  <1>13. Raised' <=> Raised
    BY <1>1 DEF Raised, boundVars
  <1> QED BY <1>7, <1>8, <1>9, <1>10, <1>11, <1>12, <1>13 DEF MonitorInv

\* The steps that only change where the main loop stands, or what DFM says.
LEMMA LoopKept ==
  ASSUME MonitorInv,
         \/ GetFilersFails \/ EndOfRounds \/ EndOfResults
         \/ \E f \in Filers : FilerChanges(f)
         \/ UNCHANGED vars
  PROVE  MonitorInv'
  <1>1. UNCHANGED <<flist, workq, resultq, ntimes, nthr, succ, worker, filerData, disk, writing>>
    BY DEF GetFilersFails, EndOfRounds, EndOfResults, FilerChanges, vars, mainVars, dataVars,
           boundVars
  <1>2. Busy' = Busy /\ \A t \in Threads, p \in Places : At(t, p)' <=> At(t, p)
    BY <1>1 DEF Busy, At
  <1>3. OnePlace' /\ DataKnown'
    BY <1>1, <1>2 DEF MonitorInv, OnePlace, DataKnown
  <1>4. WritersKnown'
    BY <1>1, <1>2 DEF MonitorInv, WritersKnown, Places
  <1>5. \/ mpc = "results" /\ mpc' = "round" /\ nwork = 0 /\ nwork' = succ
        \/ mpc = "round" /\ mpc' = "list" /\ nwork' = nwork
        \/ UNCHANGED <<mpc, nwork>>
    BY DEF GetFilersFails, EndOfRounds, EndOfResults, NextWork, FilerChanges, vars, mainVars
  <1>6. nwork \in Nat /\ succ \in Nat /\ nwork' \in Nat
    BY <1>5 DEF MonitorInv, MTypeOK
  <1>7. ThreadsRun'
    BY <1>1, <1>2, <1>5, <1>6 DEF MonitorInv, ThreadsRun, Places
  <1>8. dfm' \in [Filers -> FilerState] /\ changes' \in 0 .. MaxChanges /\ FaultsGrow
    <2>1. CASE \E f \in Filers : FilerChanges(f)
      BY <2>1, ConfigAssumption DEF FilerChanges, MonitorInv, MTypeOK, FaultsGrow
    <2>2. CASE \/ GetFilersFails \/ EndOfRounds \/ EndOfResults \/ UNCHANGED vars
      BY <2>2 DEF GetFilersFails, EndOfRounds, EndOfResults, vars, boundVars, FaultsGrow, Fault,
                  MonitorInv, MTypeOK
    <2> QED BY <2>1, <2>2
  <1>9. MTypeOK'
    <2>1. faults' \in Seq(Faults) /\ Len(faults') <= MaxFaults
      BY <1>8, FaultsTyped
    <2>2. mpc' \in {"list", "round", "join", "results"}
      BY <1>5 DEF MonitorInv, MTypeOK
    <2> QED BY <1>1, <1>6, <1>8, <2>1, <2>2 DEF MonitorInv, MTypeOK
  <1>10. Raised => Raised'
    BY <1>8, FaultsTyped
  <1>11. WorkCounted => WorkCounted'
    <2>1. resultq \in Seq(ResultRec)
      BY DEF MonitorInv, MTypeOK, ResultRec
    <2>2. \A t \in 1 .. nthr : At(t, "off")' <=> At(t, "off")
      BY <1>1 DEF At
    <2> QED BY <1>1, <1>2, <1>5, <2>1, <2>2 DEF WorkCounted
  <1> QED BY <1>3, <1>4, <1>7, <1>9, <1>10, <1>11 DEF MonitorInv

LEMMA RestartKept ==
  ASSUME MonitorInv, Restart
  PROVE  MonitorInv' /\ Files!Stop(Filers)
  <1>1. /\ mpc' = "list" /\ flist' = << >> /\ workq' = << >> /\ resultq' = << >>
        /\ ntimes' = 0 /\ nwork' = 0 /\ nthr' = 0 /\ succ' = 0
        /\ worker' = [t \in Threads |-> Idle]
        /\ filerData' = [f \in Filers |-> NULL]
        /\ writing' = [f \in Filers |-> << >>]
        /\ UNCHANGED <<dfm, disk, changes>> /\ FaultsGrow
    BY DEF Restart, Fault, FaultsGrow
  <1>2. faults' \in Seq(Faults) /\ Len(faults') <= MaxFaults
    BY <1>1, FaultsTyped
  <1>3. Idle \in WorkerRec /\ Idle.at = "off"
    BY DEF Idle, WorkerRec, Places
  <1>4. MTypeOK'
    <2>1. << >> \in Seq(Filers) /\ << >> \in Seq(ResultRec) /\ << >> \in Seq(Parts)
      OBVIOUS
    <2> QED BY <1>1, <1>2, <1>3, <2>1, ConfigAssumption
            DEF MonitorInv, MTypeOK, WorkerRec, ResultRec
  <1>5. Busy' = {} /\ \A t \in Threads : At(t, "off")' /\ ~At(t, "write")'
    BY <1>1, <1>3 DEF Busy, At
  <1>6. OnePlace' /\ DataKnown'
    BY <1>1, <1>5 DEF OnePlace, DataKnown
  <1>7. WritersKnown' /\ ThreadsRun' /\ WorkCounted'
    BY <1>1, <1>5 DEF WritersKnown, ThreadsRun, WorkCounted
  <1>8. Files!Stop(Filers)
    BY <1>1 DEF Files!Stop
  <1> QED BY <1>4, <1>6, <1>7, <1>8 DEF MonitorInv

-----------------------------------------------------------------------------
(***************************************************************************)
(* The theorems.                                                           *)
(***************************************************************************)
LEMMA MonitorInit == Init => MonitorInv
  <1> SUFFICES ASSUME Init PROVE MonitorInv
    OBVIOUS
  <1>1. Idle \in WorkerRec /\ Idle.at = "off"
    BY DEF Idle, WorkerRec, Places
  <1>2. Busy = {} /\ \A t \in Threads : At(t, "off") /\ ~At(t, "write")
    BY <1>1 DEF Init, Busy, At
  <1>3. MTypeOK
    <2>1. /\ << >> \in Seq(Filers) /\ << >> \in Seq(ResultRec) /\ << >> \in Seq(Parts)
          /\ << >> \in Seq(Faults) /\ Len(<< >>) = 0
      OBVIOUS
    <2> QED BY <1>1, <2>1, ConfigAssumption DEF Init, MTypeOK, WorkerRec, ResultRec
  <1>4. OnePlace /\ DataKnown
    BY <1>2 DEF Init, OnePlace, DataKnown
  <1>5. WritersKnown /\ ThreadsRun /\ WorkCounted
    BY <1>2 DEF Init, WritersKnown, ThreadsRun, WorkCounted
  <1> QED BY <1>3, <1>4, <1>5 DEF MonitorInv

FilesStep == Files!Next \/ UNCHANGED <<disk, writing>>

LEMMA MonitorNext == MonitorInv /\ [Next]_vars => MonitorInv' /\ FilesStep
  <1> SUFFICES ASSUME MonitorInv, [Next]_vars PROVE MonitorInv' /\ FilesStep
    OBVIOUS
  <1>1. CASE Main
    <2>1. UNCHANGED <<disk, writing>>
      BY <1>1 DEF Main, GetFilers, StartRound, EndOfRounds, Join, TakeResult, EndOfResults, dataVars
    <2> QED BY <1>1, <2>1, GetFilersKept, StartRoundKept, JoinKept, TakeResultKept, LoopKept
            DEF Main, FilesStep
  <1>2. ASSUME NEW t \in Threads, Work(t) \/ Fails(t)
        PROVE  MonitorInv' /\ FilesStep
    <2>1. CASE Get(t)
      BY <2>1, GetKept DEF Get, dataVars, FilesStep
    <2>2. CASE \/ CollectAggr(t) \/ CollectDomain(t) \/ CollectVolumes(t)
               \/ VolumeUnknown(t) \/ CollectFails(t)
      <3>1. UNCHANGED <<disk, writing>>
        BY <2>2 DEF CollectAggr, CollectDomain, CollectVolumes, VolumeUnknown, CollectFails, Collect
      <3> QED BY <2>2, <3>1, CollectingKept DEF FilesStep
    <2>3. CASE CollectRaises(t)
      BY <2>3, RaiseKept DEF CollectRaises, FilesStep
    <2>4. CASE OpenFile(t)
      <3>1. worker[t].filer \in Filers
        BY <2>4, InHand DEF OpenFile, At
      <3> QED BY <2>4, <3>1, OpenKept DEF FilesStep, Files!Next
    <2>5. CASE WritePart(t)
      <3>1. worker[t].filer \in Filers
        BY <2>5, InHand DEF WritePart, At
      <3> QED BY <2>5, <3>1, WriteKept DEF FilesStep, Files!Next
    <2>6. CASE PrintFails(t)
      <3>1. {worker[t].filer} \in SUBSET Filers
        BY <2>6, InHand DEF PrintFails
      <3> QED BY <2>6, <3>1, PrintFailsKept DEF FilesStep, Files!Next
    <2>7. CASE Put(t)
      BY <2>7, PutKept DEF Put, dataVars, FilesStep
    <2> QED BY <1>2, <2>1, <2>2, <2>3, <2>4, <2>5, <2>6, <2>7 DEF Work, Fails
  <1>3. CASE GetFilersFails \/ (\E f \in Filers : FilerChanges(f)) \/ UNCHANGED vars
    <2>1. UNCHANGED <<disk, writing>>
      BY <1>3 DEF GetFilersFails, FilerChanges, vars, dataVars
    <2> QED BY <1>3, <2>1, LoopKept DEF FilesStep
  <1>4. CASE Restart
    <2>1. Filers \in SUBSET Filers
      OBVIOUS
    <2> QED BY <1>4, <2>1, RestartKept DEF FilesStep, Files!Next
  <1> QED BY <1>1, <1>2, <1>3, <1>4 DEF Next

LEMMA FilesInit == Init => Files!Init
  BY DEF Init, Files!Init

LEMMA BlockedImplied == MonitorInv => NeverBlocked
  <1> SUFFICES ASSUME MonitorInv, ~Raised, mpc = "results", nwork > 0 PROVE resultq # << >>
    BY DEF NeverBlocked
  <1>1. nwork = Len(resultq)
    BY DEF MonitorInv, WorkCounted
  <1> QED BY <1>1

\* The state of the monitor is consistent at every moment, whatever DFM, the
\* disk and the administrator do: no filer is in two places, every file being
\* written belongs to a thread, and nwork counts what is under way.
THEOREM MonitorCorrect == Spec => []MonitorInv
  <1>1. MonitorInv /\ [Next]_vars => MonitorInv'
    BY MonitorNext
  <1> QED BY <1>1, MonitorInit, PTL DEF Spec

\* As long as no thread has ended with an exception, the main thread does not
\* wait in resultq.get() for a result that cannot come.
THEOREM MainNeverBlocked == Spec => []NeverBlocked
  BY MonitorCorrect, BlockedImplied, PTL

\* The monitor implements CounterFiles: every step of every thread truncates,
\* continues or abandons the file of its filer, or leaves the files alone.
THEOREM WritersImplementFiles == Spec => OneWriterPerFile
  <1>1. MonitorInv /\ [Next]_vars => [Files!Next]_<<disk, writing>>
    BY MonitorNext DEF FilesStep
  <1> QED BY <1>1, FilesInit, MonitorCorrect, PTL DEF Spec, OneWriterPerFile, Files!Spec
=============================================================================
