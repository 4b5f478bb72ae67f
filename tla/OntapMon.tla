------------------------------ MODULE OntapMon ------------------------------
(***************************************************************************)
(* ontapmon.py: the main loop that keeps asking DFM for the managed filers *)
(* and hands them to worker threads, and the workers, which ask DFM for    *)
(* the counters of a filer, keep them in filerDataDict and write them to   *)
(* the filer's counter file.                                               *)
(*                                                                         *)
(* Every call of DFM (external) may be answered, fail, so that the         *)
(* function returns -1, or raise an exception nobody catches.  Of a        *)
(* filer's counters the model keeps the largest disk_busy of its           *)
(* aggregate, the busiest domain, and of each volume the latency, which    *)
(* perf-get-counter-data gives, and the space, which the volume list of    *)
(* the filer gives.  time.sleep() is left out: it only delays.             *)
(*                                                                         *)
(* Definitions called Mistaken... are not used: each is a plausible error  *)
(* in the definition below it, to show that the properties detect it.      *)
(***************************************************************************)
EXTENDS SequencesExt, FiniteSets, Integers

CONSTANTS
  Filers,
  Volumes,
  NThreads,     \* NTHREADS of config.ini
  Refresh,      \* REFRESH of config.ini
  Faults,       \* what may go wrong: "fail", "raise", "write", "kill"
  MaxFaults,    \* bound: how often
  MaxChanges,   \* bound: how often the filers' own state changes
  NULL, NoFile

ASSUME ConfigAssumption ==
  /\ NThreads \in Nat \ {0} /\ Refresh \in Nat \ {0}
  /\ MaxFaults \in Nat /\ MaxChanges \in Nat
  /\ Faults \subseteq {"fail", "raise", "write", "kill"}

Threads == 1 .. NThreads
Level   == 0 .. 1
VolumeData == [avglatency : Level, availsize : Level]

\* A FilerData: a volume that no counters came for yet is NULL.
FilerData == [maxdiskb : Level, dvalue : Level, vols : [Volumes -> VolumeData \cup {NULL}]]

\* A filer as DFM and ONTAP see it: its load, and its volumes.
FilerState == [managed : BOOLEAN, busy : Level, domain : Level, vols : SUBSET Volumes]

\* A document comes in parts, so that a file may hold some of them.
Parts == [part : {1, 2}, data : FilerData]
Document(d) == << [part |-> 1, data |-> d], [part |-> 2, data |-> d] >>
Docs == [f \in Filers |-> {Document(d) : d \in FilerData}]

ASSUME SentinelAssumption ==
  IsFiniteSet(Filers) /\ NULL \notin FilerData /\ NoFile \notin Seq(Parts)

VARIABLES
  dfm,          \* filer -> FilerState
  mpc,          \* where the main loop stands
  flist,        \* flist_arr
  workq, resultq, ntimes, nwork, nthr, succ,
  worker,       \* thread -> [at, filer, err]
  filerData,    \* filerDataDict
  disk,         \* filer -> parts of the document in its counter file, or NoFile
  writing,      \* filer -> parts its worker has yet to write
  faults,       \* history: what has gone wrong, in order
  changes       \* history: how often the filers' own state has changed

mainVars == <<mpc, flist, workq, resultq, ntimes, nwork, nthr, succ>>
dataVars == <<filerData, disk, writing>>
boundVars == <<faults, changes>>
vars == <<dfm, mainVars, worker, dataVars, boundVars>>

Idle == [at |-> "off", filer |-> NULL, err |-> 0]
NewFilerData == [maxdiskb |-> 0, dvalue |-> 0, vols |-> [v \in Volumes |-> NULL]]

Init ==
  /\ mpc = "list" /\ flist = << >> /\ workq = << >> /\ resultq = << >>
  /\ ntimes = 0 /\ nwork = 0 /\ nthr = 0 /\ succ = 0
  /\ worker = [t \in Threads |-> Idle]
  /\ filerData = [f \in Filers |-> NULL]
  /\ dfm \in [Filers -> FilerState]
  /\ disk = [f \in Filers |-> NoFile]
  /\ writing = [f \in Filers |-> << >>]
  /\ faults = << >> /\ changes = 0

\* Something goes wrong.
Fault(kind) == kind \in Faults /\ Len(faults) < MaxFaults /\ faults' = Append(faults, kind)

\* A thread has ended with an exception.
Raised == \E i \in DOMAIN faults : faults[i] = "raise"
-----------------------------------------------------------------------------
(***************************************************************************)
(* The main loop.                                                          *)
(***************************************************************************)
Managed == {f \in Filers : dfm[f].managed}

\* flist_get(), and new queues filled with what it returns.  There are no
\* filers: ask again.
MistakenRestartCount == UNCHANGED ntimes
RestartCount == ntimes' = 0

GetFilers ==
  /\ mpc = "list"
  /\ Managed # {}
  /\ flist' = SetToSeq(Managed)
  /\ workq' = flist' /\ resultq' = << >>
  /\ RestartCount /\ nwork' = Len(flist') /\ nthr' = NThreads
  /\ filerData' = [f \in Filers |->
       IF f \in Managed /\ filerData[f] = NULL THEN NewFilerData ELSE filerData[f]]
  /\ mpc' = "round"
  /\ UNCHANGED <<dfm, succ, worker, disk, writing, boundVars>>

GetFilersFails ==
  /\ mpc = "list"
  /\ Fault("fail")
  /\ UNCHANGED <<dfm, mainVars, worker, dataVars, changes>>

\* A round: no more threads than filers on workq.
StartRound ==
  /\ mpc = "round" /\ ntimes < Refresh
  /\ nthr' = IF nwork < NThreads THEN nwork ELSE nthr
  /\ worker' = [t \in Threads |-> IF t <= nthr' THEN [Idle EXCEPT !.at = "get"] ELSE Idle]
  /\ mpc' = "join"
  /\ UNCHANGED <<dfm, flist, workq, resultq, ntimes, nwork, succ, dataVars, boundVars>>

EndOfRounds ==
  /\ mpc = "round" /\ ntimes >= Refresh
  /\ mpc' = "list"
  /\ UNCHANGED <<dfm, flist, workq, resultq, ntimes, nwork, nthr, succ, worker, dataVars, boundVars>>

\* All threads are over.
Join ==
  /\ mpc = "join" /\ \A t \in Threads : worker[t].at = "off"
  /\ ntimes' = ntimes + 1 /\ succ' = 0
  /\ mpc' = "results"
  /\ UNCHANGED <<dfm, flist, workq, resultq, nwork, nthr, worker, dataVars, boundVars>>

\* resultq.get() waits for a result as long as there is none.
TakeResult ==
  /\ mpc = "results" /\ nwork > 0 /\ resultq # << >>
  /\ resultq' = Tail(resultq) /\ nwork' = nwork - 1
  /\ IF Head(resultq).err = 0
       THEN workq' = Append(workq, Head(resultq).filer) /\ succ' = succ + 1
       ELSE UNCHANGED <<workq, succ>>
  /\ UNCHANGED <<dfm, mpc, flist, ntimes, nthr, worker, dataVars, boundVars>>

\* The work of the next round.
MistakenNextWork == nwork' = Len(flist)
NextWork == nwork' = succ

EndOfResults ==
  /\ mpc = "results" /\ nwork = 0
  /\ NextWork
  /\ mpc' = "round"
  /\ UNCHANGED <<dfm, flist, workq, resultq, ntimes, nthr, succ, worker, dataVars, boundVars>>

Main == GetFilers \/ StartRound \/ EndOfRounds \/ Join \/ TakeResult \/ EndOfResults
-----------------------------------------------------------------------------
(***************************************************************************)
(* The workers: run() of WorkerThread, and perf_mon().                     *)
(***************************************************************************)
At(t, place) == worker[t].at = place
Goto(t, place) == worker' = [worker EXCEPT ![t].at = place]
Result(t, err) == worker' = [worker EXCEPT ![t].at = "put", ![t].err = err]

MistakenTake == UNCHANGED workq
Take == workq' = Tail(workq)

\* The queue is empty, or there is a filer to work on.
Get(t) ==
  /\ At(t, "get")
  /\ IF workq = << >>
       THEN Goto(t, "off") /\ UNCHANGED workq
       ELSE /\ worker' = [worker EXCEPT ![t] = [at |-> "aggr", filer |-> Head(workq), err |-> 0]]
            /\ Take
  /\ UNCHANGED <<dfm, mpc, flist, resultq, ntimes, nwork, nthr, succ, dataVars, boundVars>>

\* extract_aggr_counter_data(): the largest disk_busy starts from zero.
MistakenMaxDisk(f) == IF dfm[f].busy > filerData[f].maxdiskb THEN dfm[f].busy ELSE filerData[f].maxdiskb
MaxDisk(f) == dfm[f].busy

\* Counters that came for the volumes vs.
WithCounters(f, vs) ==
  [filerData[f] EXCEPT
     !.maxdiskb = MaxDisk(f),
     !.vols = [v \in Volumes |->
        IF v \notin vs THEN @[v]
        ELSE [avglatency |-> dfm[f].busy, availsize |-> IF @[v] = NULL THEN 0 ELSE @[v].availsize]]]
WithAggr(f) == WithCounters(f, dfm[f].vols)

\* extract_domain_counter_data(): the largest value starts from the last one.
WithDomain(f) ==
  [filerData[f] EXCEPT !.dvalue = IF dfm[f].domain > @ THEN dfm[f].domain ELSE @]

\* vollist_get(), for the volumes vs, one after the other.
Known(f) == {v \in dfm[f].vols : filerData[f].vols[v] # NULL}
WithSpace(f, vs) ==
  [filerData[f] EXCEPT
     !.vols = [v \in Volumes |-> IF v \in vs THEN [@[v] EXCEPT !.availsize = 1] ELSE @[v]]]
WithVolumes(f) == WithSpace(f, Known(f))

\* A part of perf_mon(): all of it is done and the next one begins.
Collect(t, here, next, Data(_)) ==
  /\ At(t, here)
  /\ filerData' = [filerData EXCEPT ![worker[t].filer] = Data(worker[t].filer)]
  /\ Goto(t, next)
  /\ UNCHANGED <<dfm, mainVars, disk, writing, boundVars>>

UnknownVolume(f) == Known(f) # dfm[f].vols

CollectAggr(t)    == Collect(t, "aggr", "domain", WithAggr)
CollectDomain(t)  == Collect(t, "domain", "vols", WithDomain)
CollectVolumes(t) == /\ At(t, "vols") /\ ~UnknownVolume(worker[t].filer)
                     /\ Collect(t, "vols", "open", WithVolumes)

\* A volume without counters is a KeyError, which vollist_get() turns into -1.
VolumeUnknown(t) ==
  /\ At(t, "vols") /\ UnknownVolume(worker[t].filer)
  /\ \E vs \in SUBSET Known(worker[t].filer) :
       filerData' = [filerData EXCEPT ![worker[t].filer] = WithSpace(worker[t].filer, vs)]
  /\ Result(t, -1)
  /\ UNCHANGED <<dfm, mainVars, disk, writing, boundVars>>

\* What a part has done when it goes wrong: nothing, something or everything.
Partly(f, place) ==
  {filerData[f]} \cup
  (CASE place = "aggr"   -> {[WithCounters(f, vs) EXCEPT !.maxdiskb = m] :
                               vs \in SUBSET dfm[f].vols, m \in {0, MaxDisk(f)}}
     [] place = "domain" -> {WithDomain(f)}
     [] place = "vols"   -> {WithSpace(f, vs) : vs \in SUBSET Known(f)})

Collecting(t) == worker[t].at \in {"aggr", "domain", "vols"}

\* DFM does not answer, or the answer lacks something: -1 ...
CollectFails(t) ==
  /\ Collecting(t) /\ Fault("fail")
  /\ \E d \in Partly(worker[t].filer, worker[t].at) :
       filerData' = [filerData EXCEPT ![worker[t].filer] = d]
  /\ Result(t, -1)
  /\ UNCHANGED <<dfm, mainVars, disk, writing, changes>>

\* ... or an exception that ends the thread, which run() does not catch.
CollectRaises(t) ==
  /\ Collecting(t) /\ Fault("raise")
  /\ \E d \in Partly(worker[t].filer, worker[t].at) :
       filerData' = [filerData EXCEPT ![worker[t].filer] = d]
  /\ worker' = [worker EXCEPT ![t] = Idle]
  /\ UNCHANGED <<dfm, mainVars, disk, writing, changes>>

\* printToXML(): open() truncates the file.
MistakenOpened(f) == IF disk[f] = NoFile THEN << >> ELSE disk[f]
Opened(f) == << >>

OpenFile(t) ==
  /\ At(t, "open")
  /\ disk' = [disk EXCEPT ![worker[t].filer] = Opened(worker[t].filer)]
  /\ writing' = [writing EXCEPT ![worker[t].filer] = Document(filerData[worker[t].filer])]
  /\ Goto(t, "write")
  /\ UNCHANGED <<dfm, mainVars, filerData, boundVars>>

WritePart(t) ==
  /\ At(t, "write")
  /\ LET f == worker[t].filer IN
       /\ disk' = [disk EXCEPT ![f] = Append(@, Head(writing[f]))]
       /\ writing' = [writing EXCEPT ![f] = Tail(@)]
       /\ IF Len(writing[f]) = 1 THEN Result(t, 0) ELSE UNCHANGED worker
  /\ UNCHANGED <<dfm, mainVars, filerData, boundVars>>

\* open() or write() fails: printToXML() returns -1, which perf_mon() ignores.
PrintFails(t) ==
  /\ worker[t].at \in {"open", "write"} /\ Fault("write")
  /\ writing' = [writing EXCEPT ![worker[t].filer] = << >>]
  /\ Result(t, 0)
  /\ UNCHANGED <<dfm, mainVars, filerData, disk, changes>>

Put(t) ==
  /\ At(t, "put")
  /\ resultq' = Append(resultq, [err |-> worker[t].err, filer |-> worker[t].filer])
  /\ worker' = [worker EXCEPT ![t] = [Idle EXCEPT !.at = "get"]]
  /\ UNCHANGED <<dfm, mpc, flist, workq, ntimes, nwork, nthr, succ, dataVars, boundVars>>

Work(t) ==
  \/ Get(t) \/ CollectAggr(t) \/ CollectDomain(t) \/ CollectVolumes(t) \/ VolumeUnknown(t)
  \/ OpenFile(t) \/ WritePart(t) \/ Put(t)

Fails(t) == CollectFails(t) \/ CollectRaises(t) \/ PrintFails(t)
-----------------------------------------------------------------------------
(***************************************************************************)
(* The environment: the filers, and the administrator who stops the script *)
(* with kill -9 and starts it again.                                       *)
(***************************************************************************)
FilerChanges(f) ==
  /\ changes < MaxChanges /\ changes' = changes + 1
  /\ \E s \in FilerState : s # dfm[f] /\ dfm' = [dfm EXCEPT ![f] = s]
  /\ UNCHANGED <<mainVars, worker, dataVars, faults>>

Restart ==
  /\ Fault("kill")
  /\ mpc' = "list" /\ flist' = << >> /\ workq' = << >> /\ resultq' = << >>
  /\ ntimes' = 0 /\ nwork' = 0 /\ nthr' = 0 /\ succ' = 0
  /\ worker' = [t \in Threads |-> Idle]
  /\ filerData' = [f \in Filers |-> NULL]
  /\ writing' = [f \in Filers |-> << >>]
  /\ UNCHANGED <<dfm, disk, changes>>

Next ==
  \/ Main \/ GetFilersFails
  \/ \E t \in Threads : Work(t) \/ Fails(t)
  \/ \E f \in Filers : FilerChanges(f)
  \/ Restart

Spec == Init /\ [][Next]_vars

\* The main thread and the workers run.
Fairness == WF_vars(Main) /\ \A t \in Threads : WF_vars(Work(t))
FairSpec == Spec /\ Fairness
-----------------------------------------------------------------------------
Places == {"off", "get", "aggr", "domain", "vols", "open", "write", "put"}

MTypeOK ==
  /\ dfm \in [Filers -> FilerState]
  /\ mpc \in {"list", "round", "join", "results"}
  /\ flist \in Seq(Filers) /\ workq \in Seq(Filers)
  /\ resultq \in Seq([err : {-1, 0}, filer : Filers])
  /\ ntimes \in 0 .. Refresh /\ nwork \in Nat /\ nthr \in 0 .. NThreads /\ succ \in Nat
  /\ worker \in [Threads -> [at : Places, filer : Filers \cup {NULL}, err : {-1, 0}]]
  /\ filerData \in [Filers -> FilerData \cup {NULL}]
  /\ disk \in [Filers -> Seq(Parts) \cup {NoFile}] /\ writing \in [Filers -> Seq(Parts)]
  /\ \A f \in Filers : disk[f] = NoFile \/ \E d \in Docs[f] : IsPrefix(disk[f], d)
  /\ faults \in Seq(Faults) /\ Len(faults) <= MaxFaults /\ changes \in 0 .. MaxChanges

\* A thread with a filer in hand.
Busy == {t \in Threads : worker[t].at \notin {"off", "get"}}

\* A filer is in one place at most: on workq, in a thread's hand, on resultq.
OnePlace ==
  /\ \A i, j \in DOMAIN workq : workq[i] = workq[j] => i = j
  /\ \A i, j \in DOMAIN resultq : resultq[i].filer = resultq[j].filer => i = j
  /\ \A t, u \in Busy : worker[t].filer = worker[u].filer => t = u
  /\ \A i \in DOMAIN workq, j \in DOMAIN resultq : workq[i] # resultq[j].filer
  /\ \A i \in DOMAIN workq, t \in Busy : workq[i] # worker[t].filer
  /\ \A j \in DOMAIN resultq, t \in Busy : resultq[j].filer # worker[t].filer

\* Whatever is in one of these places is a filer with an entry in filerDataDict.
DataKnown ==
  /\ \A i \in DOMAIN workq : filerData[workq[i]] # NULL
  /\ \A j \in DOMAIN resultq : filerData[resultq[j].filer] # NULL
  /\ \A t \in Busy : worker[t].filer \in Filers /\ filerData[worker[t].filer] # NULL

\* What is still to be written completes a document, and a thread is at it.
WritersKnown ==
  /\ \A f \in Filers : writing[f] # << >> =>
       /\ disk[f] # NoFile /\ disk[f] \o writing[f] \in Docs[f]
       /\ \E t \in Threads : At(t, "write") /\ worker[t].filer = f
  /\ \A t \in Threads : At(t, "write") => writing[worker[t].filer] # << >>

\* Threads only run while the main thread waits for them, and there are enough.
ThreadsRun ==
  /\ mpc # "join" => \A t \in Threads : At(t, "off")
  /\ mpc = "join" => ntimes < Refresh
  /\ mpc \in {"round", "join"} => nthr = NThreads \/ nwork < NThreads
  /\ mpc = "results" => nthr = NThreads \/ nwork + succ < NThreads
  /\ mpc = "join" /\ nthr = 0 => nwork = 0

\* nwork counts the filers on their way from workq to resultq.
WorkCounted ==
  /\ mpc = "round" => nwork = Len(workq) /\ resultq = << >>
  /\ mpc = "join" =>
       /\ nwork = Len(workq) + Cardinality(Busy) + Len(resultq)
       /\ workq # << >> => \A t \in 1 .. nthr : ~At(t, "off")
  /\ mpc = "results" => nwork = Len(resultq) /\ succ = Len(workq)

\* The inductive invariant of OntapMonProofs.
MonitorInv ==
  /\ MTypeOK /\ OnePlace /\ DataKnown /\ WritersKnown /\ ThreadsRun
  /\ ~Raised => WorkCounted
-----------------------------------------------------------------------------
(***************************************************************************)
(* Properties.                                                             *)
(***************************************************************************)
\* The main thread never waits in resultq.get() for a result that nobody is
\* going to put there: every filer that nwork counts was taken from workq by a
\* thread of the round and answered before the thread ended.  (A thread that
\* ends with an exception takes its result along.)
NeverBlocked == ~Raised /\ mpc = "results" /\ nwork > 0 => resultq # << >>
Files == INSTANCE CounterFiles
           WITH Filers <- Filers, Docs <- Docs, NoFile <- NoFile,
                disk <- disk, writing <- writing

\* The monitor does to the counter files what CounterFiles says, on which the
\* plugin's model rests: no file ever has two writers, however many threads
\* there are, how often a filer goes back to workq, or when the list of filers
\* is renewed.
OneWriterPerFile == Files!Spec
=============================================================================
