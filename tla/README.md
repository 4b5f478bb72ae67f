# TLA+ models of the NetApp LSF plug-in, its monitor and its agents

This directory holds TLA+ specifications of the programs in this repository,
the TLC configurations that check them, and theorems about them that TLAPS
proves. In what follows *P* stands for
`netapp_lsf_scheduler_and_ontapmon/netapp_lsf_plugin_v2.0` and *A* for
`netapp_lsf_compute_agent_and_hot_job_detector`, both under `src/`.

To check a module: `tlc -config X.cfg M` (the runs are listed below); to check
the proofs: `tlapm M.tla` for each module whose name ends in `Proofs`.

## 1. The system

| component | state | operations | talks to |
|---|---|---|---|
| Scheduler plug-in, handler (`P/libntap.c`) | none of its own; parameters | `allocate` once per waiting job and session, `getmount`, registration and logging handlers | called by mbschd; calls `check_dirctr`, `filer_load_ok` |
| Plug-in, counter cache (`P/sysntap.c`) | `filertab`, `fstab`; the parser's statics `depth`, `endelement`, `last_content`, `ftmp`, `vtmp`, `dcnt`, `tmp_maxdiskb` | `filer_load_ok`, `free_filer`, `free_fs`, `parse_ctrxml`, `process_element` | reads the counter files of the monitor; the clock |
| Plug-in, policies (`compare_thresholds`) | `policy`, `fptab` (filers and volumes), constant at run time | a comparison | `filertab`, `fstab` |
| Plug-in, configuration (`read_conf` and the section parsers, `tools/conf.c`) | `prms`, `mounttab`, `fptab`, `policy` | read once in `sched_init` | `ntapplugin.conf` |
| Hash tables (`P/tools/tab.c`) | chains | install, lookup | all of the plug-in |
| Counter monitor (`P/misc/ontapmon.py`) | `filerDataDict`, `workq`, `resultq`, `ntimes`, `nwork`, `nthr`, `succ` | main loop, `NTHREADS` worker threads, `printToXML` | DFM/ONTAP (external); one counter file per filer |
| Compute agent (`A/elim.netapp_compute`) | output queue, PID and device caches, cluster name | read SystemTap lines, write job reports, restart SystemTap, two timer threads | SystemTap; job report files, shared by agents |
| Hot job detector (`A/netapp_lsf_hot_job_detector.py`) | modification times, volume to aggregate and address maps, error documents | scan, check, find jobs, report | counter files, job reports |
| Mail script, SystemTap probe, log, list library, test programs, expat | | | I/O, generated, unused or vendored: not modelled |

The monitor and the plug-in share only the counter files: no lock, no rename,
no checksum. The same files feed the hot job detector, which also reads the job
reports that the compute agents of all nodes append to.

### What is hard

* The plug-in is single-threaded, but the monitor truncates and rewrites a file
  while the plug-in reads it line by line, and the parser's statics survive a
  document that ended early.
* Counters are cached under two keys (filer, `filer:/vol/volume`) and expire by
  the time they were *read*; storage maps share filers; the clock is read once
  per call.
* Allocation fails without anybody looking (`hash_install`), objects are freed
  while statics point to them.
* The monitor counts its work in three places (`nwork`, `workq`, `resultq`) and
  blocks on the last; workers fail in two ways, with a result and without.
* Files are truncated before they are written; the script may be killed anywhere.
* Job reports are written by many agents and read by one detector; caches in
  the agent expire under a clock that may be set back.

The full list, each at its line, is `hazards` in `PROJECT.json`.

### What makes each component correct

* Handler: a dry run never acts; DISPATCH and PENDJOB are justified by complete
  inspections; an overloaded volume keeps the job pending; a job is started once
  its filers are idle.
* Counter cache: no undefined use of memory; no verdict on counters older than
  `XMLReread`; tables agree with documents; volumes leave with their filer; calls
  return; answers converge to the latest documents.
* Policies: the more specific policy decides alone; verdicts are monotone.
* Monitor: one writer per file; no lost result; every managed filer is published
  for ever; what is published follows the filer.
* Configuration: what the plug-in works with is what the file says, in whatever
  order its sections come; it turns itself off only for a cause; reading ends.
* Hash tables: a map; no walk meets a freed node, in the middle of a removal either.
* Compute agent: every line of SystemTap is counted at most once and accounted for,
  for the job that performed the operation; mounts are noticed; what is counted
  reaches a file.
* Report files: one header, at the top, and times that do not decrease.
* Detector: what it reports is true and leaves no larger job out; no change of a
  counter file is missed.

## 2. The modules

| module | models | how |
|---|---|---|
| `Thresholds` | `compare_thresholds` | operators; a missing policy and one whose thresholds are all 0 are the same, because the code tests `p != NULL && p->t != 0` |
| `CounterDoc` | `printToXML`, `to_pretty_xml` | the document as a sequence of lines (declaration, start tag, end tag, element with text), and, separately, what it means |
| `DocLines` | a counter document as the plug-in meets it | what the lines of a document say of a filer, read at once and without a parser: what the parser is held against |
| `FilerLoad` | the run time of `sysntap.c` | one action per turn of a loop and per line of a document; `pc` is the position in `filer_load_ok`; tables hold pointers, memory is explicit |
| `Allocate` | `allocate` | extends `FilerLoad`; the scheduler and its waiting jobs are the environment |
| `CounterFiles` | what the monitor promises about the files | abstract specification |
| `OntapMon` | `ontapmon.py` | the main thread and `NThreads` workers; implements `CounterFiles` |
| `PluginConf` | `sched_init`, `read_conf` and the section parsers | one action per line and pass; the file is a sequence of lines |
| `KeyMap` | what `tab.c` promises | abstract specification: a map, one call at a time |
| `HashTab` | `tab.c`, `free_filer`, `free_fs` | chains of nodes in memory, one action per step of a walk; implements `KeyMap` |
| `JobReports` | the report files of the agents | what `writeJobStatistics` does to a file, in three steps |
| `ComputeAgent` | `elim.netapp_compute` | the main thread, the Timer thread of the mounts, and the node they run on |
| `HotJobDetector` | `netapp_lsf_hot_job_detector.py` | extends `JobReports`; the monitor's writing of counter files is part of it |
| `...Proofs` | | the theorems of the module named |
| `MC...` | | instances for TLC, and the properties that need more than the module itself |

A definition whose name begins with `Mistaken` is not part of a model. It is a
plausible error in the definition that follows it, kept to show that the
properties would notice.

### FilerLoad

`Call` is the entry of `filer_load_ok` (lookup of the storage map, one look at the
clock). `ExpireNext` is a turn of the first loop with `free_filer` and `free_fs`
(`FreeFiler`, `KeysFreed`); `strstr` is the constant relation `Contains`, so that
a run chooses whether one filer's name occurs in another's keys. `ExpireDone`
rewinds the list. `CheckCached`, `OpenDocument`, `Compare` and `CheckDone` are the
second loop. `ParseLine` is a turn of the loop of `parse_ctrxml`: the expat
handlers (`Handlers`) and all of `process_element` (`ProcessElement`, one
disjunct per kind of element). `EndOfFile` and `ParseError` leave that loop.
`Done` hands the result over.

A null, freed or out-of-bounds access leads to `pc = "undefined"`, of which nothing
more is claimed: what the process does from there on is up to the build.

The environment is the clock (`Tick`) and the monitor: `Publish` writes a document
whole between two calls; with the fault `"overlap"`, `OpenForWrite` truncates the
file, `WriteLines` fills it and `WriteFails` abandons it at any moment. The other
faults are `"calloc"` (no memory for an object or the parser) and `"entry"` (no
memory for a table entry, which the code does not notice).

Abstracted: the buffer of stdio (a line is read when it is parsed); a line torn in
two, which is `ParseError` when the file was rewritten after its first line was
read, and the end of the file otherwise, because `fgets` meets it before a
newline; numbers (naturals, `atof` is exact); the chains of the hash tables.
`strdup` returning NULL, lines longer than `BUFSIZ` and `numfilers` are left out.

### Allocate

`Begin` is `allocate` down to the first token, `NextMount` and `TakeAnswer` a turn
of the loop around `filer_load_ok`, `NoMoreMounts` the end. Of the `-extsched`
string the model keeps what the code extracts: whether `-n` occurs anywhere in it,
and the tokens between the brackets. `Decide` is the scheduler: it starts a job on
DISPATCH or NONE and keeps it on PENDJOB.

### OntapMon

`GetFilers`, `StartRound`, `Join`, `TakeResult`, `EndOfResults`, `EndOfRounds` are
the main loop. `Get`, `CollectAggr`, `CollectDomain`, `CollectVolumes`, `OpenFile`,
`WritePart`, `Put` are `WorkerThread.run` with `perf_mon` and `printToXML`. A
request may fail with -1 (`CollectFails`), leaving part of its data in
`filerDataDict`, or raise an exception that nothing catches (`CollectRaises`); a
volume without counters is the `KeyError` of `vollist_get` (`VolumeUnknown`); open or
write may fail (`PrintFails`); the script may be killed and started again
(`Restart`). DFM and ONTAP are external: `dfm` is what they would answer. Of the
counters one disk value and one domain per filer and two values per volume are
kept, with two levels each. `time.sleep` is left out, as are `ipaddr_get` (its
result is copied into the document and never looked at), exceptions in the main
thread, which end the script and amount to a kill, and a failing `close`.

### PluginConf

A line is what `sscanf` makes of it: the begin or end of a section, a comment, a
blank line, or a record. `pass` is the pass over the file, `pos` the next line,
`found` whether the section of the pass was begun. `SeekBegin` is
`get_begin_record`; `Comment`, `ParseParams`, `CountRecord`, `ParseFilesys`,
`ParsePolicies` and `ParseFilerPolicies` are the turns of the five loops of
`read_conf`, and `EndOfPass` is what follows each, with the `rewind` and, after the
count, `init`. What `sscanf` leaves unwritten is kept as the code has it. Parameters are
parsed into static buffers: a word that is missing keeps the value of the line
before (`line`), and a blank line says the same again. The words of the policy
parsers are automatic: a value that is missing is anything (`ValuesOf`, of which
`Junk` is a sample), and of a blank line in `FilerPolicy` all three words are
(`FilerWords`), so that it may install an entry under any name, set any limit to
anything, or do nothing; in `PluginPolicy` its keyword is the end of the line and sets
nothing. `fst.fs` is on the stack and holds, for a word without `:`, the volume before
it or anything (`VolList`).

The file is chosen at the start and does not change. It is assumed to be
`WellFormed`: sections that begin are ended and hold lines of their own kind. Sections
may be missing, come twice and in any order; comments, blank lines, repeated lines,
unknown keywords, missing values, storage maps without a list and words without `:`
are in it. Not in it are a section without its end, a `FilerPolicy` line of a name
alone, and words that are longer than the buffers they are read into (`delSpace` of an
unwritten word may also run past its end). A blank line is taken to be no begin or
end: `get_begin_record` and `get_record_until_end` compare automatic words too, but in
one frame, which is taken to hold the words of the line before. `ConfAsWritten` does not judge
values that are missing, nor limits set before a blank `FilerPolicy` line, which it may
have overwritten; what is set after it counts. `Faults` names the steps that may fail:
opening the file, `hash_mk`, an allocation for a storage map, for its entry in the table (which nobody
notices), for a policy, and the registration of the handler.

### HashTab and KeyMap

`Begin` starts a call; `Find` and `Found` are a turn of `hash_lookupent`, which
`Insert`, `Overwrite`, `NoMemory`, `LookupFound` and `NotFound` end as
`hash_install` or `hash_lookup` does. `RemoveNext`, `RemoveFound` and `RemoveNothing`
are `free_filer`; `DropNode`, `KeepNode`, `NextChain` and `EndDrop` are `free_fs`, which
takes the `next` of a node it has just freed from a copy and keeps `prevp`. A node is
in memory or `Freed`; following a pointer to nothing, or to a freed node, is
`at = "undefined"`. The map that `KeyMap` speaks of is a state function, what the
chains hold. `FilerLoad` and `PluginConf` use functions for the tables, which is
what this refinement justifies.

### ComputeAgent

`CheckAlive`, `Restart`, `GiveUp`, `ReadLine`, `ReadEnd`, `NoOutput` and the `Write`
actions are the loop of `monitorSystemTapOutput` with `writeJobStatistics`. A line
then goes through `KnownDevice`, `SkipDevice`, `RefreshDevices`, `StoreDevices` and
`Refreshed` (the device), `FindJob` (the process) and `Count`. `TimerReads` and
`TimerStores` are the Timer thread, which interleaves with all of these; the main thread
does not hold a lock. Either thread runs `mount` and a `mountpoint` for each volume
(`ReadMounts`), which have no time limit: what it has read (`lookMap`, `timerMap`) is
what `mount` listed, and is stored any time later. `pipe` is what `poll` sees and
`buf` what `readline` has read ahead.

Every line has an identity, and `written` and `dropped` record what became of it. Times
are kept as ages, which `Tick` increases and `SetBack` decreases by two ticks. A tick
may pass while the main thread sleeps, while it reads the mounts, and after it has
asked `ps`, and whatever the Timer thread is doing. That the other steps of the main
thread, the writing of the report files among them, take no time is the one
assumption about speed. `lookFor` is how long ago the main thread looked at the clock
before it read the mounts, the time it dates a new entry of `nonNFSDeviceMap` with
(`EntryAge`). Two history variables measure how late the Timer thread stores a map:
`timerBehind` counts, up to `MaxBehind`, for how long the map it holds has lacked a
mounted volume, and `behind` keeps that of the map in use.
The environment is the node: processes that start and exit (`Rested` is the pause
before a pid is used again, which a comment in the source relies on), volumes that are
mounted and unmounted, and SystemTap, which prints a separator and perhaps a line
whenever the pipe is short enough, fails, or ends.

### JobReports

`Look` is the timestamp and `os.path.exists`, `OpenReport` the creation of the file,
`CloseReport` the moment the buffered header and entry reach the file, `Abandon` a
kill or an error. An entry stands for a timestamp with the volumes under it. That it
reaches the file in one piece is the buffer of the Python file object, which holds
the entry of a job until `close`; entries that are longer than the buffer are not
modelled. `ComputeAgent` counts lines and does not look at files, `JobReports` looks
at files and not at lines: they meet in `writeJobStatistics`.

### HotJobDetector

`Scan` is the directory listing with its modification times, `CheckFile` one turn of
`checkFiles`, `ListReports` the choice of the reports, `ReadReport` the reading of one,
`Publish` the sorting and the report, `Wake` the next turn of the loop, which forgets
what the last one found. `Truncate` and
`Fill` are `printToXML` of the monitor as the detector sees it; each changes the
modification time, so `xmlTime` counts changes (times of finer resolution than the
interval between two writes). The steps of agents and monitor come between any two
steps of the detector. `Value`, `Count` and `DetectorAssumption` keep the code's
arithmetic, see the disagreements below.

## 3. The runs

| run | shows | bounds |
|---|---|---|
| `filerload_quiet` | `TypeOK`, `NoUndefinedUse`, `FreshWhenCompared`, `AnswerMatchesTables`, `TablesMirrorDocument`, `MirrorInv` (the inductive invariant behind these), `EvictedWithFiler`, `Converges` hold when documents are written between calls | two filers, three volumes, a storage map over one and one over two filers and an unknown one, two documents per filer; clock 0..4, writes until 2, `XMLReread` 1: entries are read, expire, are read again and expire again |
| `filerload_overlap` | `FreshInv`, the inductive invariant of the proof, and `CallReturns` hold when files are truncated, rewritten and abandoned under the reader and allocations fail | one filer, one volume, `XMLReread` 0, clock 0..1, parser depth at most 2 at a call. A process that reaches undefined behaviour stops, hence no deadlock check |
| `filerload_prefix` | *violation* of `EvictedWithFiler` when a filer's name occurs in another's keys | as `filerload_quiet`, with `fas1` in `fas10:/vol/...` |
| `allocate` | `AInv`, the inductive invariant of the proof, `DryRunNeverActs`, `DecisionJustified`, `IdleFilersStartJobs` hold, entries being lost for want of memory | the instance of `filerload_quiet`; a job over both filers, a dry run, a job the scheduler does not dispatch; clock 0..1, `XMLReread` 0 (the value when the file does not give one) |
| `thresholds` | `VolumePolicyFirst`, `WorseNeverClears` | counters and limits 0..2 around each other, sizes in half megabytes around the limit, policies on two limits at three levels |
| `ontapmon` | `MonitorInv`, the inductive invariant of the proof, `NeverBlocked`, `OneWriterPerFile` (the refinement of `CounterFiles`), `Republished`, `DiskLoadFollows` hold under every fault; where an uncaught exception ends a thread, the ones about progress say so | two filers, one of them with its volume offline at first, two workers, `Refresh` 2, one fault, one change of a filer. With an uncaught exception the script may stop for good, hence no deadlock check |
| `ontapmon_raise` | *violation* of `SelfCorrects` after an uncaught exception | one worker |
| `pluginconf` | `ConfInv`, the inductive invariant of the proof, `ConfAsWritten`, `ReadConfEnds` | all files of a few bodies per section, with unknown keywords, missing values and blank lines, in three orders, with a second `ExportNames` section, and with sections missing; blank `FilerPolicy` lines with two values for what `atof` makes of an unwritten word; any number of faults |
| `hashtab` | `NoBadPointer`, `ChainsWellFormed`, `TableInv`, the inductive invariant of the proofs, `IsMap` (the refinement of `KeyMap`), `CallsReturn` | four keys, three of them in one of two chains, names of two filers of which one occurs in the other's keys, three nodes of memory |
| `agent` | `Accounted`, `AttributedRight`, `AgentInv`, the inductive invariant of the proofs, `MountsNoticed`, `QueuedIsWritten`, `LinesAreRead` | one pid, two jobs, one device, two lines, two changes of the node of any kind, an empty pipe when SystemTap prints, two restarts; the intervals 1, 1 and 2 ticks; the age of a mount is counted up to 3 ticks and the lag of a map up to 2 |
| `detector` | `ReportsInv`, `TellsTrue`, `NothingMissed`, `DetectorInv`, the inductive invariant of the proofs, `ChangesJudged` | one agent, two jobs, two volumes in an aggregate, two documents, three lines of reports, one file abandoned, clock 0..2, a window of 1; the counter file is written and rewritten once |
| `detector_dies` | *violation* of `KeepsReading` | two agents, one job on both |

The deadlock check is off where the modelled system may really stop: a plug-in that
is registered, a process that reached undefined behaviour, an agent or a detector
that ended, load that has grown as far as the instance goes.

Why the bounds are enough. A storage map over two filers lets a verdict depend on
two entries of different age, and two storage maps let one call change what the
next finds. Three volumes make a filer with two, so that parts of a document are
told apart. Two domains are `DomainSize`, so that one more would be out of bounds.
In the monitor two workers on two filers cover every interleaving of two
collections, and `Refresh` 2 a filer that is requeued, one that is dropped and
comes back with the next list, and a worker without work. Three keys in a chain give
`free_fs` a first, a middle and a last node to unlink, and three nodes for four keys a
node that is used again while an old pointer might still hold it. In the agent one
line can be in the pipe, in the buffer or in hand while the other is queued or written,
and two changes let a pid or a device go and come back; the caches expire within the
run, and a map is stored before and after the entries made from it have expired. In the
detector three lines of reports are a header, an entry inside the window and one outside it, or two jobs with one entry between them read twice; the counter
file is written, judged, written anew at any moment after or meanwhile, and judged again.
`pluginconf` does not rest on its bounds, since what it checks is proved.

Fairness. `FairSpec` of `FilerLoad`: a call that began goes on and the clock
advances; the monitor owes nothing, and in `filerload_overlap` may do to a file whatever
its faults allow while `CallReturns` is checked. `AFairSpec`: in addition each waiting job is
looked at again and again (strong fairness: mbschd walks all waiting jobs in every
session, but the plug-in is busy with others in between). `FairSpec` of `OntapMon`:
the main thread runs, and each worker that can go on does; DFM's answers are
HTTP requests that return or fail. `FairSpec` of `PluginConf` and `Spec` of `HashTab`: a
function that was called goes on. `FairSpec` of `ComputeAgent`: the main thread runs
and its own commands return, time passes, and SystemTap prints every few ticks while it
lives, which is what its timer probe is for; the Timer thread owes nothing, and may hang in
a command for ever. `FairSpec` of `HotJobDetector`: the detector runs, and a monitor that truncated a
file fills it. No fault is ever fair, and none is owed an end other than the
bound of the run.

### Disagreements the runs show

1. `filerload_prefix`: expiring `fas1` evicts volumes of `fas10` (`sysntap.c:353`), and
   verdicts on them are -1, "do not object", until `fas10` expires itself.
2. `ontapmon_raise`: one uncaught exception in a worker blocks the monitor for ever;
   the README says that it corrects itself after `REFRESH`.
3. `detector_dies`: a counter file read between `open` and `write` of the monitor raises
   `ParseError`, and the detector, which is described as running periodically, ends.
   (So it does for a report with two headers, which two agents can produce.)

### Disagreements no run is spent on

The models contain each of these as the code has it; the properties are stated so
that they hold with it, and name the exception where there is one.

* A document read in part leaves `endelement`, `ftmp` and `vtmp` behind; the first
  line of the next document runs `process_element` on them (`sysntap.c:1047`), on freed
  memory if the filer was expired. `NoUndefinedUse` is therefore stated of
  `filerload_quiet` only. A document that ends in the middle is no parse error:
  `XML_Parse` is never told of the end.
* The parser's `depth` is one of these statics, and nothing sets it back: once a document
  was read without its last lines, the names of volumes are no longer met at depth 5,
  until the plug-in is restarted. Volumes of documents read later are not
  installed; their counters go to the volume `vtmp` points to, which may be one of
  another filer in the table. So `AnswerMatchesTables` is stated of documents that are
  published whole, too: with a filer that was read without its last tag and a second one after it,
  both in a storage map, the second overwrites the counters the first was judged by
  within the same call, and answers about either rest on the wrong counters.
* With `"entry"` among the faults a torn document may put an old filer back into the
  table, which is why the freshness theorem excludes that fault.
* One storage map without a verdict ends the inspection of a job (`libntap.c:219`): an
  unknown one hides an overloaded one after it, where `P/README.md:273-275` has the
  job pend if any is overloaded. `DecisionJustified` speaks of the map it stopped at.
* `Max_NEDomain` of a volume policy, which `P/README.md` lists, has no effect.
* The value of a domain is a maximum over the life of the monitor and never falls
  (`ontapmon.py:655`); `DiskLoadFollows` is about disks.
* A blank line in `ExportNames` turns the plug-in off; `OffOnlyForCause` counts it as a
  cause. A parameter without a value takes that of the line before, and a blank line in
  `FilerPolicy` may set any limit of any name (`sysntap.c:715-727`).
* A map of the mounts that the Timer thread read long ago replaces a newer one of the main
  thread; lines of a volume mounted meanwhile are then dropped for longer than
  `non_nfs_device_cache_expiration_time`. `MountsNoticed` gives the bound with this in it.
* `hash_mk` returns a table without chains when `calloc` fails; `NoBadPointer` excludes it.
* `max_systemtap_restarts` N allows N-1 restarts.
* The detector takes `availsize`, which is in bytes, for kilobytes; it never recognises
  `Max_DiskBusy` of a single target, because it compares with the method
  `threshold.lower`; and it adds the operations of a job on a filer or an aggregate
  up once per volume, so that `TellsTrue` is exact for volumes only.

## 4. What is proved

For every value of the constants that satisfies the assumptions each module names.
The invariants are inductive, are checked by a run first, and are proved with one
step per action; what the runs call an invariant "of the proof" is this one. Every
invariant that a passing run checks is proved.

| property | theorem | rests on |
|---|---|---|
| `TypeOK` of `FilerLoad` | `FilerLoadProofs!TypeCorrect` | |
| `FreshInv`, `FreshWhenCompared` | `FreshnessInductive`, `FreshnessCorrect` | no fault `"entry"` |
| `NoUndefinedUse`, `AnswerMatchesTables` | `MemoryUsedWell`, `AnswersCorrect`, from `CacheInductive` | faults at most `"entry"`; `EnoughMemory`, `DomainsFit` |
| `MirrorInv`, `TablesMirrorDocument` | `MirrorInductive`, `TablesMirror` | no fault; in addition `NamesApart`, `VolumesNamedOnce` |
| `EvictedWithFiler` | `EvictedTogether` | `NamesApart`; any fault |
| `AInv`, `DryRunNeverActs`, `DecisionJustified` | `AllocateProofs!AllocateInductive`, `DryRunsNeverAct`, `AllocateCorrect` | |
| refinement of `FilerLoad` by `Allocate` | `AllocateImplementsFilerLoad`; with it `DecisionsRestOnFreshCounters` and `DecisionsRestOnDocuments` | for the latter two, what the properties above rest on |
| `WorseNeverClears`, `VolumePolicyFirst` | `ThresholdsProofs!GrowingLoadNeverClears`, `VolumePolicyComesFirst` | |
| `MonitorInv`, `NeverBlocked`, `OneWriterPerFile` | `OntapMonProofs!MonitorCorrect`, `MainNeverBlocked`, `WritersImplementFiles` | |
| `ConfInv`, `ConfAsWritten` | `PluginConfProofs!ConfInductive`, `ConfCorrect` | |
| `TableInv`, `NoBadPointer`, `ChainsWellFormed`, `IsMap` | `HashTabProofs!TableCorrect`, `PointersGood`, `ChainsCorrect`, `TableImplementsMap` | |
| `AgentInv`, `Accounted`, `AttributedRight`, `MountsNoticed` | `ComputeAgentProofs!AgentCorrect`, `LinesAccounted`, `OperationsAttributed`, `MountsAreNoticed` | |
| `ReportsInv`, `DetectorInv`, `TellsTrue`, `NothingMissed` | `HotJobDetectorProofs!ReportsCorrect` (agents alone), `DetectorCorrect`, `ReportsReadWell`, `ReportTrue`, `ChangesSeen` | |

### FilerLoad: types

`TypeOK` says more than types: a document that is being parsed exists, `dcnt` stays
within `DomainSize`, the list position is inside the list where it is used, the
storage map is known once the call has begun. There is one lemma per action or
group of actions, and one per kind of element for `ParseLine`.

### FilerLoad: freshness

No verdict rests on counters read more than `XMLReread` before the call, whatever the
monitor does to the files under the reader and whichever object cannot be allocated,
unless `"entry"` is among the faults. `FreshWhenCompared` is not inductive.
`FreshInv` adds three facts:

* `DocumentsPlaced`: what a file holds, together with what is still to be written,
  is placed as `printToXML` places it; in particular the name of the filer is line
  3 and every value and the end of the domains come after it;
* `ParsedFilerNew`: from line 3 on the object a parse is about to install was made
  by this very parse, after the call looked at the clock; and if the last element
  ended was `domains`, which the first line of the next document will make
  `process_element` install again, then the object is in the table already
  or freed. This is where a failing `hash_install` would break the argument;
* `ListFresh`: the entries of the list the expiry loop has passed are fresh.

The assumption `SameShape` on documents that are rewritten under the reader (the
set of volumes is fixed while it happens) is what makes a mixture of two documents
well formed; documents that change their shape then end in a parse error or
a mixture, which the models do not cover.

### FilerLoad: the parser against the documents

`DocLines` says what a document means by the positions of its lines: the value of
domain *k* is the text of the line that ends the *k*th `value`, a volume is named by a
`name` at level 5, its counters are the three lines that follow, its disk the last
`maxdiskb` before it. Nothing of it runs through the document. The parser of the
plug-in does, one line behind itself (an element is processed when the next line
arrives), and keeps what it knows in statics. `CacheInv` states what the two have in
common after `pos` lines (`InDocument`): `depth` is the level, `endelement` the last
element ended, `dcnt` the number of values met, `tmp_maxdiskb` the last disk;
`ftmp` holds the domains said so far (`FilerInWork`), and from a volume's name to
its end `vtmp` is an object of its own, not yet in the table, with the counters said so
far (`VolumeInWork`). Around it:

* `WholeFiles`: files hold whole documents, and none was replaced under a reader;
* `AtRest`: the document that ended has left `depth` 0 and an `endelement` that makes
  `process_element` do nothing when the next one begins, whatever `ftmp` and `vtmp` still
  point to. This is why nothing freed is used;
* `TablesLive`: every entry points to memory in use that names it, and no volume is
  in the table under two keys, so that freeing one never leaves another dangling;
* `JudgedStands`: while the list is walked, the volumes that were passed are still not
  over their thresholds, although reading a filer for a later entry changes the tables:
  the document that is read is never that of a filer of an earlier entry. With it,
  `AnswerMatchesTables` holds when the loop ends.

`EnoughMemory` has more objects than filers (and keys) and one, which is what a
process that does not run out of memory has; with `TablesLive` a count of the
entries shows that an object is left whenever one is made. `DomainsFit` is the
assumption that no document has more domains than `DOMAIN_SIZE`: `process_element` does not
look at the size (`sysntap.c:1047`), and writes past the end of `domains` for more. Torn documents and a failing
`calloc` are excluded because `NoUndefinedUse` and `AnswerMatchesTables` are false with
them: they leave `depth`, `ftmp` and `vtmp` as they were in the middle of a document.

`MirrorInv` adds that what has been read is in the tables (`ReadSoFar`) and that the
other filers, those that are cached, mirror one of their documents (`OthersMirror`).
Hence the further hypotheses: no table entry is lost; no filer's name occurs in
the keys of another's volumes (`NamesApart`), since otherwise expiring one filer leaves
another without some of its volumes, which is the run `filerload_prefix`; and no
volume is named twice in a document (`VolumesNamedOnce`). The monitor never forgets a volume, so a
volume that was made again in another aggregate is named twice, and the second
takes the key of the first. `EvictedTogether` needs only `NamesApart`.

### Allocate

`AllocateImplementsFilerLoad` is the refinement `ASpec => Spec`, step by step, which carries
the theorems above over to scheduling sessions. The strengthening in `AInv` is that the
number of answers taken is that of the tokens passed (`Inspecting`), all of them
clean except the last.

### Thresholds

`ThresholdsProofs` states what the run `thresholds` shows on counters and limits
from 0 to 2 for every natural number, and for every `DomainSize`. `LoadMonotone`:
whatever the policies of the three levels are, a filer and a volume whose
counters are no better than those of a pair that crosses a threshold cross one
too. `SpecificPolicyWins`: hiding from the less specific policies what a more
specific one defines changes no verdict, the limit on domains aside. Both rest on
one lemma about the governing limit, which is a limit again, and on comparing one
counter. `GrowingLoadNeverClears` and `VolumePolicyComesFirst` carry them over to
the behaviours of `MCThresholds` with the types of the variables as inductive
invariant. They assume that the null pointer is no record (`NullAssumption`).

### OntapMon

The parts of `MonitorInv` are `OnePlace` (a filer is in `workq`, in one worker's hand or in
`resultq`, and there once), `DataKnown` (a worker that writes has the data of its
filer), `WritersKnown` (what a file holds and what its writer still has to write make
up a document), `ThreadsRun` and `WorkCounted` (`nwork` is the number of filers under way,
unless a worker ended). `MainNeverBlocked` follows from the count, and
`WritersImplementFiles`, the refinement of `CounterFiles`, from `OnePlace` and `WritersKnown`.

### PluginConf

`ConfInv` says where in the file the reader is (`InPlace`), and that the tables agree with
the lines of each section that its pass has dealt with (`Seen`); at the end of each pass
these are all of its section. `LineRepeats` is what makes a blank line harmless among
the parameters. Among the lines about filers it is not harmless: limits of lines before it
are excepted, and limits that no line sets are 0 only where there is none.

### HashTab

`TableInv` avoids speaking of chains as sequences: there is some order of the nodes in use
(`IsOrder`) in which every bucket's pointer leads to the first node of the bucket, and every
node's `next` to the first of those after it (`Linked`). Inserting at the head and
unlinking a node each give a new order that differs in one node. The position of a
call is stated in the same order: `prevp` is the node that leads to `currp` (`InPlace`),
and what the walk looks for is still ahead of it (`NothingPassed`), which is why
`free_fs` finds every key it is to remove although it removes as it goes. No two nodes
in use have the same key.

That the walk of the code, a recursive function of the memory, ends and meets every node
of its bucket once (`ChainsWellFormed`) is proved by induction on the set of nodes
that are after one. The operator parameters of the library's induction theorems are
avoided by stating the induction for a set of numbers; the same device serves sums and
counts elsewhere. `TableImplementsMap` shows that installation, overwriting and each
unlinking are the one step in which the map changes, and that what a call returns is
what the map says.

### ComputeAgent

`AgentInv` adds to `Accounted` and `AttributedRight`, which are not inductive: the lines on
their way and the one in work are different lines (`LinesApart`); in which states of the
main thread there is a line in work (`AtWork`); while the queue is written, exactly the
jobs that were served are counted (`QueueInv`); what is cached of a pid is true of its
process and of all its lines that are still on the way (`PidInv`, which needs that a pid
rests before it is used again); and `MountInv`: a volume that a map being read lacks was
mounted since it was read; and one that the map in use lacks was mounted since its device
was last taken for no NFS device, `behind` aside, the time by which the Timer thread
stored that map too late. Nothing is supposed of how long either thread takes, and a lag
of `MaxBehind` or more, where the counting ends, is excepted. The proof treats the three
maps (`TimerInv`, `LookInv`, `KnownInv`) apart. Where the clock may be set back, the
parts that depend on ages say so.

### JobReports and HotJobDetector

That reports are well formed follows from `WriterHonest` (an agent about to write a header
writes the first line, and no line is later than the one it is about to write) and
`ReportsPast`. The detector's own part of `DetectorInv` is:

* `ReportsGrow`: a report is modified no earlier than its last entry was timed, and only
  gets longer after it was listed, so that no report with operations in the window is
  passed over when reports are chosen by their modification time;
* `ReportsCounted`: what was read of a report lies between what it held when it was
  listed and what it holds now;
* `FilesSeen`: what is remembered of a counter file is not ahead of the file, and a file
  that was left alone was judged no earlier than at the time remembered.

`TellsTrue` follows, for any filers, jobs and window: for volumes, the number of operations
lies between these two counts, and the jobs that are named were the first of a list
sorted by it. The sums of `sortTopJobs` are sums over finite sets, about which an induction
on the size of the set is proved first. `NothingMissed` is the safety core of
`ChangesJudged`: a file that the next scan would pass over was judged as it is.

### Only model-checked

* Liveness, because temporal proofs under fairness are out of the prover's
  reach: `CallReturns`, `Converges`, `IdleFilersStartJobs`, `Republished`, `DiskLoadFollows`,
  `ReadConfEnds`, `CallsReturn`, `QueuedIsWritten`, `LinesAreRead`, `ChangesJudged`.
* That the lines of `CounterDoc` say what `DocLines` takes them to say, which
  `LinesSayTheData` of `MCFilerLoad` evaluates for the documents of the runs: the lines
  are put together by folds over the data. What the proofs suppose of a document is
  `DocsAssumption`, which says how its lines are laid out.

## 5. Not modelled

* **expat 2.0.1**, vendored, which makes up most of the C code of this repository; its
  callbacks appear in `FilerLoad` as far as `sysntap.c` relies on them.
* **`tools/list.c`** is built into nothing; **`tools/p2.c`, `main.c`, `uu.c`** are
  stand-alone copies of the plug-in's functions for trying them by hand.
* **`tools/msg.c`**, the mail script, the options and usage texts of the scripts: output.
* **The kernel part of the SystemTap probe**: its counters belong to the kernel; its
  output is `Output` of `ComputeAgent`.
* Plug-in: the handlers that log or return a constant; `numfilers`; `strdup` failing;
  lines longer than `BUFSIZ`; configuration files that are not `WellFormed`, and words
  longer than their buffers.
* Monitor: `ipaddr_get`, signals, which amount to `Restart`, and the parsing of options.
* Agent: the Timer thread of the cluster name (it replaces one string), the
  attempts within one start of SystemTap, the text that `ps`, `mount` and `mountpoint` print.
* Detector: its configuration file, filers known by IP address, the thread that
  runs the mail command and the text of the report.

So the share of the implementation's lines that the models translate is small,
although the program's own control is covered nearly whole: expat and the stand-alone
test programs are about three quarters of the lines.

## 6. What could follow

* The composition of `OntapMon` and `FilerLoad`: the age of a verdict from the filer's
  state to the decision, and what a monitor that has stopped means to the scheduler.
* What a parser whose `depth` is off makes of the documents that follow, and in which
  cases volumes are still judged by their own counters.
* Documents that change their shape while they are read.
