-------------------------- MODULE MCHotJobDetector --------------------------
(***************************************************************************)
(* HotJobDetector with a filer of two volumes in one aggregate, documents  *)
(* with an alert of each level and with none, and a job on one node and a  *)
(* job on two.                                                             *)
(***************************************************************************)
EXTENDS HotJobDetector, TLC

CONSTANTS fas, v1, v2, aggr0, j1, j2, n1, n2

MCVolumes == {<<fas, v1>>, <<fas, v2>>}
MCWorks == {{<<fas, v1>>}, MCVolumes}
OneNodeEach == j1 :> {n1} @@ j2 :> {n1}
TwoNodes == j1 :> {n1, n2}

Counters(latency) == [avglatency |-> latency, availinodes |-> 50, availsize |-> 50 * 1024]
Document(latency, disk, domain) ==
  [aggrs |-> aggr0 :> [maxdiskb |-> disk, volumes |-> {v1, v2}],
   counters |-> v1 :> Counters(latency) @@ v2 :> Counters(latency),
   domains |-> {domain}]
MCDocs == fas :> {Document(10, 10, 10), Document(60, 90, 90)}

\* v2 has a limit of its own, which no document exceeds.
MCGlobal == [avglatency |-> 50, availinodes |-> 10, availsize |-> 10, maxdiskb |-> 80, domain |-> 80]
NoLimit == [m \in Metrics |-> NULL]
MCTarget == fas :> NoLimit @@ <<fas, v1>> :> NoLimit
            @@ <<fas, v2>> :> [NoLimit EXCEPT !["avglatency"] = 70]
-----------------------------------------------------------------------------
\* No change of a counter file is missed, whenever the monitor writes: what a
\* file holds is judged in the end, or the file changes again and that is, or
\* the detector is dead.
ChangesJudged ==
  \A f \in Filers : xml[f] \in Docs[f] ~> judged[f] = xmlTime[f] \/ det = "dead"

\* "Begins periodically reading performance XML files outputted by the ONTAP
\* performance monitoring script and invoking the alert system if a controller
\* is overloaded": the detector goes on looking at the files.
KeepsReading == []<>(det = "scan")
=============================================================================
