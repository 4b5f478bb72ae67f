----------------------------- MODULE MCAllocate -----------------------------
(***************************************************************************)
(* Allocate on the two filers of MCFilerLoad: a job over both filers, one  *)
(* in a dry run, and one the scheduler does not mean to start.             *)
(***************************************************************************)
EXTENDS Allocate, MCFilerLoad

CONSTANTS wide, dry, other    \* jobs

MCRequest ==
  wide  :> [type |-> "DISPATCH", extsched |-> TRUE, dashn |-> FALSE, mounts |-> <<home, both>>] @@
  dry   :> [type |-> "DISPATCH", extsched |-> TRUE, dashn |-> TRUE,  mounts |-> <<both>>] @@
  other :> [type |-> "OTHER",    extsched |-> TRUE, dashn |-> FALSE, mounts |-> <<home>>]
RequestOf == [j \in Jobs |-> MCRequest[j]]

\* The entries of the storage maps a job names.
EntriesOf(j) == UNION {Range(mounttab[m]) : m \in Range(Request[j].mounts)}
-----------------------------------------------------------------------------
\* A job waits only for a load that lasts: once the latest documents of all the
\* filers it names stay within the thresholds, the job is started.
IdleFilersStartJobs ==
  \A j \in Jobs :
    Request[j].type = "DISPATCH" =>
      (<>[](\A e \in EntriesOf(j) : Judged(e) = 0) => <>(j \notin waiting))
=============================================================================
