----------------------------- MODULE Thresholds -----------------------------
(***************************************************************************)
(* compare_thresholds() of sysntap.c as a pure function of what the hash   *)
(* tables hold: the counters of one filer and of one volume against the    *)
(* volume, filer and global load policies.                                 *)
(*                                                                         *)
(* A threshold 0 is an undefined one.  A policy that fptab does not hold   *)
(* is NoPolicy: every use of a policy in the code is guarded by            *)
(* "policy != NULL && threshold != 0", so a missing policy and one whose   *)
(* thresholds are all 0 cannot be told apart.                              *)
(***************************************************************************)
EXTENDS Integers

CONSTANTS
  DomainSize,   \* length of filer.domains (DOMAIN_SIZE)
  NULL          \* the null pointer, and a failed lookup

ASSUME DomainSizeAssumption == DomainSize \in Nat \ {0}

DomainIndex == 0 .. DomainSize - 1

\* The counters of a volume, and the limits of a policy on them.
Counters == {"maxdiskb", "avglatency", "availsize", "availinodes"}
Limits   == {"maxdiskbusy", "maxnedomain", "maxavgvollat", "minsize", "mininodes"}

\* The records of filertab and fstab, as far as compare_thresholds() reads them;
\* a null pointer is none of them.
FilerCounters  == [domains : [DomainIndex -> Nat]]
VolumeCounters == [ctr : [Counters -> Nat]]

ASSUME NullAssumption == NULL \notin FilerCounters \cup VolumeCounters

LoadPolicy == [Limits -> Nat]
NoPolicy   == [l \in Limits |-> 0]

\* availsize is in bytes, Min_Size in MB (the code divides twice by 1024).
MB == 1024 * 1024

\* Definitions called Mistaken... are not used: each is a plausible error in the
\* definition below it, to show that the properties detect it.

\* The threshold that applies: the volume's if defined, else the filer's,
\* else the global one.
MistakenGoverning(limit, vpo, fpo, policy) ==
  IF fpo[limit] # 0 THEN fpo[limit]
  ELSE IF vpo[limit] # 0 THEN vpo[limit]
  ELSE policy[limit]
Governing(limit, vpo, fpo, policy) ==
  IF vpo[limit] # 0 THEN vpo[limit]
  ELSE IF fpo[limit] # 0 THEN fpo[limit]
  ELSE policy[limit]

Above(value, max) == max # 0 /\ value > max

MistakenBelow(value, min) == min # 0 /\ value > min
Below(value, min) == min # 0 /\ value < min

\* Any domain of the filer above the filer's limit, else the global one.
DomainsExceed(domains, fpo, policy) ==
  \E i \in DomainIndex :
     Above(domains[i], Governing("maxnedomain", NoPolicy, fpo, policy))

VolumeExceeds(ctr, vpo, fpo, policy) ==
  \/ Above(ctr["maxdiskb"],    Governing("maxdiskbusy",  vpo, fpo, policy))
  \/ Above(ctr["avglatency"],  Governing("maxavgvollat", vpo, fpo, policy))
  \/ Below(ctr["availinodes"], Governing("mininodes",    vpo, fpo, policy))
  \/ Below(ctr["availsize"],   Governing("minsize",      vpo, fpo, policy) * MB)

\* -1: cannot compare, 1: some threshold is crossed, 0: all are met.  The
\* filer is judged before the volume is looked up.
CompareThresholds(f, v, vpo, fpo, policy) ==
  IF f = NULL THEN -1
  ELSE IF DomainsExceed(f.domains, fpo, policy) THEN 1
  ELSE IF v = NULL THEN -1
  ELSE IF VolumeExceeds(v.ctr, vpo, fpo, policy) THEN 1
  ELSE 0
=============================================================================
