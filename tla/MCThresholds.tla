---------------------------- MODULE MCThresholds ----------------------------
(***************************************************************************)
(* CompareThresholds on every combination of small counters with policies  *)
(* that define a limit on each of the three levels, the volume's on        *)
(* another counter than the others perhaps.  A step makes one counter      *)
(* worse, so that the verdicts along a behaviour are those of a load that  *)
(* builds up.                                                              *)
(***************************************************************************)
EXTENDS Thresholds

VARIABLES filer, volume, vpo, fpo, policy

vars == <<filer, volume, vpo, fpo, policy>>

Level == 0 .. 2
\* Sizes are steps of half a megabyte, around the one that a limit names.
Sizes == {i * (MB \div 2) : i \in 1 .. 3}

PoliciesOn(limit) == {[NoPolicy EXCEPT ![limit] = x] : x \in 0 .. 2}

Init ==
  /\ filer = [domains |-> [i \in DomainIndex |-> 0]]
  /\ volume = [ctr |-> [maxdiskb |-> 0, avglatency |-> 0,
                        availsize |-> 3 * (MB \div 2), availinodes |-> 2]]
  /\ \E a, b \in Limits :
       /\ vpo \in PoliciesOn(a) \cup PoliciesOn(b)
       /\ fpo \in PoliciesOn(a)
       /\ policy \in PoliciesOn(a)

BusierDomain ==
  /\ \E i \in DomainIndex :
       filer.domains[i] < 2 /\ filer' = [filer EXCEPT !.domains[i] = @ + 1]
  /\ UNCHANGED <<volume, vpo, fpo, policy>>

BusierVolume ==
  /\ \E c \in {"maxdiskb", "avglatency"} :
       volume.ctr[c] < 2 /\ volume' = [volume EXCEPT !.ctr[c] = @ + 1]
  /\ UNCHANGED <<filer, vpo, fpo, policy>>

FullerVolume ==
  /\ \/ volume.ctr.availinodes > 0 /\ volume' = [volume EXCEPT !.ctr.availinodes = @ - 1]
     \/ \E s \in Sizes : /\ s < volume.ctr.availsize
                         /\ volume' = [volume EXCEPT !.ctr.availsize = s]
  /\ UNCHANGED <<filer, vpo, fpo, policy>>

Next == BusierDomain \/ BusierVolume \/ FullerVolume

Spec == Init /\ [][Next]_vars

Verdict == CompareThresholds(filer, volume, vpo, fpo, policy)
-----------------------------------------------------------------------------
\* A load that grows never brings a pending job the verdict "within the
\* thresholds" back: compare_thresholds() is monotone in every counter, which
\* of the three levels ever sets the limit.
WorseNeverClears == [][Verdict = 1 => Verdict' = 1]_vars

\* "if volume specific policies are defined, then it will compare values with
\* volume specific threshold policies and ignore other policies defined"
\* (README of the plugin): no less specific policy changes the verdict on a
\* limit that a more specific one defines.
Hidden(lower, upper, limits) ==
  [l \in Limits |-> IF l \in limits /\ upper[l] # 0 THEN 0 ELSE lower[l]]
Precedence(limits) ==
  Verdict = CompareThresholds(filer, volume, vpo, Hidden(fpo, vpo, limits),
                              Hidden(Hidden(policy, fpo, Limits), vpo, limits))

\* For the limits on a volume's own counters.
VolumePolicyFirst == Precedence(Limits \ {"maxnedomain"})
=============================================================================
