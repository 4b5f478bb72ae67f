-------------------------- MODULE ThresholdsProofs --------------------------
(***************************************************************************)
(* What MCThresholds checks on counters and limits from 0 to 2, for every  *)
(* value: the verdict of compare_thresholds() depends on no policy that a  *)
(* more specific one hides, and never improves as the load grows.  The     *)
(* theorems about the behaviours of MCThresholds follow, for every         *)
(* DomainSize.                                                             *)
(***************************************************************************)
EXTENDS MCThresholds, TLAPS

\* What the second record says is no better than what the first one says.
NoBetterFiler(f, g)  == \A i \in DomainIndex : f.domains[i] <= g.domains[i]
NoBetterVolume(u, v) ==
  /\ u.ctr["maxdiskb"] <= v.ctr["maxdiskb"] /\ u.ctr["avglatency"] <= v.ctr["avglatency"]
  /\ v.ctr["availsize"] <= u.ctr["availsize"] /\ v.ctr["availinodes"] <= u.ctr["availinodes"]

LEMMA NoPolicyType == NoPolicy \in LoadPolicy
BY DEF NoPolicy, LoadPolicy

\* A governing limit is a limit.
LEMMA GoverningType ==
  ASSUME NEW l \in Limits, NEW v \in LoadPolicy, NEW f \in LoadPolicy, NEW p \in LoadPolicy
  PROVE  Governing(l, v, f, p) \in Nat
BY DEF Governing, LoadPolicy

LEMMA HiddenType ==
  ASSUME NEW lower \in LoadPolicy, NEW upper \in LoadPolicy, NEW ls
  PROVE  Hidden(lower, upper, ls) \in LoadPolicy
BY DEF Hidden, LoadPolicy

LEMMA AboveMonotone ==
  ASSUME NEW x \in Nat, NEW y \in Nat, x <= y, NEW max \in Nat, Above(x, max)
  PROVE  Above(y, max)
BY DEF Above

LEMMA BelowMonotone ==
  ASSUME NEW x \in Nat, NEW y \in Nat, y <= x, NEW min \in Nat, Below(x, min)
  PROVE  Below(y, min)
BY DEF Below

\* A filer whose domains are busier crosses the limit if the other one does.
LEMMA DomainsMonotone ==
  ASSUME NEW f \in FilerCounters, NEW g \in FilerCounters, NoBetterFiler(f, g),
         NEW fp \in LoadPolicy, NEW p \in LoadPolicy,
         DomainsExceed(f.domains, fp, p)
  PROVE  DomainsExceed(g.domains, fp, p)
<1> DEFINE limit == Governing("maxnedomain", NoPolicy, fp, p)
<1>1. limit \in Nat
  BY NoPolicyType, GoverningType DEF Limits
<1>2. PICK i \in DomainIndex : Above(f.domains[i], limit)
  BY DEF DomainsExceed
<1>3. /\ f.domains[i] \in Nat /\ g.domains[i] \in Nat
      /\ f.domains[i] <= g.domains[i]
  BY DEF FilerCounters, NoBetterFiler
<1> HIDE DEF limit
<1>4. Above(g.domains[i], limit)
  BY <1>1, <1>2, <1>3, AboveMonotone
<1> QED BY <1>4 DEF DomainsExceed, limit

\* So does a volume that is busier, slower or fuller.
LEMMA VolumeMonotone ==
  ASSUME NEW u \in VolumeCounters, NEW w \in VolumeCounters, NoBetterVolume(u, w),
         NEW vp \in LoadPolicy, NEW fp \in LoadPolicy, NEW p \in LoadPolicy,
         VolumeExceeds(u.ctr, vp, fp, p)
  PROVE  VolumeExceeds(w.ctr, vp, fp, p)
<1> DEFINE G(l) == Governing(l, vp, fp, p)
<1>1. \A l \in Limits : G(l) \in Nat
  BY GoverningType
<1>2. \A c \in Counters : u.ctr[c] \in Nat /\ w.ctr[c] \in Nat
  BY DEF VolumeCounters
<1> HIDE DEF G
<1>3. G("minsize") * MB \in Nat
  <2>1. MB \in Nat
    BY DEF MB
  <2>2. G("minsize") \in Nat
    BY <1>1 DEF Limits
  <2> HIDE DEF MB
  <2> QED BY <2>1, <2>2
<1>4. CASE Above(u.ctr["maxdiskb"], G("maxdiskbusy"))
  <2>1. Above(w.ctr["maxdiskb"], G("maxdiskbusy"))
    BY <1>1, <1>2, <1>4, AboveMonotone DEF NoBetterVolume, Limits, Counters
  <2> QED BY <2>1 DEF VolumeExceeds, G
<1>5. CASE Above(u.ctr["avglatency"], G("maxavgvollat"))
  <2>1. Above(w.ctr["avglatency"], G("maxavgvollat"))
    BY <1>1, <1>2, <1>5, AboveMonotone DEF NoBetterVolume, Limits, Counters
  <2> QED BY <2>1 DEF VolumeExceeds, G
<1>6. CASE Below(u.ctr["availinodes"], G("mininodes"))
  <2>1. Below(w.ctr["availinodes"], G("mininodes"))
    BY <1>1, <1>2, <1>6, BelowMonotone DEF NoBetterVolume, Limits, Counters
  <2> QED BY <2>1 DEF VolumeExceeds, G
<1>7. CASE Below(u.ctr["availsize"], G("minsize") * MB)
  <2>1. Below(w.ctr["availsize"], G("minsize") * MB)
    BY <1>2, <1>3, <1>7, BelowMonotone DEF NoBetterVolume, Counters
  <2> QED BY <2>1 DEF VolumeExceeds, G
<1> QED BY <1>4, <1>5, <1>6, <1>7 DEF VolumeExceeds, G

\* compare_thresholds() is monotone: whatever the policies are, a filer and a
\* volume whose counters are no better than those of a pair that crosses a
\* threshold cross one too.
THEOREM LoadMonotone ==
  ASSUME NEW f \in FilerCounters, NEW g \in FilerCounters, NoBetterFiler(f, g),
         NEW u \in VolumeCounters, NEW w \in VolumeCounters, NoBetterVolume(u, w),
         f # NULL, g # NULL, u # NULL, w # NULL,
         NEW vp \in LoadPolicy, NEW fp \in LoadPolicy, NEW p \in LoadPolicy,
         CompareThresholds(f, u, vp, fp, p) = 1
  PROVE  CompareThresholds(g, w, vp, fp, p) = 1
<1>1. DomainsExceed(f.domains, fp, p) => DomainsExceed(g.domains, fp, p)
  BY DomainsMonotone
<1>2. VolumeExceeds(u.ctr, vp, fp, p) => VolumeExceeds(w.ctr, vp, fp, p)
  BY VolumeMonotone
<1>3. DomainsExceed(f.domains, fp, p) \/ VolumeExceeds(u.ctr, vp, fp, p)
  BY DEF CompareThresholds
<1> QED BY <1>1, <1>2, <1>3 DEF CompareThresholds
-----------------------------------------------------------------------------
\* Hiding what a more specific policy defines leaves the governing limit.
LEMMA HiddenGoverning ==
  ASSUME NEW ls, NEW l \in Limits, l \in ls,
         NEW vp \in LoadPolicy, NEW fp \in LoadPolicy, NEW p \in LoadPolicy
  PROVE  Governing(l, vp, Hidden(fp, vp, ls), Hidden(Hidden(p, fp, Limits), vp, ls))
           = Governing(l, vp, fp, p)
BY DEF Governing, Hidden

\* The limit on domains, which no volume policy sets, is not hidden by one
\* when ls leaves it out.
LEMMA HiddenDomainLimit ==
  ASSUME NEW ls, "maxnedomain" \notin ls,
         NEW vp \in LoadPolicy, NEW fp \in LoadPolicy, NEW p \in LoadPolicy
  PROVE  Governing("maxnedomain", NoPolicy, Hidden(fp, vp, ls),
                   Hidden(Hidden(p, fp, Limits), vp, ls))
           = Governing("maxnedomain", NoPolicy, fp, p)
<1>1. "maxnedomain" \in Limits
  BY DEF Limits
<1> QED BY <1>1 DEF Governing, Hidden, NoPolicy

\* A less specific policy changes no verdict through a limit that a more
\* specific one defines, the limit on domains aside.
THEOREM SpecificPolicyWins ==
  ASSUME NEW f, NEW v,
         NEW vp \in LoadPolicy, NEW fp \in LoadPolicy, NEW p \in LoadPolicy
  PROVE  LET ls == Limits \ {"maxnedomain"} IN
         CompareThresholds(f, v, vp, fp, p) =
           CompareThresholds(f, v, vp, Hidden(fp, vp, ls), Hidden(Hidden(p, fp, Limits), vp, ls))
<1> DEFINE ls == Limits \ {"maxnedomain"}
           hf == Hidden(fp, vp, ls)
           hp == Hidden(Hidden(p, fp, Limits), vp, ls)
<1>1. \A l \in ls : Governing(l, vp, hf, hp) = Governing(l, vp, fp, p)
  BY HiddenGoverning
<1>2. Governing("maxnedomain", NoPolicy, hf, hp) = Governing("maxnedomain", NoPolicy, fp, p)
  BY HiddenDomainLimit
<1>3. {"maxdiskbusy", "maxavgvollat", "mininodes", "minsize"} \subseteq ls
  BY DEF Limits
<1> HIDE DEF ls, hf, hp
<1>4. ASSUME NEW domains
      PROVE  DomainsExceed(domains, hf, hp) <=> DomainsExceed(domains, fp, p)
  BY <1>2 DEF DomainsExceed
<1>5. ASSUME NEW ctr
      PROVE  VolumeExceeds(ctr, vp, hf, hp) <=> VolumeExceeds(ctr, vp, fp, p)
  BY <1>1, <1>3 DEF VolumeExceeds
<1>6. CompareThresholds(f, v, vp, fp, p) = CompareThresholds(f, v, vp, hf, hp)
  BY <1>4, <1>5 DEF CompareThresholds
<1> QED BY <1>6 DEF ls, hf, hp
-----------------------------------------------------------------------------
\* The behaviours of MCThresholds.
LoadTypeOK ==
  /\ filer \in FilerCounters /\ volume \in VolumeCounters
  /\ vpo \in LoadPolicy /\ fpo \in LoadPolicy /\ policy \in LoadPolicy

LEMMA PoliciesType ==
  ASSUME NEW l \in Limits
  PROVE  PoliciesOn(l) \subseteq LoadPolicy
BY DEF PoliciesOn, LoadPolicy, NoPolicy

LEMMA LoadTypeInit == Init => LoadTypeOK
<1> SUFFICES ASSUME Init PROVE LoadTypeOK
  OBVIOUS
<1>1. filer \in FilerCounters
  BY DEF Init, FilerCounters
<1>2. volume \in VolumeCounters
  BY DEF Init, VolumeCounters, Counters, MB
<1>3. vpo \in LoadPolicy /\ fpo \in LoadPolicy /\ policy \in LoadPolicy
  BY PoliciesType DEF Init
<1> QED BY <1>1, <1>2, <1>3 DEF LoadTypeOK

\* A step leaves the policies alone and improves no counter.
LEMMA StepGetsWorse ==
  ASSUME LoadTypeOK, [Next]_vars
  PROVE  /\ LoadTypeOK'
         /\ NoBetterFiler(filer, filer') /\ NoBetterVolume(volume, volume')
         /\ vpo' = vpo /\ fpo' = fpo /\ policy' = policy
<1> USE DEF LoadTypeOK
<1>1. \A i \in DomainIndex : filer.domains[i] \in Nat
  BY DEF FilerCounters
<1>2. \A c \in Counters : volume.ctr[c] \in Nat
  BY DEF VolumeCounters
<1>3. NoBetterFiler(filer, filer)
  BY <1>1 DEF NoBetterFiler
<1>4. NoBetterVolume(volume, volume)
  BY <1>2 DEF NoBetterVolume, Counters
<1>5. CASE BusierDomain
  <2>1. PICK i \in DomainIndex : filer' = [filer EXCEPT !.domains[i] = @ + 1]
    BY <1>5 DEF BusierDomain
  <2>2. filer' \in FilerCounters /\ NoBetterFiler(filer, filer')
    BY <1>1, <2>1 DEF FilerCounters, NoBetterFiler
  <2> QED BY <1>4, <1>5, <2>2 DEF BusierDomain
<1>6. CASE BusierVolume
  <2>1. PICK c \in {"maxdiskb", "avglatency"} : volume' = [volume EXCEPT !.ctr[c] = @ + 1]
    BY <1>6 DEF BusierVolume
  <2>2. volume' \in VolumeCounters /\ NoBetterVolume(volume, volume')
    BY <1>2, <2>1 DEF VolumeCounters, NoBetterVolume, Counters
  <2> QED BY <1>3, <1>6, <2>2 DEF BusierVolume
<1>7. CASE FullerVolume
  <2>1. CASE /\ volume.ctr.availinodes > 0
             /\ volume' = [volume EXCEPT !.ctr.availinodes = @ - 1]
    <3>1. volume' \in VolumeCounters /\ NoBetterVolume(volume, volume')
      BY <1>2, <2>1 DEF VolumeCounters, NoBetterVolume, Counters
    <3> QED BY <1>3, <1>7, <3>1 DEF FullerVolume
  <2>2. CASE \E s \in Sizes : /\ s < volume.ctr.availsize
                              /\ volume' = [volume EXCEPT !.ctr.availsize = s]
    <3>1. Sizes \subseteq Nat
      BY DEF Sizes, MB
    <3>2. PICK s \in Nat : /\ s < volume.ctr.availsize
                           /\ volume' = [volume EXCEPT !.ctr.availsize = s]
      BY <2>2, <3>1
    <3>3. volume' \in VolumeCounters /\ NoBetterVolume(volume, volume')
      BY <1>2, <3>2 DEF VolumeCounters, NoBetterVolume, Counters
    <3> QED BY <1>3, <1>7, <3>3 DEF FullerVolume
  <2> QED BY <1>7, <2>1, <2>2 DEF FullerVolume
<1>8. CASE UNCHANGED vars
  BY <1>3, <1>4, <1>8 DEF vars
<1> QED BY <1>5, <1>6, <1>7, <1>8 DEF Next

\* A load that grows never brings the verdict "within the thresholds" back.
THEOREM GrowingLoadNeverClears == Spec => WorseNeverClears
<1>1. LoadTypeOK /\ [Next]_vars => LoadTypeOK' /\ [Verdict = 1 => Verdict' = 1]_vars
  <2> SUFFICES ASSUME LoadTypeOK, [Next]_vars, Verdict = 1
               PROVE  LoadTypeOK' /\ Verdict' = 1
    BY StepGetsWorse
  <2>1. LoadTypeOK'
    BY StepGetsWorse
  <2>2. /\ filer # NULL /\ filer' # NULL /\ volume # NULL /\ volume' # NULL
    BY <2>1, NullAssumption DEF LoadTypeOK
  <2>3. CompareThresholds(filer', volume', vpo, fpo, policy) = 1
    BY <2>1, <2>2, LoadMonotone, StepGetsWorse DEF LoadTypeOK, Verdict
  <2>4. Verdict' = CompareThresholds(filer', volume', vpo, fpo, policy)
    BY StepGetsWorse DEF Verdict
  <2> QED BY <2>1, <2>3, <2>4
<1> QED BY <1>1, LoadTypeInit, PTL DEF Spec, WorseNeverClears

\* In every state of MCThresholds the volume's policy comes first.
THEOREM VolumePolicyComesFirst == Spec => []VolumePolicyFirst
<1>1. LoadTypeOK /\ [Next]_vars => LoadTypeOK'
  BY StepGetsWorse
<1>2. LoadTypeOK => VolumePolicyFirst
  BY SpecificPolicyWins DEF LoadTypeOK, VolumePolicyFirst, Precedence, Verdict
<1> QED BY <1>1, <1>2, LoadTypeInit, PTL DEF Spec
=============================================================================
