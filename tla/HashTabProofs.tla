--------------------------- MODULE HashTabProofs ---------------------------
(***************************************************************************)
(* TableInv is an inductive invariant of HashTab: no walk meets freed      *)
(* memory, the chains are well formed, and the table implements KeyMap,    *)
(* for any keys, names, size, hash function, amount of memory and faults.  *)
(***************************************************************************)
EXTENDS HashTab, TLAPS, WellFoundedInduction, FiniteSetTheorems
-----------------------------------------------------------------------------
(***************************************************************************)
(* Induction over sets of numbers, and the sequence a step generates.      *)
(***************************************************************************)
LEMMA LeastNat ==
  ASSUME NEW T \in SUBSET Nat, T # {}
  PROVE  \E n \in T : \A m \in T : n <= m
<1> DEFINE R == OpToRel(<, Nat)
<1>1. IsWellFoundedOn(R, Nat)
  BY NatLessThanWellFounded
<1>2. \E x \in T : \A y \in T : ~ (<<y, x>> \in R)
  <2> HIDE DEF R
  <2> QED BY <1>1, WFMin
<1>3. PICK x \in T : \A y \in T : ~ (<<y, x>> \in R)
  BY <1>2
<1>4. \A y \in T : <<y, x>> \in R <=> y < x
  BY DEF OpToRel
<1> HIDE DEF R
<1>5. ASSUME NEW y \in T PROVE x <= y
  <2>1. x \in Nat /\ y \in Nat /\ ~ (y < x)
    BY <1>3, <1>4
  <2> QED BY <2>1
<1> QED BY <1>5

LEMMA NatSetInduction ==
  ASSUME NEW S \in SUBSET Nat, 0 \in S, \A n \in S : n + 1 \in S
  PROVE  S = Nat
<1> SUFFICES ASSUME Nat \ S # {} PROVE FALSE
  OBVIOUS
<1>1. PICK n \in Nat \ S : \A m \in Nat \ S : n <= m
  BY LeastNat
<1>2. n # 0 /\ n - 1 \in Nat /\ n - 1 \in S
  BY <1>1
<1> QED BY <1>1, <1>2

LEMMA Iteration ==
  ASSUME NEW S, NEW s0 \in S, NEW step \in [S -> S]
  PROVE  \E f \in [Nat -> S] : f[0] = s0 /\ \A n \in Nat : f[n + 1] = step[f[n]]
<1> DEFINE Upto(g, n) == g[0] = s0 /\ \A j \in 0 .. n - 1 : g[j + 1] = step[g[j]]
           Good == {n \in Nat : \E g \in [0 .. n -> S] : Upto(g, n)}
<1>1. 0 \in Good
  <2>1. [j \in 0 .. 0 |-> s0] \in [0 .. 0 -> S] /\ Upto([j \in 0 .. 0 |-> s0], 0)
    OBVIOUS
  <2> QED BY <2>1
<1>2. ASSUME NEW n \in Good PROVE n + 1 \in Good
  <2>1. PICK g \in [0 .. n -> S] : Upto(g, n)
    BY <1>2
  <2> DEFINE h == [j \in 0 .. n + 1 |-> IF j <= n THEN g[j] ELSE step[g[n]]]
  <2>2. h \in [0 .. n + 1 -> S]
    BY <2>1
  <2>3. Upto(h, n + 1)
    BY <2>1
  <2> HIDE DEF h
  <2> QED BY <2>2, <2>3
<1>3. Good = Nat
  <2> HIDE DEF Good
  <2>1. Good \in SUBSET Nat BY DEF Good
  <2> QED BY <1>1, <1>2, <2>1, NatSetInduction
<1> DEFINE g(n) == CHOOSE g \in [0 .. n -> S] : Upto(g, n)
<1>4. \A n \in Nat : g(n) \in [0 .. n -> S] /\ Upto(g(n), n)
  BY <1>3
<1>5. ASSUME NEW n \in Nat PROVE \A j \in 0 .. n : g(n + 1)[j] = g(n)[j]
  <2> DEFINE Same == {j \in Nat : j <= n => g(n + 1)[j] = g(n)[j]}
  <2> HIDE DEF g
  <2>1. 0 \in Same BY <1>4
  <2>2. ASSUME NEW j \in Same PROVE j + 1 \in Same
    <3>1. CASE j + 1 <= n
      BY <3>1, <2>2, <1>4
    <3> QED BY <3>1
  <2>3. Same = Nat
    <3> HIDE DEF Same
    <3>1. Same \in SUBSET Nat BY DEF Same
    <3> QED BY <2>1, <2>2, <3>1, NatSetInduction
  <2> QED BY <2>3
<1> DEFINE f == [n \in Nat |-> g(n)[n]]
<1>6. f \in [Nat -> S] /\ f[0] = s0 /\ \A n \in Nat : f[n + 1] = step[f[n]]
  <2> HIDE DEF g
  <2>1. f[0] = s0 BY <1>4
  <2>2. f \in [Nat -> S] BY <1>4
  <2>3. ASSUME NEW n \in Nat PROVE f[n + 1] = step[f[n]]
    <3>1. g(n + 1)[n + 1] = step[g(n + 1)[n]] BY <1>4
    <3>2. g(n + 1)[n] = g(n)[n] BY <1>5
    <3> QED BY <3>1, <3>2
  <2> QED BY <2>1, <2>2, <2>3
<1> HIDE DEF f
<1> QED BY <1>6
-----------------------------------------------------------------------------
(***************************************************************************)
(* The order of the chains.                                                *)
(***************************************************************************)
Walking == at \in {"find", "remove", "drop"}

LEMMA UsedTyped ==
  ASSUME HTypeOK, NEW n \in Used
  PROVE  /\ n \in Nodes /\ n # NULL /\ mem[n] \in Node
         /\ mem[n].key \in Keys /\ mem[n].data \in Data /\ mem[n].next \in Nodes \cup {NULL}
         /\ Bucket(n) \in Buckets /\ n \in InBucket(Bucket(n))
  BY HashAssumption DEF HTypeOK, Used, Live, Node, Bucket, InBucket

LEMMA WalkTyped ==
  ASSUME TableInv, Walking
  PROVE  /\ tab # NULL /\ tab \in [Buckets -> Nodes \cup {NULL}] /\ i \in Buckets
         /\ call \in Call /\ call # NULL
         /\ at \in {"find", "remove"} => call.key \in Keys /\ i = hash[call.key]
         /\ call.op = "install" => call.data \in Data
  BY HashAssumption DEF TableInv, Walking, Answering, HTypeOK, NothingPassed, Call

\* A walk that is not at the end of its chain stands on a live node of it.
LEMMA CurrentInChain ==
  ASSUME TableInv, Walking, currp # NULL
  PROVE  currp \in InBucket(i) /\ Live(currp) /\ Bucket(currp) = i
<1>1. PICK before : Linked(before)
  BY WalkTyped DEF TableInv
<1>2. CASE prevp = NULL
  BY <1>1, <1>2, WalkTyped DEF TableInv, InPlace, Walking, Linked, IsFirst, InBucket, Used
<1>3. CASE prevp # NULL
  <2>1. prevp \in InBucket(i) /\ currp = mem[prevp].next
    BY <1>3, WalkTyped DEF TableInv, InPlace, Walking
  <2>2. currp \in After(prevp, before)
    BY <1>1, <2>1 DEF Linked, IsFirst, InBucket
  <2> QED BY <2>1, <2>2 DEF After, InBucket, Used
<1> QED BY <1>2, <1>3

\* The node before the one a walk stands on is never a freed one.
LEMMA PrevNotLost ==
  ASSUME TableInv, Walking
  PROVE  ~ LostPrev
  BY WalkTyped DEF TableInv, InPlace, Walking, LostPrev, InBucket, Used

\* One step along a chain passes only the node the walk stands on.
LEMMA StepAhead ==
  ASSUME HTypeOK, NEW before, IsOrder(before), Linked(before),
         currp \in InBucket(i), NEW n \in Used, Ahead(n, before), n # currp
  PROVE  /\ Bucket(n) = i /\ mem[currp].next # NULL
         /\ n = mem[currp].next \/ <<mem[currp].next, n>> \in before
<1>1. n \in After(currp, before)
  BY DEF Ahead, After, InBucket
<1>2. IsFirst(mem[currp].next, After(currp, before), before)
  BY DEF Linked, InBucket
<1>3. NULL \notin After(currp, before)
  BY UsedTyped DEF After, InBucket
<1> QED BY <1>1, <1>2, <1>3 DEF IsFirst, Ahead

\* Taking the node of the walk out leaves every chain in the same order.
LEMMA UnlinkKeepsOrder ==
  ASSUME TableInv, Walking, currp # NULL, Unlink(i),
         NEW before, IsOrder(before), Linked(before)
  PROVE  /\ tab' \in [Buckets -> Nodes \cup {NULL}] /\ mem' \in [Nodes -> Node \cup {Freed}]
         /\ Used' = Used \ {currp}
         /\ \A n \in Used' : mem'[n].key = mem[n].key /\ mem'[n].data = mem[n].data
         /\ prevp # NULL => prevp \in Used' /\ mem'[prevp].next = mem[currp].next
         /\ prevp = NULL => tab'[i] = mem[currp].next
         /\ IsOrder(before)' /\ Linked(before)'
<1>1. /\ HTypeOK /\ i \in Buckets /\ tab \in [Buckets -> Nodes \cup {NULL}]
      /\ mem \in [Nodes -> Node \cup {Freed}] /\ Freed \notin Node
  BY WalkTyped, HashAssumption DEF TableInv, HTypeOK
<1>2. /\ currp \in InBucket(i) /\ currp \in Used /\ currp \in Nodes /\ mem[currp] \in Node
      /\ mem[currp].next \in Nodes \cup {NULL} /\ Bucket(currp) = i
  BY <1>1, CurrentInChain, UsedTyped DEF InBucket
<1>3. prevp # NULL =>
        /\ prevp \in InBucket(i) /\ prevp \in Used /\ prevp \in Nodes /\ mem[prevp] \in Node
        /\ mem[prevp].next = currp /\ currp \in After(prevp, before)
        /\ \A n \in After(prevp, before) : n = currp \/ <<currp, n>> \in before
  <2> SUFFICES ASSUME prevp # NULL
               PROVE  /\ prevp \in InBucket(i) /\ prevp \in Used /\ prevp \in Nodes /\ mem[prevp] \in Node
                      /\ mem[prevp].next = currp /\ currp \in After(prevp, before)
                      /\ \A n \in After(prevp, before) : n = currp \/ <<currp, n>> \in before
    OBVIOUS
  <2>1. prevp \in InBucket(i) /\ prevp \in Used /\ mem[prevp].next = currp
    BY WalkTyped DEF TableInv, InPlace, Walking, InBucket
  <2>2. IsFirst(currp, After(prevp, before), before)
    BY <2>1 DEF Linked
  <2> QED BY <1>1, <2>1, <2>2, UsedTyped DEF IsFirst
<1>4. prevp = NULL => \A n \in InBucket(i) : n = currp \/ <<currp, n>> \in before
  BY <1>1, WalkTyped DEF TableInv, InPlace, Walking, Linked, IsFirst
<1>5. prevp # NULL => prevp # currp /\ <<prevp, currp>> \in before
  BY <1>2, <1>3 DEF IsOrder, After
<1>6. /\ tab' \in [Buckets -> Nodes \cup {NULL}] /\ mem' \in [Nodes -> Node \cup {Freed}]
      /\ mem'[currp] = Freed
      /\ \A n \in Nodes \ {currp} : n # prevp => mem'[n] = mem[n]
      /\ prevp # NULL => /\ mem'[prevp] = [mem[prevp] EXCEPT !.next = mem[currp].next]
                         /\ mem'[prevp] \in Node /\ tab' = tab
      /\ prevp = NULL => tab' = [tab EXCEPT ![i] = mem[currp].next]
  <2>1. CASE prevp = NULL
    BY <1>1, <1>2, <2>1 DEF Unlink
  <2>2. CASE prevp # NULL
    <3>1. [mem[prevp] EXCEPT !.next = mem[currp].next] \in Node
      BY <1>2, <1>3, <2>2 DEF Node
    <3>2. mem' = [mem EXCEPT ![prevp].next = mem[currp].next, ![currp] = Freed] /\ tab' = tab
      BY <2>2 DEF Unlink
    <3> QED BY <1>1, <1>2, <1>3, <1>5, <2>2, <3>1, <3>2
  <2> QED BY <2>1, <2>2
<1>7. Used' = Used \ {currp}
  <2>1. ASSUME NEW n \in Nodes PROVE mem'[n] # Freed <=> mem[n] # Freed /\ n # currp
    <3>1. CASE n = currp
      BY <1>6, <3>1
    <3>2. CASE n # currp /\ n # prevp
      BY <1>6, <3>2
    <3>3. CASE n # currp /\ n = prevp
      <4>1. prevp # NULL
        BY <3>3, HashAssumption
      <4> QED BY <1>1, <1>3, <1>6, <3>3, <4>1
    <3> QED BY <3>1, <3>2, <3>3
  <2> QED BY <2>1 DEF Used, Live
<1>8. ASSUME NEW n \in Used' PROVE mem'[n].key = mem[n].key /\ mem'[n].data = mem[n].data
  <2>1. n \in Nodes \ {currp}
    BY <1>7 DEF Used, Live
  <2>2. CASE n = prevp
    <3>1. prevp # NULL
      BY <2>1, <2>2, HashAssumption
    <3> QED BY <1>3, <1>6, <2>2, <3>1 DEF Node
  <2> QED BY <1>6, <2>1, <2>2
<1>9. \A n \in Used' : n # prevp => mem'[n].next = mem[n].next
  BY <1>6, <1>7 DEF Used, Live
<1>10. prevp # NULL => prevp \in Used' /\ mem'[prevp].next = mem[currp].next
  BY <1>3, <1>5, <1>6, <1>7 DEF Node
<1>11. /\ \A n \in Used' : Bucket(n)' = Bucket(n)
       /\ \A b : InBucket(b)' = InBucket(b) \ {currp}
       /\ \A n \in Used' : After(n, before)' = After(n, before) \ {currp}
  BY <1>7, <1>8 DEF Bucket, InBucket, After
<1>12. IsOrder(before)'
  BY <1>7, <1>11 DEF IsOrder
<1>13. ASSUME NEW b \in Buckets PROVE IsFirst(tab[b], InBucket(b), before)'
  <2>1. IsFirst(tab[b], InBucket(b), before)
    BY DEF Linked
  <2>2. CASE b # i
    <3>1. currp \notin InBucket(b) /\ tab'[b] = tab[b]
      BY <1>1, <1>2, <1>6, <2>2 DEF InBucket
    <3> QED BY <2>1, <3>1, <1>11 DEF IsFirst
  <2>3. CASE b = i /\ prevp = NULL
    <3>1. IsFirst(mem[currp].next, After(currp, before), before)
      BY <1>2 DEF Linked
    <3>2. After(currp, before) = InBucket(i) \ {currp}
      BY <1>2, <1>4, <2>3 DEF After, IsOrder
    <3>3. tab'[i] = mem[currp].next
      BY <1>1, <1>6, <2>3
    <3> QED BY <2>3, <3>1, <3>2, <3>3, <1>11 DEF IsFirst
  <2>4. CASE b = i /\ prevp # NULL
    <3>1. tab[i] # currp
      BY <1>2, <1>3, <1>5, <2>1, <2>4 DEF IsFirst, IsOrder, InBucket
    <3>2. tab[i] \in InBucket(i) /\ tab'[i] = tab[i]
      BY <1>2, <1>6, <2>1, <2>4 DEF IsFirst
    <3> QED BY <2>1, <2>4, <3>1, <3>2, <1>11 DEF IsFirst
  <2> QED BY <2>2, <2>3, <2>4
<1>14. ASSUME NEW n \in Used' PROVE IsFirst(mem[n].next, After(n, before), before)'
  <2>1. n \in Used /\ n # currp /\ IsFirst(mem[n].next, After(n, before), before)
    BY <1>7 DEF Linked
  <2>2. CASE n = prevp
    <3>1. prevp # NULL
      BY <1>1, <2>1, <2>2, UsedTyped
    <3>2. IsFirst(mem[currp].next, After(currp, before), before)
      BY <1>2 DEF Linked
    <3>3. After(prevp, before) \ {currp} = After(currp, before)
      <4>1. Bucket(prevp) = i
        BY <1>3, <3>1 DEF InBucket
      <4>2. ASSUME NEW m \in After(prevp, before), m # currp PROVE m \in After(currp, before)
        BY <1>2, <1>3, <3>1, <4>1, <4>2 DEF After
      <4>3. ASSUME NEW m \in After(currp, before) PROVE m \in After(prevp, before) /\ m # currp
        BY <1>2, <1>3, <1>5, <3>1, <4>1 DEF After, IsOrder, InBucket
      <4> QED BY <4>2, <4>3
    <3> QED BY <2>2, <3>1, <3>2, <3>3, <1>10, <1>11 DEF IsFirst
  <2>3. CASE n # prevp
    <3>1. mem[n].next # currp
      <4> SUFFICES ASSUME mem[n].next = currp PROVE FALSE
        OBVIOUS
      <4>1. currp \in After(n, before) /\ \A m \in After(n, before) : m = currp \/ <<currp, m>> \in before
        BY <1>2, <2>1, HashAssumption DEF IsFirst
      <4>2. Bucket(n) = i /\ n \in InBucket(i) /\ <<n, currp>> \in before
        BY <1>2, <2>1, <4>1 DEF After, InBucket
      <4>3. prevp # NULL
        BY <1>2, <1>4, <2>1, <4>2 DEF IsOrder
      <4>4. <<n, prevp>> \in before \/ <<prevp, n>> \in before
        BY <1>3, <2>1, <2>3, <4>2, <4>3 DEF IsOrder, InBucket
      <4>5. CASE <<n, prevp>> \in before
        <5>1. prevp \in After(n, before)
          BY <1>3, <4>2, <4>3, <4>5 DEF After
        <5> QED BY <1>2, <1>3, <1>5, <4>1, <4>3, <5>1 DEF IsOrder
      <4>6. CASE <<prevp, n>> \in before
        <5>1. n \in After(prevp, before)
          BY <1>3, <4>2, <4>3, <4>6 DEF After, InBucket
        <5> QED BY <1>2, <1>3, <2>1, <4>2, <4>3, <5>1 DEF IsOrder
      <4> QED BY <4>4, <4>5, <4>6
    <3> QED BY <2>1, <2>3, <3>1, <1>9, <1>11 DEF IsFirst
  <2> QED BY <2>2, <2>3
<1> QED BY <1>6, <1>7, <1>8, <1>10, <1>12, <1>13, <1>14, <1>1 DEF Linked
-----------------------------------------------------------------------------
(***************************************************************************)
(* TableInv holds: one step for each action.                               *)
(***************************************************************************)
LEMMA TableInitially ==
  ASSUME Init
  PROVE  TableInv
<1>1. HTypeOK /\ Answering /\ Used = {}
  BY HashAssumption DEF Init, HTypeOK, Answering, Used, Live, Buckets
<1>2. CASE tab # NULL
  <2>1. tab = [b \in Buckets |-> NULL]
    BY <1>2 DEF Init
  <2>2. IsOrder({}) /\ Linked({}) /\ NothingPassed({})
    BY <1>1, <2>1 DEF Init, IsOrder, Linked, NothingPassed, IsFirst, InBucket
  <2> QED BY <1>1, <1>2, <2>2 DEF Init, TableInv, InPlace
<1> QED BY <1>1, <1>2 DEF Init, TableInv

\* A call that returns leaves the memory in order.
LEMMA Returned ==
  ASSUME NEW x \in Data \cup {NULL}, Return(x), NEW before \in SUBSET (Nodes \X Nodes),
         tab' \in [Buckets -> Nodes \cup {NULL}], mem' \in [Nodes -> Node \cup {Freed}], tab' # NULL,
         \A m, n \in Used' : mem'[m].key = mem'[n].key => m = n,
         IsOrder(before)', Linked(before)'
  PROVE  TableInv'
<1>1. HTypeOK' /\ Answering' /\ InPlace' /\ at' # "undefined" /\ NothingPassed(before)'
  BY HashAssumption DEF Return, HTypeOK, Answering, InPlace, NothingPassed
<1>2. (\A m, n \in Used : mem[m].key = mem[n].key => m = n)'
  OBVIOUS
<1> QED BY <1>1, <1>2 DEF TableInv

LEMMA ReturnedUnchanged ==
  ASSUME TableInv, Walking, NEW x \in Data \cup {NULL}, Return(x), UNCHANGED <<tab, mem>>
  PROVE  TableInv'
<1>1. PICK before \in SUBSET (Nodes \X Nodes) : IsOrder(before) /\ Linked(before)
  BY WalkTyped DEF TableInv
<1>2. IsOrder(before)' /\ Linked(before)' /\ Used' = Used
  BY <1>1 DEF IsOrder, Linked, IsFirst, After, InBucket, Bucket, Used, Live
<1>3. /\ tab' \in [Buckets -> Nodes \cup {NULL}] /\ mem' \in [Nodes -> Node \cup {Freed}]
      /\ tab' # NULL /\ \A m, n \in Used' : mem'[m].key = mem'[n].key => m = n
  BY <1>2, WalkTyped DEF TableInv, HTypeOK
<1> QED BY <1>2, <1>3, Returned

LEMMA BeginInv ==
  ASSUME TableInv, NEW c \in Call, Begin(c)
  PROVE  TableInv'
<1>1. CASE tab = NULL
  BY <1>1, HashAssumption
     DEF TableInv, Begin, Undefined, HTypeOK, Answering, Used, Live
<1>2. CASE tab # NULL
  <2>1. /\ call' = c /\ i' = First(c) /\ at' = Loop(c) /\ currp' = tab[First(c)] /\ prevp' = NULL
        /\ tab' = tab /\ mem' = mem /\ ret' = ret
    BY <1>2 DEF Begin
  <2>2. tab \in [Buckets -> Nodes \cup {NULL}] /\ HTypeOK
    BY <1>2 DEF TableInv, HTypeOK
  <2>3. First(c) \in Buckets /\ c # NULL /\ (c.op # "drop" => First(c) = hash[c.key] /\ c.key \in Keys)
    <3>1. 1 \in Buckets
      BY HashAssumption DEF Buckets
    <3>2. CASE c.op = "drop"
      BY <3>1, <3>2, HashAssumption DEF First
    <3>3. CASE c.op # "drop"
      <4>1. c.key \in Keys
        BY <3>3 DEF Call
      <4> QED BY <3>3, <4>1, HashAssumption DEF First
    <3> QED BY <3>2, <3>3
  <2>4. Loop(c) \in {"find", "remove", "drop"} /\ HTypeOK' /\ Answering' /\ InPlace'
    <3>1. /\ c.op \in {"install", "lookup"} => Loop(c) = "find"
          /\ c.op = "remove" => Loop(c) = "remove"
          /\ c.op = "drop" => Loop(c) = "drop"
          /\ c.op \in {"install", "lookup", "remove", "drop"}
      BY DEF Loop, Call
    <3> QED BY <2>1, <2>2, <2>3, <3>1, HashAssumption DEF HTypeOK, Answering, InPlace, Buckets
  <2>5. PICK before \in SUBSET (Nodes \X Nodes) : IsOrder(before) /\ Linked(before)
    BY <1>2 DEF TableInv
  <2>6. /\ IsOrder(before)' /\ Linked(before)' /\ Used' = Used
        /\ \A n \in Used : Bucket(n)' = Bucket(n)
    BY <2>1, <2>5 DEF IsOrder, Linked, IsFirst, After, InBucket, Bucket, Used, Live
  <2>7. NothingPassed(before)'
    <3>1. ASSUME NEW n \in Used, Bucket(n) = First(c) PROVE Ahead(n, before)'
      <4>1. n \in InBucket(First(c)) /\ IsFirst(tab[First(c)], InBucket(First(c)), before)
        BY <2>2, <2>3, <2>5, <3>1, UsedTyped DEF Linked
      <4>2. \A m \in InBucket(First(c)) : m # NULL
        BY HashAssumption DEF InBucket, Used
      <4> QED BY <2>1, <2>6, <3>1, <4>1, <4>2 DEF IsFirst, Ahead
    <3>2. CASE c.op = "drop"
      <4>1. First(c) = 1 /\ at' = "drop"
        BY <2>1, <3>2 DEF First, Loop
      <4>2. \A n \in Used : Bucket(n) = 1 \/ Bucket(n) > 1
        BY <2>2, UsedTyped DEF Buckets
      <4> QED BY <2>1, <2>3, <2>6, <3>1, <4>1, <4>2 DEF NothingPassed
    <3>3. CASE c.op # "drop"
      <4>1. at' # "drop"
        BY <2>1, <3>3 DEF Loop, Call
      <4>2. \A n \in Used : Found(n)' => Bucket(n) = First(c)
        BY <2>1, <2>3, <3>3 DEF Found, Bucket
      <4> QED BY <2>1, <2>3, <2>6, <3>1, <3>3, <4>1, <4>2 DEF NothingPassed
    <3> QED BY <3>2, <3>3
  <2>8. (\A m, n \in Used : mem[m].key = mem[n].key => m = n)'
    BY <1>2, <2>1, <2>6 DEF TableInv
  <2> QED BY <1>2, <2>1, <2>4, <2>6, <2>7, <2>8 DEF TableInv
<1> QED BY <1>1, <1>2

\* A walk passes a node it does not look for.
LEMMA AdvanceInv ==
  ASSUME TableInv, Walking, currp # NULL, Advance,
         at # "drop" => ~ Found(currp), at = "drop" => ~ Matches(currp)
  PROVE  TableInv'
<1>1. /\ tab # NULL /\ tab \in [Buckets -> Nodes \cup {NULL}] /\ i \in Buckets /\ HTypeOK
      /\ currp \in InBucket(i) /\ currp \in Used /\ Bucket(currp) = i
  BY WalkTyped, CurrentInChain DEF TableInv, InBucket
<1>2. /\ currp' = mem[currp].next /\ prevp' = currp
      /\ UNCHANGED <<tab, mem, call, at, i, ret>>
  BY DEF Advance
<1>3. HTypeOK' /\ Answering' /\ InPlace' /\ at' # "undefined"
  <2>1. HTypeOK'
    BY <1>1, <1>2, UsedTyped DEF HTypeOK
  <2>2. currp # NULL /\ InBucket(i)' = InBucket(i)
    BY <1>2 DEF InBucket, Used, Live, Bucket
  <2> QED BY <1>1, <1>2, <2>1, <2>2 DEF Answering, InPlace, TableInv
<1>4. PICK before \in SUBSET (Nodes \X Nodes) : IsOrder(before) /\ Linked(before) /\ NothingPassed(before)
  BY <1>1 DEF TableInv
<1>5. /\ IsOrder(before)' /\ Linked(before)' /\ Used' = Used
      /\ \A n \in Used : Bucket(n)' = Bucket(n) /\ Found(n)' = Found(n) /\ Matches(n)' = Matches(n)
  BY <1>2, <1>4 DEF IsOrder, Linked, IsFirst, After, InBucket, Bucket, Used, Live, Found, Matches
<1>6. ASSUME NEW n \in Used, Ahead(n, before), n # currp PROVE Ahead(n, before)'
  BY <1>1, <1>2, <1>4, <1>5, <1>6, StepAhead DEF Ahead
<1>7. NothingPassed(before)'
  <2>1. CASE at = "drop"
    <3>1. ASSUME NEW n \in Used, Matches(n) PROVE Ahead(n, before)' \/ Bucket(n) > i
      BY <1>4, <1>6, <2>1, <3>1 DEF NothingPassed
    <3> QED BY <1>1, <1>2, <1>5, <2>1, <3>1 DEF NothingPassed
  <2>2. CASE at # "drop"
    <3>1. ASSUME NEW n \in Used, Found(n) PROVE Ahead(n, before)' /\ i = hash[call.key]
      BY <1>4, <1>6, <2>2, <3>1 DEF NothingPassed, Walking
    <3> QED BY <1>2, <1>4, <1>5, <2>2, <3>1 DEF NothingPassed, Walking
  <2> QED BY <2>1, <2>2
<1>8. (\A m, n \in Used : mem[m].key = mem[n].key => m = n)'
  BY <1>1, <1>2, <1>5 DEF TableInv
<1> QED BY <1>1, <1>2, <1>3, <1>5, <1>7, <1>8 DEF TableInv

LEMMA OverwriteInv ==
  ASSUME TableInv, Overwrite
  PROVE  TableInv'
<1>1. Walking /\ currp \in Used /\ Return(call.data) /\ tab' = tab
      /\ mem' = [mem EXCEPT ![currp].data = call.data] /\ call.op = "install"
  BY DEF Overwrite, Walking, Used, Live
<1>2. /\ tab # NULL /\ tab \in [Buckets -> Nodes \cup {NULL}] /\ HTypeOK
      /\ mem \in [Nodes -> Node \cup {Freed}] /\ call.data \in Data /\ Freed \notin Node
      /\ currp \in Nodes /\ mem[currp] \in Node
  BY <1>1, WalkTyped, UsedTyped, HashAssumption DEF TableInv, HTypeOK
<1>3. /\ mem' \in [Nodes -> Node \cup {Freed}] /\ Used' = Used
      /\ \A n \in Used : mem'[n].key = mem[n].key /\ mem'[n].next = mem[n].next
  <2>1. [mem[currp] EXCEPT !.data = call.data] \in Node
    BY <1>2 DEF Node
  <2>2. /\ mem'[currp] = [mem[currp] EXCEPT !.data = call.data]
        /\ \A n \in Nodes \ {currp} : mem'[n] = mem[n]
    BY <1>1, <1>2
  <2>3. mem' \in [Nodes -> Node \cup {Freed}]
    BY <1>1, <1>2, <2>1
  <2>4. ASSUME NEW n \in Nodes PROVE mem'[n] # Freed <=> mem[n] # Freed
    BY <1>2, <2>1, <2>2
  <2>5. Used' = Used
    BY <2>4 DEF Used, Live
  <2>6. ASSUME NEW n \in Used PROVE mem'[n].key = mem[n].key /\ mem'[n].next = mem[n].next
    <3>1. CASE n = currp
      BY <1>2, <2>2, <3>1 DEF Node
    <3> QED BY <2>2, <3>1 DEF Used, Live
  <2> QED BY <2>3, <2>5, <2>6
<1>4. PICK before \in SUBSET (Nodes \X Nodes) : IsOrder(before) /\ Linked(before)
  BY <1>2 DEF TableInv
<1>5. /\ \A n \in Used : Bucket(n)' = Bucket(n) /\ After(n, before)' = After(n, before)
      /\ \A b : InBucket(b)' = InBucket(b)
  BY <1>3 DEF Bucket, InBucket, After
<1>6. IsOrder(before)' /\ Linked(before)'
  BY <1>1, <1>3, <1>4, <1>5 DEF IsOrder, Linked, IsFirst
<1>7. \A m, n \in Used' : mem'[m].key = mem'[n].key => m = n
  BY <1>2, <1>3 DEF TableInv
<1> QED BY <1>1, <1>2, <1>3, <1>6, <1>7, Returned

LEMMA InsertInv ==
  ASSUME TableInv, Insert
  PROVE  TableInv'
<1>1. /\ Walking /\ at = "find" /\ call.op = "install" /\ Return(call.data)
      /\ currp = NULL
  BY DEF Insert, Walking
<1>2. PICK new \in Unused :
        /\ mem' = [mem EXCEPT ![new] = [next |-> NewNext, key |-> call.key, data |-> call.data]]
        /\ tab' = [tab EXCEPT ![hash[call.key]] = new]
  BY DEF Insert
<1>3. /\ tab # NULL /\ tab \in [Buckets -> Nodes \cup {NULL}] /\ HTypeOK
      /\ mem \in [Nodes -> Node \cup {Freed}] /\ call.data \in Data /\ Freed \notin Node
      /\ call.key \in Keys /\ hash[call.key] \in Buckets /\ i = hash[call.key]
      /\ new \in Nodes /\ new \notin Used /\ new # NULL
  BY <1>1, <1>2, WalkTyped, HashAssumption DEF TableInv, HTypeOK, Unused, Used, Live
<1>3a. PICK chain \in Buckets : chain = i
  BY <1>3
<1>4. PICK before \in SUBSET (Nodes \X Nodes) : IsOrder(before) /\ Linked(before) /\ NothingPassed(before)
  BY <1>3 DEF TableInv
<1> DEFINE node == [next |-> NewNext, key |-> call.key, data |-> call.data]
<1>5. node \in Node /\ node.next = tab[i] /\ node.key = call.key
  BY <1>3 DEF Node, NewNext
<1>6. /\ mem' \in [Nodes -> Node \cup {Freed}] /\ mem'[new] = node
      /\ \A n \in Nodes \ {new} : mem'[n] = mem[n]
      /\ tab' \in [Buckets -> Nodes \cup {NULL}] /\ tab'[i] = new
      /\ \A b \in Buckets \ {i} : tab'[b] = tab[b]
      /\ tab' # NULL
  <2> HIDE DEF node
  <2>1. mem' = [mem EXCEPT ![new] = node]
    BY <1>2 DEF node
  <2>2. tab' # NULL
    BY <1>2, <1>3, HashAssumption
  <2> QED BY <1>2, <1>3, <1>5, <2>1, <2>2
<1> HIDE DEF node
<1>7. Used' = Used \cup {new}
  <2>1. ASSUME NEW n \in Nodes PROVE mem'[n] # Freed <=> mem[n] # Freed \/ n = new
    BY <1>3, <1>5, <1>6
  <2> QED BY <1>3, <2>1 DEF Used, Live
<1>8. \A n \in Used : n # new /\ mem'[n] = mem[n] /\ mem'[n].key # call.key
  <2>1. ASSUME NEW n \in Used PROVE n # new /\ mem'[n] = mem[n]
    BY <1>3, <1>6 DEF Used
  <2>2. \A n \in Used : ~ Found(n)
    BY <1>1, <1>4 DEF NothingPassed, Ahead
  <2> QED BY <2>1, <2>2 DEF Found
<1>9. Bucket(new)' = chain /\ \A n \in Used : Bucket(n)' = Bucket(n)
  BY <1>3, <1>5, <1>6, <1>8, <1>3a DEF Bucket
\* The new node comes before every other.
<1>10. PICK after \in SUBSET (Nodes \X Nodes) :
         /\ \A n \in Used : <<new, n>> \in after /\ <<n, new>> \notin after
         /\ <<new, new>> \notin after
         /\ \A m, n \in Used : <<m, n>> \in after <=> <<m, n>> \in before
  <2> DEFINE order == (before \cap (Used \X Used)) \cup ({new} \X Used)
  <2>1. /\ order \in SUBSET (Nodes \X Nodes)
        /\ \A n \in Used : <<new, n>> \in order /\ <<n, new>> \notin order
        /\ <<new, new>> \notin order
        /\ \A m, n \in Used : <<m, n>> \in order <=> <<m, n>> \in before
    BY <1>3, <1>8 DEF Used
  <2> HIDE DEF order
  <2> QED BY <2>1
<1>11. IsOrder(after)'
  <2>1. (\A n \in Used : <<n, n>> \notin after)'
    BY <1>4, <1>7, <1>10 DEF IsOrder
  <2>2. (\A l, m, n \in Used : <<l, m>> \in after /\ <<m, n>> \in after => <<l, n>> \in after)'
    <3> SUFFICES ASSUME NEW l \in Used', NEW m \in Used', NEW n \in Used',
                        <<l, m>> \in after, <<m, n>> \in after
                 PROVE  <<l, n>> \in after
      BY <1>4, <1>7
    <3>1. m \in Used /\ n \in Used
      BY <1>7, <1>10
    <3>2. CASE l = new
      BY <1>10, <3>1, <3>2
    <3>3. CASE l # new
      BY <1>4, <1>7, <1>10, <3>1, <3>3 DEF IsOrder
    <3> QED BY <3>2, <3>3
  <2>3. (\A m, n \in Used : Bucket(m) = Bucket(n) /\ m # n => <<m, n>> \in after \/ <<n, m>> \in after)'
    BY <1>4, <1>7, <1>9, <1>10 DEF IsOrder
  <2> QED BY <2>1, <2>2, <2>3 DEF IsOrder
<1>12. /\ InBucket(chain)' = InBucket(chain) \cup {new}
       /\ \A b \in Buckets \ {chain} : InBucket(b)' = InBucket(b)
       /\ After(new, after)' = InBucket(chain)
       /\ \A n \in Used : After(n, after)' = After(n, before)
  <2>1. /\ InBucket(chain)' = InBucket(chain) \cup {new}
        /\ \A b \in Buckets \ {chain} : InBucket(b)' = InBucket(b)
    <3>1. InBucket(chain)' = InBucket(chain) \cup {new}
      BY <1>3, <1>7, <1>8, <1>9 DEF InBucket
    <3>2. ASSUME NEW b \in Buckets \ {chain} PROVE InBucket(b)' = InBucket(b)
      BY <1>3, <1>7, <1>8, <1>9 DEF InBucket
    <3> QED BY <3>1, <3>2
  <2>2. After(new, after)' = InBucket(chain)
    BY <1>8, <1>9, <1>10, <2>1 DEF After, InBucket
  <2>3. ASSUME NEW n \in Used PROVE After(n, after)' = After(n, before)
    BY <1>7, <1>8, <1>9, <1>10 DEF After, InBucket
  <2> QED BY <2>1, <2>2, <2>3
<1>13. Linked(after)'
  <2>1. ASSUME NEW b \in Buckets PROVE IsFirst(tab[b], InBucket(b), after)'
    <3>1. CASE b = chain
      <4>1. \A n \in InBucket(chain)' : n = new \/ <<new, n>> \in after
        BY <1>10, <1>12 DEF InBucket
      <4>2. InBucket(chain)' # {} /\ new \in InBucket(chain)'
        BY <1>12
      <4>3. IsFirst(tab[chain], InBucket(chain), after)'
        BY <1>6, <1>3a, <4>1, <4>2 DEF IsFirst
      <4> QED BY <3>1, <4>3
    <3>2. CASE b # chain
      BY <1>4, <1>6, <1>10, <1>12, <1>3a, <3>2 DEF IsFirst, Linked, InBucket
    <3> QED BY <3>1, <3>2
  <2>2. ASSUME NEW n \in Used' PROVE IsFirst(mem[n].next, After(n, after), after)'
    <3>1. CASE n = new
      <4>1. mem'[n].next = tab[chain]
        BY <1>5, <1>6, <1>3a, <3>1
      <4> QED BY <1>3, <1>4, <1>10, <1>12, <3>1, <4>1 DEF IsFirst, Linked, InBucket
    <3>2. CASE n \in Used
      <4>1. IsFirst(mem[n].next, After(n, before), before) /\ After(n, before) \subseteq Used
        BY <1>4, <3>2 DEF Linked, After, InBucket
      <4>2. IsFirst(mem[n].next, After(n, before), after)
        BY <1>10, <4>1 DEF IsFirst
      <4>3. mem'[n] = mem[n] /\ After(n, after)' = After(n, before)
        BY <1>8, <1>12, <3>2
      <4> QED BY <4>2, <4>3 DEF IsFirst
    <3> QED BY <1>7, <3>1, <3>2
  <2> QED BY <2>1, <2>2 DEF Linked
<1>14. \A m, n \in Used' : mem'[m].key = mem'[n].key => m = n
  BY <1>3, <1>5, <1>6, <1>7, <1>8 DEF TableInv
<1> QED BY <1>1, <1>3, <1>6, <1>10, <1>11, <1>13, <1>14, Returned

\* A node that is taken out takes its key along.
LEMMA UnlinkKeepsKeys ==
  ASSUME TableInv, Walking, currp # NULL, Unlink(i)
  PROVE  \A m, n \in Used' : mem'[m].key = mem'[n].key => m = n
<1>1. PICK before \in SUBSET (Nodes \X Nodes) : IsOrder(before) /\ Linked(before)
  BY WalkTyped DEF TableInv
<1> QED BY <1>1, UnlinkKeepsOrder, WalkTyped DEF TableInv

LEMMA RemoveFoundInv ==
  ASSUME TableInv, RemoveFound
  PROVE  TableInv'
<1>1. Walking /\ currp # NULL /\ Unlink(i) /\ Return(NULL)
  BY PrevNotLost, WalkTyped, HashAssumption DEF RemoveFound, Walking, Live
<1>2. PICK before \in SUBSET (Nodes \X Nodes) : IsOrder(before) /\ Linked(before)
  BY <1>1, WalkTyped DEF TableInv
<1>3. tab' \in [Buckets -> Nodes \cup {NULL}] /\ tab' # NULL
  BY <1>1, <1>2, UnlinkKeepsOrder, HashAssumption
<1> QED BY <1>1, <1>2, <1>3, UnlinkKeepsOrder, UnlinkKeepsKeys, Returned

LEMMA DropNodeInv ==
  ASSUME TableInv, DropNode
  PROVE  TableInv'
<1>1. /\ Walking /\ at = "drop" /\ currp # NULL /\ Unlink(i)
      /\ currp' = mem[currp].next /\ prevp' = prevp /\ UNCHANGED <<call, at, i, ret>>
  BY PrevNotLost, HashAssumption DEF DropNode, PrevOfNext, Walking, Live
<1>2. PICK before \in SUBSET (Nodes \X Nodes) : IsOrder(before) /\ Linked(before) /\ NothingPassed(before)
  BY <1>1, WalkTyped DEF TableInv
<1>3. /\ HTypeOK /\ i \in Buckets /\ currp \in InBucket(i) /\ currp \in Used
      /\ mem[currp].next \in Nodes \cup {NULL}
  BY <1>1, WalkTyped, CurrentInChain, UsedTyped DEF TableInv, InBucket
<1>4. /\ tab' \in [Buckets -> Nodes \cup {NULL}] /\ mem' \in [Nodes -> Node \cup {Freed}]
      /\ Used' = Used \ {currp}
      /\ \A n \in Used' : mem'[n].key = mem[n].key
      /\ prevp # NULL => prevp \in Used' /\ mem'[prevp].next = mem[currp].next
      /\ prevp = NULL => tab'[i] = mem[currp].next
      /\ IsOrder(before)' /\ Linked(before)'
  BY <1>1, <1>2, UnlinkKeepsOrder
<1>5. tab' # NULL /\ HTypeOK' /\ Answering' /\ at' # "undefined"
  BY <1>1, <1>3, <1>4, HashAssumption DEF HTypeOK, TableInv, Answering
<1>6. InPlace'
  <2>1. CASE prevp = NULL
    BY <1>1, <1>4, <2>1 DEF InPlace
  <2>2. CASE prevp # NULL
    <3>1. prevp \in InBucket(i)'
      BY <1>1, <1>4, <2>2, WalkTyped DEF TableInv, InPlace, InBucket, Bucket
    <3> QED BY <1>1, <1>4, <2>2, <3>1 DEF InPlace
  <2> QED BY <2>1, <2>2
<1>7. NothingPassed(before)'
  <2>1. ASSUME NEW n \in Used', Matches(n)' PROVE Ahead(n, before)' \/ Bucket(n)' > i'
    <3>1. n \in Used /\ n # currp /\ Matches(n) /\ Bucket(n)' = Bucket(n)
      BY <1>1, <1>4, <2>1 DEF Matches, Bucket
    <3>2. Ahead(n, before) \/ Bucket(n) > i
      BY <1>1, <1>2, <3>1 DEF NothingPassed
    <3> QED BY <1>1, <1>2, <1>3, <3>1, <3>2, StepAhead DEF Ahead
  <2> QED BY <1>1, <1>3, <2>1 DEF NothingPassed
<1>8. (\A m, n \in Used : mem[m].key = mem[n].key => m = n)'
  BY <1>1, UnlinkKeepsKeys
<1> QED BY <1>4, <1>5, <1>6, <1>7, <1>8 DEF TableInv

LEMMA NextChainInv ==
  ASSUME TableInv, NextChain
  PROVE  TableInv'
<1>1. /\ Walking /\ at = "drop" /\ currp = NULL /\ i # Size
      /\ i' = i + 1 /\ currp' = tab[i + 1] /\ prevp' = NULL
      /\ UNCHANGED <<tab, mem, call, at, ret>>
  BY DEF NextChain, LastChain, NextIndex, Walking
<1>2. /\ tab # NULL /\ tab \in [Buckets -> Nodes \cup {NULL}] /\ i \in Buckets /\ i + 1 \in Buckets
      /\ HTypeOK
  BY <1>1, WalkTyped, HashAssumption DEF Buckets, TableInv
<1>3. HTypeOK' /\ Answering' /\ InPlace' /\ at' # "undefined"
  BY <1>1, <1>2, HashAssumption DEF HTypeOK, Buckets, TableInv, Answering, InPlace
<1>4. PICK before \in SUBSET (Nodes \X Nodes) : IsOrder(before) /\ Linked(before) /\ NothingPassed(before)
  BY <1>2 DEF TableInv
<1>5. /\ IsOrder(before)' /\ Linked(before)' /\ Used' = Used
      /\ \A n \in Used : Bucket(n)' = Bucket(n) /\ Matches(n)' = Matches(n)
  BY <1>1, <1>4 DEF IsOrder, Linked, IsFirst, After, InBucket, Bucket, Used, Live, Matches
<1>6. ASSUME NEW n \in Used, Matches(n) PROVE Ahead(n, before)' \/ Bucket(n) > i'
  <2>1. Bucket(n) > i /\ Bucket(n) \in Buckets
    BY <1>1, <1>2, <1>4, <1>6, UsedTyped DEF NothingPassed, Ahead
  <2>2. CASE Bucket(n) = i + 1
    <3>1. n \in InBucket(i + 1) /\ IsFirst(tab[i + 1], InBucket(i + 1), before) /\ NULL \notin InBucket(i + 1)
      BY <1>2, <1>4, <2>2, UsedTyped DEF Linked, InBucket
    <3> QED BY <1>1, <1>5, <2>2, <3>1 DEF IsFirst, Ahead
  <2>3. CASE Bucket(n) # i + 1
    BY <1>1, <1>2, <2>1, <2>3 DEF Buckets
  <2> QED BY <2>2, <2>3
<1>7. NothingPassed(before)'
  BY <1>1, <1>2, <1>5, <1>6 DEF NothingPassed
<1>8. (\A m, n \in Used : mem[m].key = mem[n].key => m = n)'
  BY <1>1, <1>2, <1>5 DEF TableInv
<1> QED BY <1>1, <1>2, <1>3, <1>5, <1>7, <1>8 DEF TableInv

LEMMA StutterInv ==
  ASSUME TableInv, UNCHANGED vars
  PROVE  TableInv'
<1>1. \A before : /\ IsOrder(before)' = IsOrder(before) /\ Linked(before)' = Linked(before)
                   /\ NothingPassed(before)' = NothingPassed(before)
  BY DEF vars, walkVars, IsOrder, Linked, NothingPassed, IsFirst, After, InBucket, Bucket, Ahead,
         Used, Live, Found, Matches
<1>2. HTypeOK' /\ Answering' /\ InPlace' = InPlace /\ Used' = Used
  BY DEF vars, walkVars, TableInv, HTypeOK, Answering, InPlace, InBucket, Bucket, Used, Live
<1> QED BY <1>1, <1>2 DEF TableInv, vars, walkVars

LEMMA TableStep ==
  ASSUME TableInv, [Next]_vars
  PROVE  TableInv'
<1>1. ASSUME NEW c \in Call, Begin(c) PROVE TableInv'
  BY <1>1, BeginInv
<1>2. CASE Find
  <2>1. Walking /\ currp # NULL /\ Live(currp) /\ ~ Found(currp) /\ Advance /\ at = "find"
    BY <1>2, CurrentInChain DEF Find, Walking
  <2> QED BY <2>1, AdvanceInv
<1>3. CASE LookupFound
  <2>1. Walking /\ currp \in Used
    BY <1>3 DEF LookupFound, Walking, Used, Live
  <2>2. mem[currp].data \in Data
    BY <2>1, UsedTyped DEF TableInv
  <2> QED BY <1>3, <2>1, <2>2, ReturnedUnchanged DEF LookupFound
<1>4. CASE NotFound
  BY <1>4, ReturnedUnchanged DEF NotFound, Walking
<1>5. CASE Overwrite
  BY <1>5, OverwriteInv
<1>6. CASE Insert
  BY <1>6, InsertInv
<1>7. CASE NoMemory
  BY <1>7, ReturnedUnchanged DEF NoMemory, Walking
<1>8. CASE RemoveNext
  <2>1. Walking /\ currp # NULL /\ Live(currp) /\ ~ Found(currp) /\ Advance /\ at = "remove"
    BY <1>8, CurrentInChain DEF RemoveNext, Walking
  <2> QED BY <2>1, AdvanceInv
<1>9. CASE RemoveFound
  BY <1>9, RemoveFoundInv
<1>10. CASE RemoveNothing
  BY <1>10, ReturnedUnchanged DEF RemoveNothing, Walking
<1>11. CASE DropNode
  BY <1>11, DropNodeInv
<1>12. CASE KeepNode
  <2>1. Walking /\ currp # NULL /\ Live(currp) /\ ~ Matches(currp) /\ Advance /\ at = "drop"
    BY <1>12, CurrentInChain DEF KeepNode, Walking
  <2> QED BY <2>1, AdvanceInv
<1>13. CASE NextChain
  BY <1>13, NextChainInv
<1>14. CASE EndDrop
  BY <1>14, ReturnedUnchanged DEF EndDrop, Walking
<1>15. CASE UNCHANGED vars
  BY <1>15, StutterInv
<1> QED BY <1>1, <1>2, <1>3, <1>4, <1>5, <1>6, <1>7, <1>8, <1>9, <1>10, <1>11, <1>12, <1>13, <1>14, <1>15
        DEF Next, Work

\* The tables are in order in every state.
THEOREM TableCorrect == Spec => []TableInv
<1>1. Init => TableInv
  BY TableInitially
<1>2. TableInv /\ [Next]_vars => TableInv'
  BY TableStep
<1> QED BY <1>1, <1>2, PTL DEF Spec

\* No operation follows a pointer to a node that was freed (NoBadPointer).
THEOREM PointersGood == Spec => []NoBadPointer
<1>1. TableInv => NoBadPointer
  BY DEF TableInv, NoBadPointer
<1> QED BY <1>1, TableCorrect, PTL
-----------------------------------------------------------------------------
(***************************************************************************)
(* The chains as the walks of the code meet them.                          *)
(***************************************************************************)
\* Walk is what its recursive definition says.
LEMMA WalkSteps ==
  ASSUME TableInv, tab # NULL, NEW b \in Buckets
  PROVE  /\ Walk(b) \in [Nat -> Nodes \cup {NULL}]
         /\ Walk(b)[0] = tab[b]
         /\ \A n \in Nat : Walk(b)[n + 1] = IF Live(Walk(b)[n]) THEN mem[Walk(b)[n]].next ELSE NULL
<1> DEFINE P == Nodes \cup {NULL}
           step == [m \in P |-> IF Live(m) THEN mem[m].next ELSE NULL]
           Is(g) == g = [n \in Nat |-> IF n = 0 THEN tab[b]
                                      ELSE LET m == g[n - 1] IN IF Live(m) THEN mem[m].next ELSE NULL]
<1>1. tab[b] \in P /\ HTypeOK
  BY DEF TableInv, HTypeOK
<1>2. step \in [P -> P]
  <2>1. \A m \in P : Live(m) => mem[m].next \in P
    BY <1>1, UsedTyped DEF Used, Live
  <2> QED BY <2>1
<1>3. PICK f \in [Nat -> P] : f[0] = tab[b] /\ \A n \in Nat : f[n + 1] = step[f[n]]
  <2> HIDE DEF P, step
  <2>1. PICK S, s0, s : S = P /\ s0 = tab[b] /\ s = step
    OBVIOUS
  <2>2. s0 \in S /\ s \in [S -> S]
    BY <1>1, <1>2, <2>1
  <2>3. \E f \in [Nat -> S] : f[0] = s0 /\ \A n \in Nat : f[n + 1] = s[f[n]]
    BY <2>2, Iteration
  <2> QED BY <2>1, <2>3
<1>4. Is(f)
  <2>1. ASSUME NEW n \in Nat
        PROVE  f[n] = IF n = 0 THEN tab[b]
                               ELSE LET m == f[n - 1] IN IF Live(m) THEN mem[m].next ELSE NULL
    <3>1. CASE n = 0
      BY <1>3, <3>1
    <3>2. CASE n # 0
      <4>1. n - 1 \in Nat /\ (n - 1) + 1 = n
        BY <3>2
      <4>2. f[n] = step[f[n - 1]] /\ f[n - 1] \in P
        BY <1>3, <4>1
      <4> QED BY <3>2, <4>2
    <3> QED BY <3>1, <3>2
  <2> QED BY <1>3, <2>1
<1>5. Walk(b) = CHOOSE g : Is(g)
  BY DEF Walk
<1>6. Is(Walk(b))
  <2> HIDE DEF Is
  <2> QED BY <1>4, <1>5
<1>7. \A n \in Nat : Walk(b)[n] = IF n = 0 THEN tab[b]
        ELSE LET m == Walk(b)[n - 1] IN IF Live(m) THEN mem[m].next ELSE NULL
  BY <1>6
<1>8. Walk(b)[0] = tab[b] /\ \A n \in Nat : Walk(b)[n + 1] = IF Live(Walk(b)[n]) THEN mem[Walk(b)[n]].next ELSE NULL
  <2>1. \A n \in Nat : n + 1 # 0 /\ (n + 1) - 1 = n /\ n + 1 \in Nat
    OBVIOUS
  <2>2. ASSUME NEW n \in Nat PROVE Walk(b)[n + 1] = IF Live(Walk(b)[n]) THEN mem[Walk(b)[n]].next ELSE NULL
    BY <1>7, <2>1
  <2> QED BY <1>7, <2>2
<1>9. Walk(b) \in [Nat -> P]
  <2> DEFINE S == {n \in Nat : Walk(b)[n] \in P}
  <2>1. 0 \in S
    BY <1>1, <1>8
  <2>2. ASSUME NEW n \in S PROVE n + 1 \in S
    BY <1>1, <1>8, UsedTyped DEF Used, Live
  <2>3. S = Nat
    <3>1. S \in SUBSET Nat
      OBVIOUS
    <3> HIDE DEF S
    <3> QED BY <2>1, <2>2, <3>1, NatSetInduction
  <2> QED BY <1>6, <2>3
<1> QED BY <1>8, <1>9

\* A walk meets the nodes of its bucket, in their order, and no other.
LEMMA WalkInOrder ==
  ASSUME TableInv, tab # NULL, NEW b \in Buckets, NEW before, IsOrder(before), Linked(before)
  PROVE  \A n \in Nat :
           /\ Walk(b)[n] # NULL => Walk(b)[n] \in InBucket(b)
           /\ \A m \in 0 .. n - 1 : Walk(b)[n] # NULL =>
                Walk(b)[m] \in InBucket(b) /\ <<Walk(b)[m], Walk(b)[n]>> \in before
           /\ \A x \in InBucket(b) : (\E m \in 0 .. n : Walk(b)[m] = x)
                                     \/ (Walk(b)[n] # NULL /\ <<Walk(b)[n], x>> \in before)
<1> DEFINE w == Walk(b)
           In(n) == w[n] # NULL => w[n] \in InBucket(b)
           Ordered(n) == \A m \in 0 .. n - 1 : w[n] # NULL => w[m] \in InBucket(b) /\ <<w[m], w[n]>> \in before
           Met(n) == \A x \in InBucket(b) : (\E m \in 0 .. n : w[m] = x)
                                            \/ (w[n] # NULL /\ <<w[n], x>> \in before)
           S == {n \in Nat : In(n) /\ Ordered(n) /\ Met(n)}
<1>1. /\ w \in [Nat -> Nodes \cup {NULL}] /\ w[0] = tab[b]
      /\ \A n \in Nat : w[n + 1] = IF Live(w[n]) THEN mem[w[n]].next ELSE NULL
  BY WalkSteps
<1> HIDE DEF w
<1>2. \A n \in Used : n # NULL
  BY HashAssumption DEF Used
<1>3. 0 \in S
  <2>1. IsFirst(w[0], InBucket(b), before)
    BY <1>1 DEF Linked
  <2>2. In(0) /\ Met(0)
    BY <1>2, <2>1 DEF IsFirst, InBucket
  <2> QED BY <2>2
<1>4. ASSUME NEW n \in S PROVE n + 1 \in S
  <2>1. n \in Nat /\ In(n) /\ Ordered(n) /\ Met(n)
    OBVIOUS
  <2>2. CASE w[n] = NULL
    <3>1. w[n + 1] = NULL
      BY <1>1, <2>1, <2>2, HashAssumption DEF Live
    <3>2. Met(n + 1)
      BY <2>1, <2>2
    <3> QED BY <2>1, <3>1, <3>2
  <2>3. CASE w[n] # NULL
    <3>1. w[n] \in InBucket(b) /\ w[n] \in Used /\ Bucket(w[n]) = b
      BY <2>1, <2>3 DEF InBucket
    <3>2. w[n + 1] = mem[w[n]].next
      BY <1>1, <2>1, <3>1 DEF Used
    <3>3. IsFirst(w[n + 1], After(w[n], before), before)
      BY <3>1, <3>2 DEF Linked
    <3>4. w[n + 1] # NULL => w[n + 1] \in InBucket(b) /\ <<w[n], w[n + 1]>> \in before
      BY <3>1, <3>3 DEF IsFirst, After
    <3>5. Ordered(n + 1)
      <4> SUFFICES ASSUME NEW m \in 0 .. n, w[n + 1] # NULL
                   PROVE  w[m] \in InBucket(b) /\ <<w[m], w[n + 1]>> \in before
        BY <2>1
      <4>1. CASE m = n
        BY <2>3, <3>4, <4>1
      <4>2. CASE m # n
        <5>1. w[m] \in InBucket(b) /\ <<w[m], w[n]>> \in before
          BY <2>1, <2>3, <4>2
        <5>2. w[m] \in Used
          BY <5>1 DEF InBucket
        <5> QED BY <3>1, <3>4, <5>1, <5>2 DEF IsOrder, InBucket
      <4> QED BY <4>1, <4>2
    <3>6. Met(n + 1)
      <4> SUFFICES ASSUME NEW x \in InBucket(b), \A m \in 0 .. n + 1 : w[m] # x
                   PROVE  w[n + 1] # NULL /\ <<w[n + 1], x>> \in before
        OBVIOUS
      <4>1. <<w[n], x>> \in before
        BY <2>1
      <4>2. x \in After(w[n], before)
        BY <3>1, <4>1 DEF After
      <4>3. w[n + 1] # x
        BY <2>1
      <4> QED BY <1>2, <3>3, <4>2, <4>3 DEF IsFirst, After, InBucket
    <3> QED BY <2>1, <3>4, <3>5, <3>6
  <2> QED BY <2>2, <2>3
<1>5. S = Nat
  <2>1. S \in SUBSET Nat
    OBVIOUS
  <2> HIDE DEF S
  <2> QED BY <1>3, <1>4, <2>1, NatSetInduction
<1> QED BY <1>5 DEF w

\* The chain of a bucket is what is in it, and ends.
LEMMA ChainIsBucket ==
  ASSUME TableInv, tab # NULL, NEW b \in Buckets
  PROVE  Chain(b) = InBucket(b) /\ Walk(b)[Cardinality(Nodes)] = NULL
<1> DEFINE w == Walk(b)
           C == Cardinality(Nodes)
<1>1. C \in Nat /\ IsFiniteSet(Nodes)
  BY HashAssumption, FS_CardinalityType
<1>2. PICK before : IsOrder(before) /\ Linked(before)
  BY DEF TableInv
<1>3. /\ w \in [Nat -> Nodes \cup {NULL}]
      /\ \A n \in Nat :
           /\ w[n] # NULL => w[n] \in InBucket(b)
           /\ \A m \in 0 .. n - 1 : w[n] # NULL => w[m] \in InBucket(b) /\ <<w[m], w[n]>> \in before
           /\ \A x \in InBucket(b) : (\E m \in 0 .. n : w[m] = x) \/ (w[n] # NULL /\ <<w[n], x>> \in before)
  BY <1>2, WalkSteps, WalkInOrder
<1> HIDE DEF w, C
<1>4. w[C] = NULL
  <2> SUFFICES ASSUME w[C] # NULL PROVE FALSE
    OBVIOUS
  <2>1. ASSUME NEW m \in 0 .. C PROVE w[m] \in InBucket(b)
    <3>1. m = C \/ m \in 0 .. C - 1
      BY <1>1
    <3> QED BY <1>1, <1>3, <3>1
  <2>2. ASSUME NEW l \in 0 .. C, NEW m \in 0 .. C, l < m PROVE w[l] # w[m]
    <3>1. l \in 0 .. m - 1 /\ m \in Nat /\ w[m] # NULL
      BY <1>1, <2>1, <2>2, HashAssumption DEF InBucket, Used
    <3>2. <<w[l], w[m]>> \in before /\ w[m] \in Used
      BY <1>3, <2>1, <3>1 DEF InBucket
    <3> QED BY <1>2, <3>2 DEF IsOrder
  <2>3. PICK S, f : S = 0 .. C /\ f = [m \in S |-> w[m]]
    OBVIOUS
  <2>4. IsFiniteSet(S) /\ Cardinality(S) = C + 1
    BY <1>1, <2>3, FS_Interval
  <2>5. f \in [S -> Nodes]
    BY <2>1, <2>3 DEF InBucket, Used
  <2>6. PICK l, m \in S : l # m /\ f[l] = f[m]
    <3>1. Cardinality(Nodes) < Cardinality(S)
      BY <1>1, <2>4 DEF C
    <3> QED BY <1>1, <2>4, <2>5, <3>1, FS_PigeonHole
  <2>7. w[l] = w[m] /\ (l < m \/ m < l)
    BY <1>1, <2>3, <2>6
  <2> QED BY <2>2, <2>3, <2>7
<1>5. Chain(b) = {w[n] : n \in 0 .. C} \ {NULL}
  BY DEF Chain, w, C
<1>6. ASSUME NEW x \in Chain(b) PROVE x \in InBucket(b)
  BY <1>1, <1>3, <1>5
<1>7. ASSUME NEW x \in InBucket(b) PROVE x \in Chain(b)
  <2>1. \E m \in 0 .. C : w[m] = x
    BY <1>1, <1>3, <1>4
  <2> QED BY <1>5, <2>1, HashAssumption DEF InBucket, Used
<1>8. Chain(b) = InBucket(b)
  BY <1>6, <1>7
<1> QED BY <1>4, <1>8 DEF w, C

LEMMA WellFormed ==
  ASSUME TableInv
  PROVE  ChainsWellFormed
<1> SUFFICES ASSUME tab # NULL
             PROVE  /\ Used = UNION {Chain(b) : b \in Buckets}
                    /\ \A b \in Buckets : \A n \in Chain(b) : hash[mem[n].key] = b
                    /\ \A m, n \in Used : mem[m].key = mem[n].key => m = n
                    /\ \A b \in Buckets : Walk(b)[Cardinality(Nodes)] = NULL
  BY DEF TableInv, ChainsWellFormed, Used
<1>1. \A b \in Buckets : Chain(b) = InBucket(b) /\ Walk(b)[Cardinality(Nodes)] = NULL
  BY ChainIsBucket
<1>2. \A n \in Used : Bucket(n) \in Buckets /\ n \in InBucket(Bucket(n))
  BY UsedTyped DEF TableInv
<1>3. Used = UNION {Chain(b) : b \in Buckets}
  <2>1. \A b \in Buckets : Chain(b) \subseteq Used
    BY <1>1 DEF InBucket
  <2>2. \A n \in Used : n \in Chain(Bucket(n))
    BY <1>1, <1>2
  <2> QED BY <1>2, <2>1, <2>2
<1>4. \A b \in Buckets : \A n \in Chain(b) : hash[mem[n].key] = b
  BY <1>1 DEF InBucket, Bucket
<1>5. \A m, n \in Used : mem[m].key = mem[n].key => m = n
  BY DEF TableInv
<1> QED BY <1>1, <1>3, <1>4, <1>5

\* Nothing in use is lost, no key is there twice, and every chain ends, between
\* and in the middle of operations (ChainsWellFormed).
THEOREM ChainsCorrect == Spec => []ChainsWellFormed
  BY WellFormed, TableCorrect, PTL
-----------------------------------------------------------------------------
(***************************************************************************)
(* The table implements the map.                                           *)
(***************************************************************************)
MapMeans ==
  /\ map = [k \in Keys |-> map[k]]
  /\ tab = NULL => \A k \in Keys : map[k] = NULL
  /\ tab # NULL => \A k \in Keys :
       \/ map[k] = NULL /\ \A n \in Used : mem[n].key # k
       \/ \E n \in Used : mem[n].key = k /\ map[k] = mem[n].data

LEMMA Meaning == TableInv => MapMeans
<1> SUFFICES ASSUME TableInv PROVE MapMeans
  OBVIOUS
<1>1. map = [k \in Keys |-> map[k]]
  BY DEF map
<1>2. ASSUME tab = NULL, NEW k \in Keys PROVE map[k] = NULL
  BY <1>2 DEF map
<1>3. ASSUME tab # NULL, NEW k \in Keys
      PROVE  \/ map[k] = NULL /\ \A n \in Used : mem[n].key # k
             \/ \E n \in Used : mem[n].key = k /\ map[k] = mem[n].data
  <2>1. hash[k] \in Buckets
    BY HashAssumption
  <2>2. Chain(hash[k]) = InBucket(hash[k])
    BY <1>3, <2>1, ChainIsBucket
  <2>3. NodesOf(k) = {n \in Used : mem[n].key = k}
    BY <2>2 DEF NodesOf, InBucket, Bucket, Used
  <2>4. map[k] = IF NodesOf(k) = {} THEN NULL ELSE mem[CHOOSE n \in NodesOf(k) : TRUE].data
    BY <1>3 DEF map
  <2>5. CASE NodesOf(k) = {}
    BY <2>3, <2>4, <2>5
  <2>6. CASE NodesOf(k) # {}
    <3>1. PICK n \in NodesOf(k) : map[k] = mem[n].data
      BY <2>4, <2>6
    <3> QED BY <2>3, <3>1
  <2> QED BY <2>5, <2>6
<1> QED BY <1>1, <1>2, <1>3 DEF MapMeans

\* The map's value of a key is the data of the node that has it.
LEMMA DataOf ==
  ASSUME TableInv, MapMeans, tab # NULL, NEW n \in Used
  PROVE  mem[n].key \in Keys /\ map[mem[n].key] = mem[n].data /\ mem[n].data # NULL
<1>1. mem[n].key \in Keys /\ mem[n].data \in Data
  BY UsedTyped DEF TableInv
<1>2. \A m \in Used : mem[m].key = mem[n].key => m = n
  BY DEF TableInv
<1> QED BY <1>1, <1>2, HashAssumption DEF MapMeans

LEMMA SameMap ==
  ASSUME tab' = tab, mem' = mem
  PROVE  map' = map
  BY DEF map, NodesOf, Chain, Walk, Live

\* Without the node of a key, and with all the others, the map has lost the key.
LEMMA MapUnlinked ==
  ASSUME TableInv, TableInv', MapMeans, MapMeans', Walking, currp # NULL, Unlink(i)
  PROVE  map' = [map EXCEPT ![mem[currp].key] = NULL]
<1> DEFINE key == mem[currp].key
<1>1. /\ currp \in Used /\ key \in Keys /\ tab # NULL /\ tab' # NULL
  <2>1. PICK before : IsOrder(before) /\ Linked(before)
    BY WalkTyped DEF TableInv
  <2>2. tab' # NULL
    BY <2>1, UnlinkKeepsOrder, HashAssumption
  <2> QED BY <2>2, WalkTyped, CurrentInChain, UsedTyped DEF TableInv, InBucket
<1>2. /\ Used' = Used \ {currp}
      /\ \A n \in Used' : mem'[n].key = mem[n].key /\ mem'[n].data = mem[n].data
  <2>1. PICK before : IsOrder(before) /\ Linked(before)
    BY <1>1 DEF TableInv
  <2> QED BY <2>1, UnlinkKeepsOrder
<1>3. ASSUME NEW k \in Keys PROVE map'[k] = IF k = key THEN NULL ELSE map[k]
  <2>1. \A n \in Used' : mem[n].key # key
    BY <1>1, <1>2 DEF TableInv
  <2>2. \/ map'[k] = NULL /\ \A n \in Used' : mem[n].key # k
        \/ \E n \in Used' : mem[n].key = k /\ map'[k] = mem[n].data
    BY <1>1, <1>2 DEF MapMeans
  <2>3. CASE k = key
    BY <2>1, <2>2, <2>3
  <2>4. CASE k # key
    <3>1. CASE \E n \in Used' : mem[n].key = k /\ map'[k] = mem[n].data
      <4>1. PICK n \in Used' : mem[n].key = k /\ map'[k] = mem[n].data
        BY <3>1
      <4> QED BY <1>1, <1>2, <2>4, <4>1, DataOf
    <3>2. CASE map'[k] = NULL /\ \A n \in Used' : mem[n].key # k
      BY <1>1, <1>2, <2>4, <3>2 DEF MapMeans
    <3> QED BY <2>2, <3>1, <3>2
  <2> QED BY <2>3, <2>4
<1>4. map = [k \in Keys |-> map[k]] /\ map' = [k \in Keys |-> map'[k]]
  BY DEF MapMeans
<1> HIDE DEF key
<1>5. map' = [map EXCEPT ![key] = NULL]
  BY <1>1, <1>3, <1>4
<1> QED BY <1>5 DEF key

\* A node with new data, or a new node, gives its key the data.
LEMMA MapWritten ==
  ASSUME TableInv, TableInv', MapMeans, MapMeans', tab # NULL, tab' # NULL,
         NEW n \in Nodes, Used' = Used \cup {n}, NEW k \in Keys, NEW d,
         mem'[n].key = k, mem'[n].data = d,
         \A m \in Used \ {n} : mem'[m].key = mem[m].key /\ mem'[m].data = mem[m].data,
         n \in Used => mem[n].key = k
  PROVE  map' = [map EXCEPT ![k] = d]
<1>1. ASSUME NEW j \in Keys PROVE map'[j] = IF j = k THEN d ELSE map[j]
  <2>1. CASE j = k
    <3>1. n \in Used' /\ \A m \in Used' : mem'[m].key = k => m = n
      BY DEF TableInv
    <3> QED BY <2>1, <3>1 DEF MapMeans
  <2>2. CASE j # k /\ \E m \in Used : mem[m].key = j
    <3>1. PICK m \in Used : mem[m].key = j
      BY <2>2
    <3>2. m # n /\ m \in Used' /\ mem'[m].key = j /\ mem'[m].data = mem[m].data
      BY <2>2, <3>1
    <3>3. map'[j] = mem'[m].data
      BY <3>2 DEF MapMeans, TableInv
    <3> QED BY <2>2, <3>1, <3>2, <3>3, DataOf
  <2>3. CASE j # k /\ \A m \in Used : mem[m].key # j
    <3>1. \A m \in Used' : mem'[m].key # j
      BY <2>3
    <3> QED BY <2>3, <3>1 DEF MapMeans
  <2> QED BY <2>1, <2>2, <2>3
<1>2. map = [j \in Keys |-> map[j]] /\ map' = [j \in Keys |-> map'[j]]
  BY DEF MapMeans
<1> QED BY <1>1, <1>2

LEMMA MapInitially ==
  ASSUME Init, MapMeans
  PROVE  Map!Init
<1>1. Used = {}
  BY DEF Init, Used, Live
<1>2. \A k \in Keys : map[k] = NULL
  BY <1>1 DEF MapMeans
<1> QED BY <1>2 DEF MapMeans, Map!Init, Init

\* The key of the call is in no node: what the end of a walk has found out.
LEMMA NotThere ==
  ASSUME TableInv, MapMeans, Walking, currp = NULL
  PROVE  /\ at \in {"find", "remove"} => call.key \in Keys /\ map[call.key] = NULL
         /\ at = "drop" /\ i = Size => Map!Matching(call.key) = {}
<1>1. PICK before : NothingPassed(before)
  BY WalkTyped DEF TableInv
<1>2. CASE at \in {"find", "remove"}
  <2>1. call.key \in Keys /\ tab # NULL
    BY <1>2, WalkTyped
  <2>2. \A n \in Used : mem[n].key # call.key
    BY <1>1, <1>2 DEF NothingPassed, Ahead, Found
  <2> QED BY <1>2, <2>1, <2>2 DEF MapMeans
<1>3. CASE at = "drop" /\ i = Size
  <2>1. \A n \in Used : Bucket(n) \in Nat /\ Bucket(n) <= Size
    BY UsedTyped, HashAssumption DEF Buckets, TableInv
  <2>2. \A n \in Used : ~ Matches(n)
    BY <1>1, <1>3, <2>1, HashAssumption DEF NothingPassed, Ahead
  <2>3. tab # NULL
    BY WalkTyped
  <2> QED BY <1>3, <2>2, <2>3 DEF Map!Matching, Matches, MapMeans
<1> QED BY <1>2, <1>3

LEMMA MapStep ==
  ASSUME TableInv, TableInv', MapMeans, MapMeans', [Next]_vars
  PROVE  [Map!Next]_<<map, call, ret>>
<1> SUFFICES ASSUME Next PROVE Map!Next \/ UNCHANGED <<map, call, ret>>
  BY SameMap DEF vars
<1>1. ASSUME NEW c \in Call, Begin(c) PROVE Map!Next \/ UNCHANGED <<map, call, ret>>
  <2>1. CASE tab = NULL
    BY <1>1, <2>1, SameMap DEF Begin, Undefined
  <2>2. CASE tab # NULL
    <3>1. call' = c /\ call = NULL /\ UNCHANGED <<tab, mem, ret>>
      BY <1>1, <2>2 DEF Begin, TableInv, Answering
    <3>2. map' = map
      BY <3>1, SameMap
    <3>3. c \in Map!Call
      BY <1>1 DEF Call, Map!Call
    <3> QED BY <3>1, <3>2, <3>3 DEF Map!Next, Map!Begin
  <2> QED BY <2>1, <2>2
<1>2. CASE Find \/ RemoveNext \/ KeepNode \/ NextChain
  <2>1. UNCHANGED <<tab, mem, call, ret>>
    BY <1>2 DEF Find, RemoveNext, KeepNode, NextChain, Advance, Undefined
  <2> QED BY <2>1, SameMap
<1>3. CASE LookupFound
  <2>1. /\ Walking /\ call.op = "lookup" /\ call # NULL /\ currp \in Used /\ mem[currp].key = call.key
        /\ call' = NULL /\ ret' = mem[currp].data /\ tab # NULL /\ UNCHANGED <<tab, mem>>
    <3>1. Walking /\ currp \in Used
      BY <1>3 DEF LookupFound, Walking, Used, Live
    <3> QED BY <1>3, <3>1, WalkTyped DEF LookupFound, Return, Found
  <2>2. ret' = map[call.key]
    BY <2>1, DataOf
  <2> QED BY <2>1, <2>2, SameMap DEF Map!Next, Map!Work, Map!Lookup, Map!Doing, Map!Answer
<1>4. CASE NotFound
  <2>1. /\ Walking /\ at = "find" /\ currp = NULL /\ call.op = "lookup"
        /\ call' = NULL /\ ret' = NULL /\ UNCHANGED <<tab, mem>>
    BY <1>4 DEF NotFound, Walking, Return
  <2>2. call # NULL /\ ret' = map[call.key]
    BY <2>1, NotThere, WalkTyped
  <2> QED BY <2>1, <2>2, SameMap DEF Map!Next, Map!Work, Map!Lookup, Map!Doing, Map!Answer
<1>5. CASE Overwrite
  <2>1. /\ Walking /\ currp \in Used /\ mem[currp].key = call.key /\ tab' = tab /\ call.op = "install"
        /\ mem' = [mem EXCEPT ![currp].data = call.data] /\ call' = NULL /\ ret' = call.data
    BY <1>5 DEF Overwrite, Walking, Used, Live, Found, Return
  <2>2. /\ tab # NULL /\ call # NULL /\ call.data \in Data /\ call.key \in Keys
        /\ currp \in Nodes /\ mem[currp] \in Node /\ mem \in [Nodes -> Node \cup {Freed}]
    BY <2>1, WalkTyped, UsedTyped DEF TableInv, HTypeOK
  <2>3. /\ mem'[currp] = [mem[currp] EXCEPT !.data = call.data]
        /\ \A m \in Nodes \ {currp} : mem'[m] = mem[m]
    BY <2>1, <2>2
  <2>4. mem'[currp] \in Node /\ mem'[currp].key = call.key /\ mem'[currp].data = call.data
    BY <2>1, <2>2, <2>3 DEF Node
  <2>5. Used' = Used \cup {currp}
    <3>1. \A m \in Nodes : mem'[m] # Freed <=> mem[m] # Freed
      BY <2>1, <2>3, <2>4, HashAssumption DEF Used, Live
    <3> QED BY <2>1, <3>1 DEF Used, Live
  <2>6. map' = [map EXCEPT ![call.key] = call.data]
    <3>1. tab' # NULL /\ \A m \in Used \ {currp} : mem'[m] = mem[m]
      BY <2>1, <2>2, <2>3 DEF Used
    <3> QED BY <2>1, <2>2, <2>4, <2>5, <3>1, MapWritten
  <2> QED BY <2>1, <2>2, <2>6 DEF Map!Next, Map!Work, Map!Install, Map!Doing, Map!Answer
<1>6. CASE Insert
  <2>1. /\ Walking /\ call.op = "install" /\ call' = NULL /\ ret' = call.data
    BY <1>6 DEF Insert, Walking, Return
  <2>2. PICK new \in Unused :
          /\ mem' = [mem EXCEPT ![new] = [next |-> NewNext, key |-> call.key, data |-> call.data]]
          /\ tab' = [tab EXCEPT ![hash[call.key]] = new]
    BY <1>6 DEF Insert
  <2>3. /\ tab # NULL /\ call # NULL /\ call.data \in Data /\ call.key \in Keys /\ NewNext \in Nodes \cup {NULL}
        /\ tab \in [Buckets -> Nodes \cup {NULL}]
        /\ hash[call.key] \in Buckets /\ new \in Nodes /\ new \notin Used
        /\ mem \in [Nodes -> Node \cup {Freed}]
    BY <1>6, <2>1, <2>2, WalkTyped, HashAssumption DEF TableInv, HTypeOK, NewNext, Insert, Unused, Used, Live
  <2>4. /\ mem'[new] \in Node /\ mem'[new].key = call.key /\ mem'[new].data = call.data
        /\ \A m \in Nodes \ {new} : mem'[m] = mem[m]
    BY <2>2, <2>3 DEF Node
  <2>5. Used' = Used \cup {new}
    <3>1. \A m \in Nodes : mem'[m] # Freed <=> mem[m] # Freed \/ m = new
      BY <2>3, <2>4, HashAssumption
    <3> QED BY <2>3, <3>1 DEF Used, Live
  <2>6. tab' # NULL
    BY <2>2, <2>3, HashAssumption
  <2>7. \A m \in Used \ {new} : mem'[m] = mem[m]
    BY <2>4 DEF Used
  <2>8. map' = [map EXCEPT ![call.key] = call.data]
    BY <2>3, <2>4, <2>5, <2>6, <2>7, MapWritten
  <2> QED BY <2>1, <2>3, <2>8 DEF Map!Next, Map!Work, Map!Install, Map!Doing, Map!Answer
<1>7. CASE NoMemory
  <2>1. /\ Walking /\ at = "find" /\ currp = NULL /\ call.op = "install"
        /\ call' = NULL /\ ret' = NULL /\ UNCHANGED <<tab, mem>>
    BY <1>7 DEF NoMemory, Walking, Return
  <2>2. call # NULL /\ map[call.key] = NULL
    BY <2>1, NotThere, WalkTyped
  <2> QED BY <2>1, <2>2, SameMap DEF Map!Next, Map!Work, Map!Refuse, Map!Doing, Map!Answer
<1>8. CASE RemoveFound
  <2>1. /\ Walking /\ currp # NULL /\ Unlink(i) /\ mem[currp].key = call.key /\ call # NULL
        /\ call' = NULL /\ ret' = NULL /\ call.op = "remove"
    <3>1. Walking /\ at = "remove" /\ currp # NULL
      BY <1>8, HashAssumption DEF RemoveFound, Walking, Live
    <3> QED BY <1>8, <3>1, PrevNotLost, WalkTyped DEF RemoveFound, Return, Found, TableInv, Answering
  <2>2. map' = [map EXCEPT ![call.key] = NULL]
    BY <2>1, MapUnlinked
  <2> QED BY <2>1, <2>2 DEF Map!Next, Map!Work, Map!Remove, Map!Doing, Map!Answer
<1>9. CASE RemoveNothing
  <2>1. /\ Walking /\ at = "remove" /\ currp = NULL /\ call' = NULL /\ ret' = NULL /\ UNCHANGED <<tab, mem>>
    BY <1>9 DEF RemoveNothing, Walking, Return
  <2>2. /\ call # NULL /\ call.op = "remove" /\ call.key \in Keys /\ map[call.key] = NULL
    BY <2>1, NotThere, WalkTyped DEF TableInv, Answering
  <2>3. map' = map
    BY <2>1, SameMap
  <2>4. map' = [map EXCEPT ![call.key] = NULL]
    <3>1. map = [k \in Keys |-> map[k]]
      BY DEF MapMeans
    <3> QED BY <2>2, <2>3, <3>1
  <2> QED BY <2>1, <2>2, <2>4 DEF Map!Next, Map!Work, Map!Remove, Map!Doing, Map!Answer
<1>10. CASE DropNode
  <2>1. /\ Walking /\ at = "drop" /\ currp # NULL /\ Unlink(i) /\ Matches(currp) /\ UNCHANGED <<call, ret>>
    BY <1>10, PrevNotLost, HashAssumption DEF DropNode, Walking, Live
  <2>2. /\ call # NULL /\ call.op = "drop" /\ tab # NULL /\ currp \in Used
    BY <2>1, WalkTyped, CurrentInChain DEF TableInv, Answering, InBucket
  <2>3. mem[currp].key \in Map!Matching(call.key)
    BY <2>1, <2>2, DataOf DEF Map!Matching, Matches
  <2>4. map' = [map EXCEPT ![mem[currp].key] = NULL]
    BY <2>1, MapUnlinked
  <2> QED BY <2>1, <2>2, <2>3, <2>4 DEF Map!Next, Map!Work, Map!Drop, Map!Doing
<1>11. CASE EndDrop
  <2>1. /\ Walking /\ at = "drop" /\ currp = NULL /\ i = Size
        /\ call' = NULL /\ ret' = NULL /\ UNCHANGED <<tab, mem>>
    BY <1>11 DEF EndDrop, LastChain, Walking, Return
  <2>2. /\ call # NULL /\ call.op = "drop" /\ Map!Matching(call.key) = {}
    BY <2>1, NotThere, WalkTyped DEF TableInv, Answering
  <2> QED BY <2>1, <2>2, SameMap DEF Map!Next, Map!Work, Map!EndDrop, Map!Doing, Map!Answer
<1> QED BY <1>1, <1>2, <1>3, <1>4, <1>5, <1>6, <1>7, <1>8, <1>9, <1>10, <1>11 DEF Next, Work

\* The tables implement KeyMap (IsMap): every lookup, installation and removal
\* answers and changes what the map says, and free_fs() removes the keys with
\* the name in them and no others.
THEOREM TableImplementsMap == Spec => IsMap
<1>1. Init /\ MapMeans => Map!Init
  BY MapInitially
<1>2. TableInv /\ TableInv' /\ MapMeans /\ MapMeans' /\ [Next]_vars => [Map!Next]_<<map, call, ret>>
  BY MapStep
<1> QED BY <1>1, <1>2, Meaning, TableCorrect, PTL DEF Spec, IsMap, Map!Safety
=============================================================================
