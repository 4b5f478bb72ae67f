------------------------------ MODULE HashTab ------------------------------
(***************************************************************************)
(* The hash tables of tools/tab.c, and the two functions of sysntap.c that *)
(* take entries out of them, free_filer() and free_fs(): chains of nodes   *)
(* in memory, walked one node at a time.                                   *)
(*                                                                         *)
(* A node is memory that may be freed; reading a null or freed node, or a  *)
(* table that was never allocated, takes the process to "undefined".       *)
(*                                                                         *)
(* Definitions called Mistaken... are not used: each is a plausible error  *)
(* in the definition below it, to show that the properties detect it.      *)
(***************************************************************************)
EXTENDS Naturals, FiniteSets

CONSTANTS
  Keys, Data, Names, Contains, NULL,    \* as in KeyMap
  Nodes,        \* memory for struct nlist
  Size,         \* ht->size
  hash,         \* key -> its chain, see the function hash() of tab.c
  Freed,        \* the contents of freed or never allocated memory
  Faults        \* what may go wrong: "node", no memory for an entry; "table",
                \* none for ht->tab, which hash_mk() does not notice

Buckets == 1 .. Size
Node == [next : Nodes \cup {NULL}, key : Keys, data : Data]

\* The calls of the tables' users.
Call == [op : {"install"}, key : Keys, data : Data]
        \cup [op : {"lookup", "remove"}, key : Keys, data : {NULL}]
        \cup [op : {"drop"}, key : Names, data : {NULL}]

ASSUME HashAssumption ==
  /\ IsFiniteSet(Nodes) /\ Size \in Nat \ {0}
  /\ hash \in [Keys -> Buckets]
  /\ Contains \subseteq Keys \X Names
  /\ NULL \notin Nodes \cup Data \cup Call \cup [Buckets -> Nodes \cup {NULL}]
  /\ Freed \notin Node
  /\ Faults \subseteq {"node", "table"}

VARIABLES
  tab,          \* ht->tab: bucket -> first node of its chain; NULL: no memory
  mem,          \* the nodes
  call,         \* the call that is being answered, or NULL
  at,           \* where it stands
  i,            \* free_fs(): the chain it walks
  currp, prevp, \* the walk's position, and the node before it
  ret           \* the last answer

walkVars == <<at, i, currp, prevp>>
vars == <<tab, mem, call, walkVars, ret>>

\* hash_mk(), which init() calls before anything else.
Init ==
  /\ \/ tab = [b \in Buckets |-> NULL]
     \/ "table" \in Faults /\ tab = NULL
  /\ mem = [n \in Nodes |-> Freed]
  /\ call = NULL /\ at = "idle" /\ i = 0 /\ currp = NULL /\ prevp = NULL /\ ret = NULL

Live(n) == n \in Nodes /\ mem[n] # Freed
Undefined == at' = "undefined" /\ UNCHANGED <<tab, mem, call, i, currp, prevp, ret>>
Return(x) == /\ at' = "idle" /\ call' = NULL /\ ret' = x
             /\ i' = 0 /\ currp' = NULL /\ prevp' = NULL

\* The first chain to walk.
First(c) == IF c.op = "drop" THEN 1 ELSE hash[c.key]
Loop(c)  == CASE c.op \in {"install", "lookup"} -> "find"
              [] c.op = "remove" -> "remove"
              [] c.op = "drop" -> "drop"

Begin(c) ==
  /\ at = "idle"
  /\ IF tab = NULL
       THEN Undefined
       ELSE /\ call' = c /\ i' = First(c) /\ at' = Loop(c)
            /\ currp' = tab[First(c)] /\ prevp' = NULL
            /\ UNCHANGED <<tab, mem, ret>>

\* hash_lookupent(): the next node, or the end of the chain.
Found(n) == mem[n].key = call.key

Advance == /\ currp' = mem[currp].next /\ prevp' = currp
           /\ UNCHANGED <<tab, mem, call, at, i, ret>>

Find ==
  /\ at = "find" /\ currp # NULL
  /\ IF ~Live(currp) THEN Undefined ELSE ~Found(currp) /\ Advance

LookupFound ==
  /\ at = "find" /\ Live(currp) /\ Found(currp) /\ call.op = "lookup"
  /\ Return(mem[currp].data)
  /\ UNCHANGED <<tab, mem>>

NotFound ==
  /\ at = "find" /\ currp = NULL /\ call.op = "lookup"
  /\ Return(NULL)
  /\ UNCHANGED <<tab, mem>>

\* hash_install(): duplicates are overwritten ...
Overwrite ==
  /\ at = "find" /\ Live(currp) /\ Found(currp) /\ call.op = "install"
  /\ mem' = [mem EXCEPT ![currp].data = call.data]
  /\ Return(call.data)
  /\ UNCHANGED tab

\* ... and a new key becomes the first of its chain.
Unused == {n \in Nodes : mem[n] = Freed}

MistakenNext == NULL
NewNext == tab[hash[call.key]]

Insert ==
  /\ at = "find" /\ currp = NULL /\ call.op = "install" /\ Unused # {}
  /\ LET n == CHOOSE m \in Unused : TRUE IN
       /\ mem' = [mem EXCEPT ![n] = [next |-> NewNext, key |-> call.key, data |-> call.data]]
       /\ tab' = [tab EXCEPT ![hash[call.key]] = n]
  /\ Return(call.data)

NoMemory ==
  /\ at = "find" /\ currp = NULL /\ call.op = "install"
  /\ Unused = {} \/ "node" \in Faults
  /\ Return(NULL)
  /\ UNCHANGED <<tab, mem>>

LostPrev == prevp # NULL /\ ~Live(prevp)

\* Take currp out of the chain b and free it.
Unlink(b) ==
  IF prevp = NULL
    THEN /\ tab' = [tab EXCEPT ![b] = mem[currp].next]
         /\ mem' = [mem EXCEPT ![currp] = Freed]
    ELSE /\ mem' = [mem EXCEPT ![prevp].next = mem[currp].next, ![currp] = Freed]
         /\ UNCHANGED tab

\* free_filer().
RemoveNext ==
  /\ at = "remove" /\ currp # NULL
  /\ IF ~Live(currp) THEN Undefined ELSE ~Found(currp) /\ Advance

RemoveFound ==
  /\ at = "remove" /\ Live(currp) /\ Found(currp)
  /\ IF LostPrev THEN Undefined ELSE Unlink(hash[call.key]) /\ Return(NULL)

RemoveNothing ==
  /\ at = "remove" /\ currp = NULL
  /\ Return(NULL)
  /\ UNCHANGED <<tab, mem>>

\* free_fs(): prevp stays where it is when a node goes.
Matches(n) == <<mem[n].key, call.key>> \in Contains

MistakenPrev == currp
PrevOfNext == prevp

DropNode ==
  /\ at = "drop" /\ Live(currp) /\ Matches(currp)
  /\ IF LostPrev
       THEN Undefined
       ELSE /\ Unlink(i)
            /\ currp' = mem[currp].next /\ prevp' = PrevOfNext
            /\ UNCHANGED <<call, at, i, ret>>

KeepNode ==
  /\ at = "drop" /\ currp # NULL
  /\ IF ~Live(currp) THEN Undefined ELSE ~Matches(currp) /\ Advance

MistakenLastChain == i = Size - 1
LastChain == i = Size

MistakenNextIndex == i
NextIndex == i + 1

NextChain ==
  /\ at = "drop" /\ currp = NULL /\ ~LastChain
  /\ i' = NextIndex /\ currp' = tab[NextIndex] /\ prevp' = NULL
  /\ UNCHANGED <<tab, mem, call, at, ret>>

EndDrop ==
  /\ at = "drop" /\ currp = NULL /\ LastChain
  /\ Return(NULL)
  /\ UNCHANGED <<tab, mem>>

Work == \/ Find \/ LookupFound \/ NotFound \/ Overwrite \/ Insert \/ NoMemory
        \/ RemoveNext \/ RemoveFound \/ RemoveNothing
        \/ DropNode \/ KeepNode \/ NextChain \/ EndDrop

Next == (\E c \in Call : Begin(c)) \/ Work

\* A call goes on.
Spec == Init /\ [][Next]_vars /\ WF_vars(Work)
-----------------------------------------------------------------------------
(***************************************************************************)
(* What the chains mean.                                                   *)
(***************************************************************************)
\* The nodes of chain b in order, NULL after the last.
Walk(b) ==
  LET nth[n \in Nat] ==
        IF n = 0 THEN tab[b]
        ELSE LET m == nth[n - 1] IN IF Live(m) THEN mem[m].next ELSE NULL
  IN nth
Chain(b) == {Walk(b)[n] : n \in 0 .. Cardinality(Nodes)} \ {NULL}

\* The data a lookup of the key would come to.
NodesOf(k) == {n \in Chain(hash[k]) : Live(n) /\ mem[n].key = k}
map == [k \in Keys |->
          IF tab = NULL \/ NodesOf(k) = {} THEN NULL
          ELSE mem[CHOOSE n \in NodesOf(k) : TRUE].data]

HTypeOK ==
  /\ tab \in [Buckets -> Nodes \cup {NULL}] \cup {NULL}
  /\ mem \in [Nodes -> Node \cup {Freed}]
  /\ call \in Call \cup {NULL}
  /\ at \in {"idle", "find", "remove", "drop", "undefined"}
  /\ i \in 0 .. Size /\ currp \in Nodes \cup {NULL} /\ prevp \in Nodes \cup {NULL}
  /\ ret \in Data \cup {NULL}

\* No operation follows a pointer to nothing: the walks of hash_lookupent(),
\* free_filer() and free_fs(), which goes on after it freed the node it stands
\* on, only meet live nodes.  (Unless there is no table: hash_mk() does not
\* look at what calloc() returns for ht->tab.)
NoBadPointer == at = "undefined" => tab = NULL

\* The chains are well formed between and in the middle of operations: every
\* node in use is in the chain of its key, so that nothing is lost; no chain
\* holds a key twice, or it would come back after its removal; and every chain
\* ends.
ChainsWellFormed ==
  HTypeOK /\ (tab # NULL =>
    /\ {n \in Nodes : Live(n)} = UNION {Chain(b) : b \in Buckets}
    /\ \A b \in Buckets : \A n \in Chain(b) : hash[mem[n].key] = b
    /\ \A m, n \in {x \in Nodes : Live(x)} : mem[m].key = mem[n].key => m = n
    /\ \A b \in Buckets : Walk(b)[Cardinality(Nodes)] = NULL)

\* The table is the map its users take it for: every lookup, installation and
\* removal answers and changes what KeyMap says, and free_fs() removes the keys
\* with the name in them and no others.  Without memory for the table the first
\* call ends the process and is not counted.
Map == INSTANCE KeyMap WITH map <- map, call <- call, ret <- ret
IsMap == Map!Safety

\* Every call of hash_install(), hash_lookup(), free_filer() and free_fs()
\* returns.
CallsReturn == Map!Answered
-----------------------------------------------------------------------------
(***************************************************************************)
(* Why: the nodes in use can be put in an order in which every chain is    *)
(* sorted, each pointer leading to the first node that comes after.        *)
(***************************************************************************)
Used == {n \in Nodes : Live(n)}
Bucket(n) == hash[mem[n].key]
InBucket(b) == {n \in Used : Bucket(n) = b}

\* before, a set of pairs, is a total order of every bucket.
IsOrder(before) ==
  /\ \A n \in Used : <<n, n>> \notin before
  /\ \A l, m, n \in Used : <<l, m>> \in before /\ <<m, n>> \in before => <<l, n>> \in before
  /\ \A m, n \in Used : Bucket(m) = Bucket(n) /\ m # n =>
       <<m, n>> \in before \/ <<n, m>> \in before

\* The pointer p leads to the first node of S, NULL if there is none.
IsFirst(p, S, before) ==
  IF S = {} THEN p = NULL ELSE p \in S /\ \A n \in S : n = p \/ <<p, n>> \in before

After(n, before) == {m \in InBucket(Bucket(n)) : <<n, m>> \in before}

Linked(before) ==
  /\ \A b \in Buckets : IsFirst(tab[b], InBucket(b), before)
  /\ \A n \in Used : IsFirst(mem[n].next, After(n, before), before)

\* Of chain i the walk has yet to see n.
Ahead(n, before) == Bucket(n) = i /\ currp # NULL /\ (n = currp \/ <<currp, n>> \in before)

\* What the walk is looking for is still ahead of it.
NothingPassed(before) ==
  /\ at \in {"find", "remove"} =>
       i = hash[call.key] /\ \A n \in Used : Found(n) => Ahead(n, before)
  /\ at = "drop" =>
       i \in Buckets /\ \A n \in Used : Matches(n) => Ahead(n, before) \/ Bucket(n) > i

\* prevp is the node whose next pointer led to currp.
InPlace ==
  at \in {"find", "remove", "drop"} =>
    IF prevp = NULL THEN currp = tab[i]
                    ELSE prevp \in InBucket(i) /\ currp = mem[prevp].next

Answering ==
  /\ at = "idle" => call = NULL
  /\ at = "find" => call # NULL /\ call.op \in {"install", "lookup"}
  /\ at = "remove" => call # NULL /\ call.op = "remove"
  /\ at = "drop" => call # NULL /\ call.op = "drop"

TableInv ==
  /\ HTypeOK /\ Answering
  /\ IF tab = NULL
       THEN Used = {} /\ at \in {"idle", "undefined"} /\ call = NULL
       ELSE /\ at # "undefined" /\ InPlace
            /\ \A m, n \in Used : mem[m].key = mem[n].key => m = n
            /\ \E before \in SUBSET (Nodes \X Nodes) :
                 IsOrder(before) /\ Linked(before) /\ NothingPassed(before)
=============================================================================
