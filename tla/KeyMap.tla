------------------------------- MODULE KeyMap -------------------------------
(***************************************************************************)
(* What the plugin expects of a hash table: a map from keys to data, with  *)
(* one call at a time.  Installing a key again replaces its data; a new    *)
(* key may be refused for want of memory; one key is removed, or every key *)
(* that contains a name, and no other.                                     *)
(***************************************************************************)
CONSTANTS
  Keys, Data,
  Names,        \* what free_fs() looks for in the keys
  Contains,     \* <<key, name>>: the key contains the name
  NULL

\* The calls of the table's users.
Call == [op : {"install"}, key : Keys, data : Data]
        \cup [op : {"lookup", "remove"}, key : Keys, data : {NULL}]
        \cup [op : {"drop"}, key : Names, data : {NULL}]

VARIABLES
  map,          \* key -> its data, or NULL
  call,         \* the call that is being answered, or NULL
  ret           \* the last answer

Init == map = [k \in Keys |-> NULL] /\ call = NULL /\ ret = NULL

Begin(c) == call = NULL /\ call' = c /\ UNCHANGED <<map, ret>>

Doing(op) == call # NULL /\ call.op = op
Answer(x) == call' = NULL /\ ret' = x

Install ==
  /\ Doing("install")
  /\ map' = [map EXCEPT ![call.key] = call.data]
  /\ Answer(call.data)

Refuse ==
  /\ Doing("install") /\ map[call.key] = NULL
  /\ Answer(NULL)
  /\ UNCHANGED map

Lookup ==
  /\ Doing("lookup")
  /\ Answer(map[call.key])
  /\ UNCHANGED map

Remove ==
  /\ Doing("remove")
  /\ map' = [map EXCEPT ![call.key] = NULL]
  /\ Answer(NULL)

Matching(name) == {k \in Keys : <<k, name>> \in Contains /\ map[k] # NULL}

\* One key after the other, until none is left.
Drop ==
  /\ Doing("drop")
  /\ \E k \in Matching(call.key) : map' = [map EXCEPT ![k] = NULL]
  /\ UNCHANGED <<call, ret>>

EndDrop ==
  /\ Doing("drop") /\ Matching(call.key) = {}
  /\ Answer(NULL)
  /\ UNCHANGED map

Work == Install \/ Refuse \/ Lookup \/ Remove \/ Drop \/ EndDrop
Next == (\E c \in Call : Begin(c)) \/ Work

Safety == Init /\ [][Next]_<<map, call, ret>>

\* A call that began is answered.
Answered == call # NULL ~> call = NULL

Spec == Safety /\ WF_<<map, call, ret>>(Work)
=============================================================================
