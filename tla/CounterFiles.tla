---------------------------- MODULE CounterFiles ----------------------------
(***************************************************************************)
(* What the monitor promises about the counter files, and all the plugin   *)
(* may rely on: a file is truncated and then filled with one document from *)
(* its beginning, by one writer at a time.  The writer may stop anywhere.  *)
(***************************************************************************)
EXTENDS Naturals, Sequences

CONSTANTS
  Filers,       \* the counter files, one per filer
  Docs,         \* filer -> documents that may be written to its file
  NoFile        \* a file that does not exist

VARIABLES
  disk,         \* filer -> what its file holds, or NoFile
  writing       \* filer -> what its writer has yet to write

Init ==
  /\ disk = [f \in Filers |-> NoFile]
  /\ writing = [f \in Filers |-> << >>]

Open(f) ==
  /\ writing[f] = << >>
  /\ \E d \in Docs[f] : writing' = [writing EXCEPT ![f] = d]
  /\ disk' = [disk EXCEPT ![f] = << >>]

Write(f) ==
  \E n \in 1 .. Len(writing[f]) :
    /\ disk' = [disk EXCEPT ![f] = @ \o SubSeq(writing[f], 1, n)]
    /\ writing' = [writing EXCEPT ![f] = SubSeq(@, n + 1, Len(@))]

\* A whole document at once, for readers that never look in between.
Replace(f) ==
  /\ writing[f] = << >>
  /\ \E d \in Docs[f] : disk' = [disk EXCEPT ![f] = d]
  /\ UNCHANGED writing

\* One writer gives up, or all of them: the files stay as they are.
Stop(fs) ==
  /\ writing' = [f \in Filers |-> IF f \in fs THEN << >> ELSE writing[f]]
  /\ UNCHANGED disk

Next ==
  \/ \E f \in Filers : Open(f) \/ Write(f) \/ Replace(f)
  \/ \E fs \in SUBSET Filers : Stop(fs)

Spec == Init /\ [][Next]_<<disk, writing>>
=============================================================================
