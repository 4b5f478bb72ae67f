----------------------------- MODULE MCOntapMon -----------------------------
(***************************************************************************)
(* OntapMon on two filers with one volume each, and what the plugin and    *)
(* the administrator expect of the monitor.                                *)
(***************************************************************************)
EXTENDS OntapMon

\* The monitor starts when the filers are under load, and the volumes of one of
\* them are offline.
BusyInit ==
  /\ Init
  /\ LET offline == CHOOSE f \in Filers : TRUE IN
       \A f \in Filers :
         dfm[f] = [managed |-> TRUE, busy |-> 1, domain |-> 1,
                   vols |-> IF f = offline THEN {} ELSE Volumes]

BusyFairSpec == BusyInit /\ [][Next]_vars /\ Fairness

-----------------------------------------------------------------------------
\* A filer that DFM goes on managing is published again and again, whatever
\* fails on the way for some time, an exception in a thread aside.
Published(f) == \E t \in Threads : worker[t] = [at |-> "put", filer |-> f, err |-> 0]
Republished ==
  \A f \in Filers : <>[]dfm[f].managed /\ []~Raised => []<>Published(f)

\* "The script will catch issue and self correct after REFRESH" (README of the
\* plugin, Known Issues): the same, without the exception.
SelfCorrects ==
  \A f \in Filers : <>[]dfm[f].managed => []<>Published(f)

\* Once the load of a filer stays what it is, so does, in the end, what its
\* file says of its disks.
Shows(f, field, level) ==
  disk[f] # NoFile /\ disk[f] # << >> /\ Last(disk[f]).data[field] = level
DiskLoadFollows ==
  \A f \in Filers, x \in Level :
    <>[](dfm[f].managed /\ dfm[f].busy = x) /\ []~Raised
      => <>[](disk[f] # << >> => Shows(f, "maxdiskb", x))
=============================================================================
