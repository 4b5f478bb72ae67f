----------------------------- MODULE MCFilerLoad -----------------------------
(***************************************************************************)
(* FilerLoad on a small instance: filer fas1 with two volumes in one       *)
(* aggregate and filer fas10 with one, storage maps over one and over both *)
(* of them, and documents in which everything is idle, a volume is slow,   *)
(* or a domain is busy.                                                    *)
(***************************************************************************)
EXTENDS FilerLoad, TLC, Functions

CONSTANTS fas1, fas10,             \* filers
          v1, v2, aggr, dom,       \* volumes, an aggregate, a domain
          home, both, nomap        \* storage maps, the last one unknown

Doc == INSTANCE CounterDoc

MCFilers == {fas1, fas10}
MCNames  == {v1, v2, aggr, dom}
MCFsTags == {home, both, nomap}

On(f, v) == [filer |-> f, volname |-> v]
MCmounttab == home :> <<On(fas1, v1)>> @@ both :> <<On(fas1, v2), On(fas10, v1)>>

MCpolicy == [NoPolicy EXCEPT !["maxavgvollat"] = 1, !["maxnedomain"] = 1, !["minsize"] = 1]
MCfptab  == [f \in MCFilers |-> NoPolicy]
MCvptab  == [k \in MCFilers \X MCNames |-> NoPolicy]

\* The smallest instance, for documents written under the reader.
OneFiler    == {fas10}
OneFsTag    == {home}
OneMounttab == home :> <<On(fas10, v1)>>
Onefptab    == [f \in OneFiler |-> NoPolicy]
Onevptab    == [k \in OneFiler \X MCNames |-> NoPolicy]
OneOwnName  == {<<k, k[1]>> : k \in OneFiler \X MCNames}

\* Which strings contain which: each key its own filer, and, in the instance
\* where the names are what they look like, "fas10:/vol/.." also "fas1".
OwnName     == {<<k, k[1]>> : k \in MCFilers \X MCNames}
NamePrefix  == OwnName \cup {<<k, fas1>> : k \in MCFilers \X MCNames}

\* Volume latencies and domain values: 1 is within the limits above, 2 is not.
Volume(v, latency) == [name |-> v, avglatency |-> latency, availsize |-> MB, availinodes |-> 1]
Data(vols, busy) ==
  [aggrs   |-> << [name |-> aggr, maxdiskb |-> 1, volumes |-> vols] >>,
   domains |-> << [name |-> dom, dvalue |-> 1], [name |-> dom, dvalue |-> busy] >>]

MCData(f) ==
  IF f = fas1
    THEN {Data(<<Volume(v1, 1), Volume(v2, 1)>>, 1), Data(<<Volume(v1, 1), Volume(v2, 2)>>, 1)}
    ELSE {Data(<<Volume(v1, 1)>>, 1), Data(<<Volume(v1, 1)>>, 2)}
OneDocs == [f \in OneFiler |-> {Doc!Document(f, d) : d \in MCData(f)}]
MCDocs == [f \in MCFilers |-> {Doc!Document(f, d) : d \in MCData(f)}]

\* The lines of the documents say what the data they are made of mean.
ASSUME LinesSayTheData ==
  \A f \in MCFilers : \A x \in MCData(f) :
    LET d == Doc!Document(f, x) IN
    /\ DomainsSaid(d, Len(d), DomainSize) = Doc!DomainsOf(x, DomainSize)
    /\ {d[i].text : i \in VolumeLines(d)} = Doc!VolumesOf(x)
    /\ \A i \in VolumeLines(d) : CountersSaid(d, i) = Doc!CountersOf(x)[d[i].text]

\* What the theorems about documents written between calls suppose.
ASSUME FitAssumption == EnoughMemory /\ DomainsFit /\ VolumesNamedOnce
-----------------------------------------------------------------------------
\* A call always comes back, whatever the monitor does to the documents while it
\* reads them: truncates, rewrites, or leaves one half written.
CallReturns == pc = "expire" ~> pc \in {"return", "undefined"}

\* The plugin converges to what the monitor wrote last: from some point on
\* every answer about a storage map is the one its filers' latest documents
\* give, so that a load that has passed is forgotten and one that lasts is seen.
Latest(f) == CHOOSE d \in MCData(f) : disk[f] = Doc!Document(f, d)
Judged(m) ==
  IF disk[m.filer] = NoFile THEN -1
  ELSE CompareThresholds([domains |-> Doc!DomainsOf(Latest(m.filer), DomainSize)],
                         [ctr |-> Doc!CountersOf(Latest(m.filer))[m.volname]],
                         vptab[<<m.filer, m.volname>>], fptab[m.filer], policy)
AnswerFromDocuments ==
  IF \A i \in DOMAIN vollist : Judged(vollist[i]) = 0 THEN 0
  ELSE Judged(vollist[CHOOSE i \in DOMAIN vollist :
                        /\ Judged(vollist[i]) # 0
                        /\ \A j \in 1 .. i - 1 : Judged(vollist[j]) = 0])
Converges ==
  <>[](pc = "return" /\ fstag \in DOMAIN mounttab => cc = AnswerFromDocuments)
=============================================================================
