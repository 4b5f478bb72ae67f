------------------------------ MODULE DocLines ------------------------------
(***************************************************************************)
(* A counter document as the plugin meets it, a sequence of lines, and     *)
(* what its lines say about the filer, read at once and without a parser:  *)
(* the reference that the line-at-a-time parser of sysntap.c is held       *)
(* against.  p is a number of lines: what the first p of them say.         *)
(***************************************************************************)
EXTENDS Integers, Sequences, FiniteSets

\* The element that a line ends, if it ends one.
EndedBy(line) == IF line.tag \in {"decl", "start"} THEN "none" ELSE line.el

Lines(d, p, el) == {i \in 1 .. p : EndedBy(d[i]) = el}

\* How many elements are open after p lines.
Level(d, p) == Cardinality({i \in 1 .. p : d[i].tag = "start"})
               - Cardinality({i \in 1 .. p : d[i].tag = "end"})

\* A line that names a volume: there are names of aggregates and domains too.
NamesVolume(d, i) == EndedBy(d[i]) = "name" /\ Level(d, i) = 5

VolumeLines(d) == {i \in 1 .. Len(d) : NamesVolume(d, i)}

\* The lines that follow the name of a volume.
AfterName == <<"avglatency", "availsize", "availinodes", "volume">>

\* The last of the lines that end an element.
LastLine(d, p, el) ==
  CHOOSE i \in Lines(d, p, el) : \A j \in Lines(d, p, el) : j <= i

\* The values of the domains in their order, 0 for those that are not there.
DomainsSaid(d, p, size) ==
  [k \in 0 .. size - 1 |->
     IF \E i \in Lines(d, p, "value") : Cardinality(Lines(d, i, "value")) = k + 1
       THEN d[CHOOSE i \in Lines(d, p, "value") : Cardinality(Lines(d, i, "value")) = k + 1].text
       ELSE 0]

\* The counters of the volume that line i names: the disk busy of the aggregate
\* it is in, and its own.
CountersSaid(d, i) ==
  [c \in {"maxdiskb", "avglatency", "availsize", "availinodes"} |->
     CASE c = "maxdiskb"    -> d[LastLine(d, i, "maxdiskb")].text
       [] c = "avglatency"  -> d[i + 1].text
       [] c = "availsize"   -> d[i + 2].text
       [] c = "availinodes" -> d[i + 3].text]

\* How printToXML() lays a whole document out: elements are closed, the domains
\* are closed somewhere, a volume is a name and its counters in a fixed order,
\* in an aggregate whose disk busy comes first, and is named once.
WholeDocument(d) ==
  /\ Len(d) > 1 /\ d[Len(d)].tag = "end" /\ d[Len(d)].el = "other" /\ Level(d, Len(d)) = 0
  /\ Lines(d, Len(d), "domains") # {}
  /\ \A i \in VolumeLines(d) :
       /\ i + 4 <= Len(d)
       /\ \A k \in 1 .. 4 : EndedBy(d[i + k]) = AfterName[k]
       /\ Lines(d, i, "maxdiskb") # {}
  /\ \A i \in 1 .. Len(d), k \in 1 .. 4 :
       EndedBy(d[i]) = AfterName[k] => i - k \in VolumeLines(d)

\* No volume is named twice.  The monitor keeps an aggregate's volumes by name,
\* but never forgets one: a volume that was made again in another aggregate
\* stays in both.
NamedOnce(d) == \A i, j \in VolumeLines(d) : d[i].text = d[j].text => i = j
=============================================================================
