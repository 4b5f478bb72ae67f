----------------------------- MODULE CounterDoc -----------------------------
(***************************************************************************)
(* The counter document of a filer: what printToXML() of ontapmon.py makes *)
(* of the monitor's dictionaries, as the lines to_pretty_xml() lays out,   *)
(* and what the document means, stated without a parser.                   *)
(*                                                                         *)
(* The data of a filer are                                                 *)
(*   [aggrs   |-> sequence of [name, maxdiskb, volumes],                   *)
(*    domains |-> sequence of [name, dvalue]]                              *)
(* and volumes a sequence of [name, avglatency, availsize, availinodes].   *)
(***************************************************************************)
EXTENDS Integers, SequencesExt

CONSTANT Blank

Start(el)      == [tag |-> "start", el |-> el, text |-> Blank]
End(el)        == [tag |-> "end",   el |-> el, text |-> Blank]
Leaf(el, text) == [tag |-> "leaf",  el |-> el, text |-> text]
Decl           == [tag |-> "decl",  el |-> "none", text |-> Blank]

\* An element and its children; without children it is <el/>, on one line.
Node(el, children) ==
  IF children = << >> THEN <<Leaf(el, Blank)>>
  ELSE <<Start(el)>> \o FlattenSeq(children) \o <<End(el)>>

EachOf(seq, Op(_)) == [i \in DOMAIN seq |-> Op(seq[i])]

VolumeNode(v) ==
  Node("volume", << <<Leaf("name", v.name)>>,
                    <<Leaf("avglatency", v.avglatency)>>,
                    <<Leaf("availsize", v.availsize)>>,
                    <<Leaf("availinodes", v.availinodes)>> >>)

AggrNode(a) ==
  Node("other", << <<Leaf("name", a.name)>>,
                   <<Leaf("maxdiskb", a.maxdiskb)>>,
                   Node("other", EachOf(a.volumes, VolumeNode)) >>)

DomainNode(d) ==
  Node("other", << <<Leaf("name", d.name)>>, <<Leaf("value", d.dvalue)>> >>)

\* performance, filer, lastUpdated, ipaddresses, aggregates, domains.
Document(filer, data) ==
  <<Decl>> \o
  Node("other", << <<Leaf("filer", filer)>>,
                   <<Leaf("other", Blank)>>,
                   Node("other", << >>),
                   Node("other", EachOf(data.aggrs, AggrNode)),
                   Node("domains", EachOf(data.domains, DomainNode)) >>)
-----------------------------------------------------------------------------
(***************************************************************************)
(* What a reader is to make of the document.                               *)
(***************************************************************************)
VolumesOf(data) == UNION {{v.name : v \in Range(a.volumes)} : a \in Range(data.aggrs)}

\* The counters of each volume: its own, and the disk busy of its aggregate.
CountersOf(data) ==
  [n \in VolumesOf(data) |->
     LET a == CHOOSE b \in Range(data.aggrs) : \E v \in Range(b.volumes) : v.name = n
         v == CHOOSE w \in Range(a.volumes) : w.name = n
     IN [maxdiskb |-> a.maxdiskb, avglatency |-> v.avglatency,
         availsize |-> v.availsize, availinodes |-> v.availinodes]]

\* The domains in order, and nothing for those the document does not have.
DomainsOf(data, size) ==
  [i \in 0 .. size - 1 |-> IF i < Len(data.domains) THEN data.domains[i + 1].dvalue ELSE 0]
=============================================================================
