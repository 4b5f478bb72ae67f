------------------------------ MODULE FilerLoad ------------------------------
(***************************************************************************)
(* The run time of the scheduler plugin's sysntap.c: filer_load_ok(), the  *)
(* expiry of cached counters, the line-by-line parser that loads a filer's *)
(* counter document, and the two hash tables between them.  The monitor    *)
(* (ontapmon.py) that writes the documents is the environment.             *)
(*                                                                         *)
(* The plugin is single-threaded; what it interleaves with is the monitor  *)
(* and the clock.  A call of filer_load_ok() is a sequence of steps, one   *)
(* per turn of its loops and one per line of a document, with pc saying    *)
(* where it stands.  The parser's statics (depth, endelement, ftmp, ...)   *)
(* outlive the call, as they do in the code.                               *)
(*                                                                         *)
(* Memory is explicit: the tables hold pointers to objects, an object may  *)
(* be freed while a static still points to it, and using a null, freed or  *)
(* out-of-bounds location takes the process to pc = "undefined", of which  *)
(* nothing more is claimed.  An object no pointer reaches is reclaimed.    *)
(*                                                                         *)
(* Definitions called Mistaken... are not used: each is a plausible error  *)
(* in the definition below it, to show that the properties detect it.      *)
(***************************************************************************)
EXTENDS Thresholds, DocLines

CONSTANTS
  Filers,       \* names of filers
  Names,        \* names of volumes, aggregates and domains
  FsTags,       \* storage maps a job may name
  mounttab,     \* known storage map -> sequence of [filer, volname]
  policy,       \* the global load policy
  fptab,        \* filer -> LoadPolicy
  vptab,        \* <<filer, volume>> -> LoadPolicy
  XMLReread,    \* prms.xmlreread, in clock ticks
  Contains,     \* <<key, name>>: the string of the key contains name (strstr)
  Docs,         \* filer -> set of counter documents the monitor may write
  FilerObjs,    \* memory for struct filer
  VolumeObjs,   \* memory for struct filesystem
  Faults,       \* what may go wrong: "overlap", the monitor writes during a
                \* call; "calloc", no memory for an object; "entry", none for
                \* a table entry
  LastWrite,    \* bound: the monitor opens no file after this time
  MaxTime,      \* bound of the clock
  MaxDepth,     \* bound: no call is made once the parser's depth is beyond it
  NoFile,       \* a counter file that does not exist
  Freed,        \* the contents of freed or never allocated memory
  Blank         \* the text of an element that has none

Keys == Filers \X Names   \* of fstab: the string "filer:/vol/volume"

NumberElements == {"value", "maxdiskb", "avglatency", "availsize", "availinodes"}
Elements == NumberElements \cup {"filer", "name", "volume", "domains", "other", "none"}

\* "none" is the empty endelement, that of a line that ended no element.

\* A line of a document holds an XML declaration, a start tag, an end tag, or
\* an element with its text: to_pretty_xml() lays it out that way.
Text(el) == IF el = "filer" THEN Filers
            ELSE IF el = "name" THEN Names
            ELSE IF el \in NumberElements THEN Nat
            ELSE {Blank}
Line == {l \in [tag : {"decl", "start", "end", "leaf"}, el : Elements,
                text : Filers \cup Names \cup Nat \cup {Blank}] :
            l.tag \in {"end", "leaf"} => l.text \in Text(l.el)}

FilerRec   == [name : Filers, readTime : Nat, domains : [DomainIndex -> Nat]]
VolumeRec  == [volume : Names, ctr : [Counters -> Nat]]
Mount      == [filer : Filers, volname : Names]

ASSUME TablesAssumption ==
  /\ DOMAIN mounttab \subseteq FsTags
  /\ \A m \in DOMAIN mounttab : mounttab[m] \in Seq(Mount)
  /\ policy \in LoadPolicy
  /\ fptab \in [Filers -> LoadPolicy]
  /\ vptab \in [Keys -> LoadPolicy]
  /\ Contains \subseteq Keys \X Filers
  /\ \A f \in Filers, v \in Names : <<<<f, v>>, f>> \in Contains

ASSUME FaultsAssumption == Faults \subseteq {"overlap", "calloc", "entry"}

ASSUME BoundsAssumption ==
  XMLReread \in Nat /\ MaxTime \in Nat /\ LastWrite \in Nat /\ MaxDepth \in Nat

ASSUME SentinelAssumption ==
  /\ NULL \notin FilerObjs \cup VolumeObjs
  /\ Freed \notin FilerRec \cup VolumeRec
  /\ NoFile \notin Seq(Line)

\* What printToXML() writes: a declaration, the start of "performance", the
\* name of the filer, which occurs once, and then its counters.
Placed(f, line, i) ==
  /\ line.tag = "decl" <=> i = 1
  /\ i = 2 => line.tag = "start"
  /\ i = 3 => line.tag = "leaf" /\ line.text = f
  /\ line.el = "filer" <=> i = 3
  /\ line.el \in {"value", "domains"} => i > 3

\* A document that may be rewritten under the reader keeps its shape (the set
\* of volumes of the filer is fixed), so that a mixture of two cut at a line is
\* well formed too.
SameShape(c, d) ==
  /\ Len(c) = Len(d)
  /\ \A i \in 1 .. Len(d) : c[i].tag = d[i].tag /\ c[i].el = d[i].el

ASSUME DocsAssumption ==
  \A f \in Filers : \A d \in Docs[f] :
    /\ d \in Seq(Line)
    /\ \A i \in 1 .. Len(d) : Placed(f, d[i], i)
    /\ WholeDocument(d)
    /\ "overlap" \in Faults => \A c \in Docs[f] : SameShape(c, d)

VARIABLES
  now,          \* time(NULL)
  disk,         \* filer -> lines in the counter file, or NoFile
  writing,      \* filer -> lines the monitor has yet to write to it
  filertab,     \* filer -> pointer to a struct filer
  fstab,        \* key -> pointer to a struct filesystem
  fobj, vobj,   \* the memory these pointers point to
  depth, endelement, last_content, ftmp, vtmp, tmp_maxdiskb, dcnt,
  pc,           \* where the call of filer_load_ok() stands
  fstag,        \* its argument
  seconds,      \* the time it looked at the clock
  currp,        \* its position in the storage map's list
  pos,          \* lines read of the document being parsed
  mixed,        \* that document was rewritten after its first line was read
  cc            \* its result

envVars    == <<now, disk, writing>>
tableVars  == <<filertab, fstab>>
memVars    == <<fobj, vobj>>
parserVars == <<depth, endelement, last_content, ftmp, vtmp, tmp_maxdiskb, dcnt>>
callVars   == <<pc, fstag, seconds, currp, pos, mixed, cc>>
vars == <<envVars, tableVars, memVars, parserVars, callVars>>

PCs == {"idle", "expire", "check", "parse", "compare", "return", "undefined"}

vollist   == mounttab[fstag]
CurFiler  == vollist[currp].filer
CurKey    == <<vollist[currp].filer, vollist[currp].volname>>

Init ==
  /\ now = 0
  /\ disk = [f \in Filers |-> NoFile]
  /\ writing = [f \in Filers |-> << >>]
  /\ filertab = [f \in Filers |-> NULL]
  /\ fstab = [k \in Keys |-> NULL]
  /\ fobj = [o \in FilerObjs |-> Freed]
  /\ vobj = [o \in VolumeObjs |-> Freed]
  /\ depth = 0 /\ endelement = "none" /\ last_content = Blank
  /\ ftmp = NULL /\ vtmp = NULL /\ tmp_maxdiskb = 0 /\ dcnt = 0
  /\ pc = "idle" /\ fstag = NULL /\ seconds = 0 /\ currp = 1 /\ pos = 0
  /\ mixed = FALSE /\ cc = 0
-----------------------------------------------------------------------------
(***************************************************************************)
(* Memory.                                                                 *)
(***************************************************************************)
LiveFiler(p)  == p # NULL /\ fobj[p] # Freed
LiveVolume(p) == p # NULL /\ vobj[p] # Freed

UnusedFilers  == FilerObjs \ ({filertab[f] : f \in Filers} \cup {ftmp})
UnusedVolumes == VolumeObjs \ ({fstab[k] : k \in Keys} \cup {vtmp})

\* calloc() returns NULL when memory is exhausted, or when the run says so.
CallocMayFail(unused) == unused = {} \/ "calloc" \in Faults

\* hash_install(), whose result nobody looks at: a new entry needs memory, an
\* existing one is overwritten.
HashInstall(table, key, data) ==
  {[table EXCEPT ![key] = data]} \cup
  (IF "entry" \in Faults /\ table[key] = NULL THEN {table} ELSE {})
-----------------------------------------------------------------------------
(***************************************************************************)
(* filer_load_ok().                                                        *)
(***************************************************************************)
Return(result) == pc' = "return" /\ cc' = result

Undefined == pc' = "undefined" /\ UNCHANGED cc

\* Entry: look the storage map up and read the clock once.
Call(m) ==
  /\ pc = "idle" /\ depth <= MaxDepth
  /\ fstag' = m
  /\ IF m \in DOMAIN mounttab
       THEN pc' = "expire" /\ seconds' = now /\ UNCHANGED cc
       ELSE Return(-1) /\ UNCHANGED seconds
  /\ UNCHANGED <<envVars, tableVars, memVars, parserVars, currp, pos, mixed>>

\* The walk over the storage map's list.
MistakenRewind == UNCHANGED currp
Rewind == currp' = 1

MistakenAdvance == UNCHANGED currp
Advance == currp' = currp + 1

MistakenExpired(f) ==
  LiveFiler(filertab[f]) /\ seconds - fobj[filertab[f]].readTime > XMLReread + 1
MistakenOrderExpired(f) ==
  LiveFiler(filertab[f]) /\ fobj[filertab[f]].readTime - seconds > XMLReread
Expired(f) ==
  LiveFiler(filertab[f]) /\ seconds - fobj[filertab[f]].readTime > XMLReread

\* free_fs(name): every entry whose key contains the name.
MistakenKeysFreed(name) == {k \in Keys : fstab[k] # NULL}
KeysFreed(name) == {k \in Keys : <<k, name>> \in Contains /\ fstab[k] # NULL}

\* free_filer() and free_fs().
FreeFiler(f) ==
  /\ filertab' = [filertab EXCEPT ![f] = NULL]
  /\ fobj' = [fobj EXCEPT ![filertab[f]] = Freed]
  /\ fstab' = [k \in Keys |-> IF k \in KeysFreed(f) THEN NULL ELSE fstab[k]]
  /\ vobj' = [o \in VolumeObjs |->
                IF \E k \in KeysFreed(f) : fstab[k] = o THEN Freed ELSE vobj[o]]

\* One object freed twice by the same free_fs(), or once more after that.
DoubleFree(f) ==
  \E k \in KeysFreed(f) :
     \/ vobj[fstab[k]] = Freed
     \/ \E l \in KeysFreed(f) : l # k /\ fstab[l] = fstab[k]

\* A turn of the first loop: forget the filer if it was read too long ago.
ExpireNext ==
  /\ pc = "expire" /\ currp <= Len(vollist)
  /\ IF filertab[CurFiler] # NULL /\ ~LiveFiler(filertab[CurFiler])
       THEN Undefined /\ UNCHANGED <<tableVars, memVars, currp>>
     ELSE IF ~Expired(CurFiler)
       THEN Advance /\ UNCHANGED <<tableVars, memVars, pc, cc>>
     ELSE IF DoubleFree(CurFiler)
       THEN Undefined /\ UNCHANGED <<tableVars, memVars, currp>>
     ELSE FreeFiler(CurFiler) /\ Advance /\ UNCHANGED <<pc, cc>>
  /\ UNCHANGED <<envVars, parserVars, fstag, seconds, pos, mixed>>

ExpireDone ==
  /\ pc = "expire" /\ currp > Len(vollist)
  /\ pc' = "check" /\ Rewind
  /\ UNCHANGED <<envVars, tableVars, memVars, parserVars, fstag, seconds, pos, mixed, cc>>

\* The second loop at an entry whose filer is in the table.
CheckCached ==
  /\ pc = "check" /\ currp <= Len(vollist)
  /\ filertab[CurFiler] # NULL
  /\ pc' = "compare"
  /\ UNCHANGED <<envVars, tableVars, memVars, parserVars, fstag, seconds, currp, pos, mixed, cc>>

\* fopen() succeeds.
MistakenCanOpen(f) == TRUE
CanOpen(f) == disk[f] # NoFile

\* ... or not, or XML_ParserCreate() does not.
ParserMayFail(f) == ~CanOpen(f) \/ "calloc" \in Faults

MistakenFirstDomain == UNCHANGED dcnt
FirstDomain == dcnt' = 0

\* The second loop at an entry whose filer must be read: parse_ctrxml() opens
\* the document.
OpenDocument ==
  /\ pc = "check" /\ currp <= Len(vollist)
  /\ filertab[CurFiler] = NULL
  /\ \/ CanOpen(CurFiler) /\ pc' = "parse" /\ FirstDomain /\ UNCHANGED cc
     \/ ParserMayFail(CurFiler) /\ Return(-1) /\ UNCHANGED dcnt
  /\ pos' = 0 /\ mixed' = FALSE
  /\ UNCHANGED <<envVars, tableVars, memVars, depth, endelement, last_content,
                 ftmp, vtmp, tmp_maxdiskb, fstag, seconds, currp>>

Compare ==
  /\ pc = "compare"
  /\ LET f == filertab[CurFiler]
         v == fstab[CurKey]
         result == CompareThresholds(IF f = NULL THEN NULL ELSE fobj[f],
                                     IF v = NULL THEN NULL ELSE vobj[v],
                                     vptab[CurKey], fptab[CurFiler], policy)
         judged == f # NULL /\ ~DomainsExceed(fobj[f].domains, fptab[CurFiler], policy)
     IN IF \/ f # NULL /\ ~LiveFiler(f)
           \/ judged /\ v # NULL /\ ~LiveVolume(v)
          THEN Undefined /\ UNCHANGED currp
        ELSE IF result # 0
          THEN Return(result) /\ UNCHANGED currp
        ELSE pc' = "check" /\ Advance /\ UNCHANGED cc
  /\ UNCHANGED <<envVars, tableVars, memVars, parserVars, fstag, seconds, pos, mixed>>

CheckDone ==
  /\ pc = "check" /\ currp > Len(vollist)
  /\ Return(0)
  /\ UNCHANGED <<envVars, tableVars, memVars, parserVars, fstag, seconds, currp, pos, mixed>>

\* The caller takes the result; the locals of the call are gone.
Done ==
  /\ pc = "return"
  /\ pc' = "idle" /\ fstag' = NULL /\ seconds' = 0 /\ currp' = 1 /\ pos' = 0
  /\ mixed' = FALSE /\ cc' = 0
  /\ UNCHANGED <<envVars, tableVars, memVars, parserVars>>
-----------------------------------------------------------------------------
(***************************************************************************)
(* parse_ctrxml(): a line at a time, process_element() once per line.      *)
(***************************************************************************)

\* fgets() meets the end of the file.  What the file lacks is not an error:
\* expat is never told that the document is over.
EndOfFile ==
  /\ pc = "parse" /\ pos >= Len(disk[CurFiler])
  /\ pc' = "compare"
  /\ UNCHANGED <<envVars, tableVars, memVars, parserVars, fstag, seconds, currp, pos, mixed, cc>>

\* XML_Parse() fails.  With line-aligned documents of one shape that takes a
\* file rewritten under the reader, so that a line is torn in two.
ParseError ==
  /\ pc = "parse" /\ mixed
  /\ Return(-1)
  /\ UNCHANGED <<envVars, tableVars, memVars, parserVars, fstag, seconds, currp, pos, mixed>>

\* start_handler(): depth and endelement.  end_handler(): the same, and the
\* text.  A declaration reaches neither handler.
Handlers(line) ==
  /\ depth' = depth + (IF line.tag = "start" THEN 1 ELSE IF line.tag = "end" THEN -1 ELSE 0)
  /\ endelement' = IF line.tag = "decl" THEN endelement ELSE EndedBy(line)
  /\ last_content' = IF line.tag \in {"decl", "start"} THEN last_content ELSE line.text

MistakenReadTime == 0
ReadTime == now

\* <filer>: a new object, stamped with the time of reading.
NewFiler(el, text) ==
  /\ el = "filer"
  /\ \/ /\ UnusedFilers # {}
        /\ ftmp' = CHOOSE p \in UnusedFilers : TRUE
        /\ fobj' = [p \in FilerObjs |->
             IF p = ftmp' THEN [name |-> text, readTime |-> ReadTime,
                                domains |-> [i \in DomainIndex |-> 0]]
             ELSE IF \E f \in Filers : filertab[f] = p THEN fobj[p] ELSE Freed]
        /\ UNCHANGED <<pc, cc>>
     \/ CallocMayFail(UnusedFilers) /\ ftmp' = NULL /\ Return(-1) /\ UNCHANGED fobj
  /\ UNCHANGED <<tableVars, vobj, vtmp, tmp_maxdiskb, dcnt>>

MistakenNextDomain == UNCHANGED dcnt
NextDomain == dcnt' = dcnt + 1

\* <value>: the next domain of the filer.
DomainValue(el, text) ==
  /\ el = "value"
  /\ IF LiveFiler(ftmp) /\ dcnt \in DomainIndex
       THEN /\ fobj' = [fobj EXCEPT ![ftmp].domains[dcnt] = text]
            /\ NextDomain
            /\ UNCHANGED <<pc, cc>>
       ELSE Undefined /\ UNCHANGED <<fobj, dcnt>>
  /\ UNCHANGED <<tableVars, vobj, ftmp, vtmp, tmp_maxdiskb>>

\* <name> at the depth of a volume's name: a new object.
NewVolume(el, text) ==
  /\ el = "name" /\ depth' = 5
  /\ \/ /\ UnusedVolumes # {}
        /\ vtmp' = CHOOSE p \in UnusedVolumes : TRUE
        /\ vobj' = [p \in VolumeObjs |->
             IF p = vtmp' THEN [volume |-> text,
                                ctr |-> [c \in Counters |-> IF c = "maxdiskb" THEN tmp_maxdiskb ELSE 0]]
             ELSE IF \E k \in Keys : fstab[k] = p THEN vobj[p] ELSE Freed]
        /\ UNCHANGED <<pc, cc>>
     \/ CallocMayFail(UnusedVolumes) /\ vtmp' = NULL /\ Return(-1) /\ UNCHANGED vobj
  /\ UNCHANGED <<tableVars, fobj, ftmp, tmp_maxdiskb, dcnt>>

\* <maxdiskb>: kept for the volumes of the aggregate that follow.
AggrDiskBusy(el, text) ==
  /\ el = "maxdiskb"
  /\ tmp_maxdiskb' = text
  /\ UNCHANGED <<tableVars, memVars, ftmp, vtmp, dcnt, pc, cc>>

\* <avglatency>, <availsize>, <availinodes>.
VolumeCounter(el, text) ==
  /\ el \in {"avglatency", "availsize", "availinodes"}
  /\ IF LiveVolume(vtmp)
       THEN /\ vobj' = [vobj EXCEPT ![vtmp].ctr[el] = text]
            /\ UNCHANGED <<pc, cc>>
       ELSE Undefined /\ UNCHANGED vobj
  /\ UNCHANGED <<tableVars, fobj, ftmp, vtmp, tmp_maxdiskb, dcnt>>

\* </domains>: the filer becomes visible.
InstallFiler(el) ==
  /\ el = "domains"
  /\ IF LiveFiler(ftmp)
       THEN filertab' \in HashInstall(filertab, fobj[ftmp].name, ftmp) /\ UNCHANGED <<pc, cc>>
       ELSE Undefined /\ UNCHANGED filertab
  /\ UNCHANGED <<fstab, memVars, ftmp, vtmp, tmp_maxdiskb, dcnt>>

\* </volume>: the volume becomes visible.
InstallVolume(el) ==
  /\ el = "volume"
  /\ IF LiveFiler(ftmp) /\ LiveVolume(vtmp)
       THEN /\ fstab' \in HashInstall(fstab, <<fobj[ftmp].name, vobj[vtmp].volume>>, vtmp)
            /\ UNCHANGED <<pc, cc>>
       ELSE Undefined /\ UNCHANGED fstab
  /\ UNCHANGED <<filertab, memVars, ftmp, vtmp, tmp_maxdiskb, dcnt>>

\* Every other element, a name elsewhere, and a line that ended none.
NoElement(el) ==
  /\ el \in {"other", "none"} \/ (el = "name" /\ depth' # 5)
  /\ UNCHANGED <<tableVars, memVars, ftmp, vtmp, tmp_maxdiskb, dcnt, pc, cc>>

ProcessElement(el, text) ==
  \/ NewFiler(el, text)
  \/ DomainValue(el, text)
  \/ NewVolume(el, text)
  \/ AggrDiskBusy(el, text)
  \/ VolumeCounter(el, text)
  \/ InstallFiler(el)
  \/ InstallVolume(el)
  \/ NoElement(el)

ParseLine ==
  /\ pc = "parse" /\ pos < Len(disk[CurFiler])
  /\ Handlers(disk[CurFiler][pos + 1])
  /\ pos' = pos + 1
  /\ ProcessElement(endelement', last_content')
  /\ UNCHANGED <<envVars, fstag, seconds, currp, mixed>>
-----------------------------------------------------------------------------
(***************************************************************************)
(* The environment: the clock, and printToXML() of the monitor.  Unless    *)
(* "overlap" is among the faults a document is written between two calls   *)
(* and at once.                                                            *)
(***************************************************************************)
Tick ==
  /\ now < MaxTime
  /\ now' = now + 1
  /\ UNCHANGED <<disk, writing, tableVars, memVars, parserVars, callVars>>

Publish(f) ==
  /\ pc = "idle" /\ now <= LastWrite /\ writing[f] = << >>
  /\ \E d \in Docs[f] : disk' = [disk EXCEPT ![f] = d]
  /\ UNCHANGED <<now, writing, tableVars, memVars, parserVars, callVars>>

\* open(fname, "w") truncates the file before a line is written.
OpenForWrite(f) ==
  /\ "overlap" \in Faults /\ now <= LastWrite
  /\ writing[f] = << >>
  /\ \E d \in Docs[f] : writing' = [writing EXCEPT ![f] = d]
  /\ disk' = [disk EXCEPT ![f] = << >>]
  /\ mixed' = (mixed \/ (pc = "parse" /\ f = CurFiler /\ pos > 0))
  /\ UNCHANGED <<now, tableVars, memVars, parserVars, pc, fstag, seconds, currp, pos, cc>>

\* write(2) by the block.
WriteLines(f) ==
  /\ \E n \in 1 .. Len(writing[f]) :
       /\ disk' = [disk EXCEPT ![f] = @ \o SubSeq(writing[f], 1, n)]
       /\ writing' = [writing EXCEPT ![f] = SubSeq(@, n + 1, Len(@))]
  /\ UNCHANGED <<now, tableVars, memVars, parserVars, callVars>>

\* The write fails or the monitor dies: the file stays as it is.
WriteFails(f) ==
  /\ writing[f] # << >>
  /\ writing' = [writing EXCEPT ![f] = << >>]
  /\ UNCHANGED <<now, disk, tableVars, memVars, parserVars, callVars>>

Monitor == \E f \in Filers : Publish(f) \/ OpenForWrite(f) \/ WriteLines(f) \/ WriteFails(f)

\* What a call does once it is made.
Step ==
  \/ ExpireNext \/ ExpireDone
  \/ CheckCached \/ OpenDocument \/ Compare \/ CheckDone
  \/ EndOfFile \/ ParseError \/ ParseLine

Next ==
  \/ \E m \in FsTags : Call(m)
  \/ Step
  \/ Done
  \/ Tick
  \/ Monitor

Spec == Init /\ [][Next]_vars

\* The scheduler runs the plugin and the clock runs.  Nothing obliges the
\* monitor to write.
FairSpec ==
  /\ Spec
  /\ WF_vars(Step) /\ WF_vars(Done) /\ WF_vars(Tick)
-----------------------------------------------------------------------------
EnvOK ==
  /\ now \in Nat
  /\ disk \in [Filers -> Seq(Line) \cup {NoFile}]
  /\ writing \in [Filers -> Seq(Line)]
  /\ \A f \in Filers : writing[f] # << >> => disk[f] # NoFile

TablesOK ==
  /\ filertab \in [Filers -> FilerObjs \cup {NULL}]
  /\ fstab \in [Keys -> VolumeObjs \cup {NULL}]
  /\ fobj \in [FilerObjs -> FilerRec \cup {Freed}]
  /\ vobj \in [VolumeObjs -> VolumeRec \cup {Freed}]

ParserOK ==
  /\ depth \in Int
  /\ endelement \in Elements
  /\ endelement # "none" => last_content \in Text(endelement)
  /\ ftmp \in FilerObjs \cup {NULL}
  /\ vtmp \in VolumeObjs \cup {NULL}
  /\ tmp_maxdiskb \in Nat
  /\ dcnt \in 0 .. DomainSize

CallOK ==
  /\ pc \in PCs
  /\ fstag \in FsTags \cup {NULL}
  /\ seconds \in Nat
  /\ currp \in Nat \ {0}
  /\ pos \in Nat
  /\ mixed \in BOOLEAN
  /\ cc \in {-1, 0, 1}
  /\ pc \in {"expire", "check", "parse", "compare"} => fstag \in DOMAIN mounttab
  /\ pc \in {"parse", "compare"} => currp <= Len(vollist)

\* A file that is there stays there: what is being parsed is a document.
ParsesFile == pc = "parse" => disk[CurFiler] # NoFile

TypeOK == EnvOK /\ TablesOK /\ ParserOK /\ CallOK /\ ParsesFile
-----------------------------------------------------------------------------
\* compare_thresholds() never judges counters that were read longer ago than
\* XMLReread when the call looked at the clock: the expiry loop of
\* filer_load_ok() leaves no such entry among the filers of the storage map,
\* and no parse of the call, torn or not, puts one back.
Fresh(f) ==
  LiveFiler(filertab[f]) => seconds - fobj[filertab[f]].readTime <= XMLReread

FreshWhenCompared == pc = "compare" => Fresh(CurFiler)

\* Why: an inductive invariant that implies it.  What the files hold is placed
\* as printToXML() places it, cut short or not ...
DocumentsPlaced ==
  \A f \in Filers : disk[f] # NoFile =>
    /\ \A i \in 1 .. Len(disk[f]) : Placed(f, disk[f][i], i)
    /\ \A i \in 1 .. Len(writing[f]) : Placed(f, writing[f][i], Len(disk[f]) + i)

\* ... so the filer a parse is about to install is one it made itself, after
\* the call looked at the clock, unless a line that ends no element makes
\* process_element() install the filer of an earlier document once more, which
\* then is still in the table or freed.
ParsedFilerNew ==
  /\ pc = "parse" /\ pos >= 3 /\ LiveFiler(ftmp) => fobj[ftmp].readTime >= seconds
  /\ endelement = "domains" /\ LiveFiler(ftmp) => filertab[fobj[ftmp].name] = ftmp

\* The expiry loop has dealt with the entries it has passed.
ListFresh ==
  /\ pc = "idle" => currp = 1
  /\ pc \in {"expire", "check", "parse", "compare"} => seconds <= now
  /\ pc = "expire" =>
       \A i \in 1 .. Len(vollist) : i < currp => Fresh(vollist[i].filer)
  /\ pc \in {"check", "parse", "compare"} =>
       \A i \in 1 .. Len(vollist) : Fresh(vollist[i].filer)

FreshInv == TypeOK /\ DocumentsPlaced /\ ParsedFilerNew /\ ListFresh
-----------------------------------------------------------------------------
\* No call reads or writes through a null or freed pointer, frees an object
\* twice, or stores a domain outside filer.domains: the statics the parser
\* keeps from one document to the next are always what the next one needs.
NoUndefinedUse == pc # "undefined"

\* filer_load_ok() answers 0 only when every volume of the storage map is, at
\* that moment, in the tables and within its thresholds, and 1 only when one
\* is over them: later parses of the same call disturb no earlier verdict, as
\* long as documents are read whole (a torn one leaves depth off, and the next
\* filer's counters may then be stored in the volume read last).
Verdict(m) == CompareThresholds(
                IF filertab[m.filer] = NULL THEN NULL ELSE fobj[filertab[m.filer]],
                IF fstab[<<m.filer, m.volname>>] = NULL THEN NULL
                  ELSE vobj[fstab[<<m.filer, m.volname>>]],
                vptab[<<m.filer, m.volname>>], fptab[m.filer], policy)
AnswerMatchesTables ==
  pc = "return" /\ fstag \in DOMAIN mounttab =>
     /\ cc = 0 => \A i \in DOMAIN vollist : Verdict(vollist[i]) = 0
     /\ cc = 1 => \E i \in DOMAIN vollist : Verdict(vollist[i]) = 1

\* Outside a parse, a filer in the table comes with all the volumes of one and
\* the same document, with the counters and the domains that document gives:
\* the line-at-a-time parser reads what printToXML() wrote, expiry takes a
\* filer together with its volumes, and no document is seen in part.
VolumeAsSaid(f, d, i) ==
  LET v == fstab[<<f, d[i].text>>] IN
  LiveVolume(v) /\ vobj[v] = [volume |-> d[i].text, ctr |-> CountersSaid(d, i)]
Mirrors(f, d) ==
  /\ fobj[filertab[f]].name = f
  /\ fobj[filertab[f]].domains = DomainsSaid(d, Len(d), DomainSize)
  /\ \A i \in VolumeLines(d) : VolumeAsSaid(f, d, i)
TablesMirrorDocument ==
  pc # "parse" => \A f \in Filers : filertab[f] # NULL => \E d \in Docs[f] : Mirrors(f, d)

\* A volume leaves fstab only when the filer it is on leaves filertab:
\* free_fs() "frees all items in fstab hash table/linked list associated with
\* name" and no others.
EvictedWithFiler ==
  [][\A k \in Keys : fstab[k] # NULL /\ fstab'[k] = NULL => filertab'[k[1]] = NULL]_vars
-----------------------------------------------------------------------------
(***************************************************************************)
(* Why: what holds when the monitor writes between calls and memory is     *)
(* enough for everything that the documents speak of.                      *)
(***************************************************************************)
DocKeys == {k \in Keys : \E d \in Docs[k[1]] : \E i \in VolumeLines(d) : d[i].text = k[2]}

EnoughMemory ==
  /\ IsFiniteSet(Filers) /\ IsFiniteSet(FilerObjs)
  /\ Cardinality(FilerObjs) > Cardinality(Filers) + 1
  /\ IsFiniteSet(DocKeys) /\ IsFiniteSet(VolumeObjs)
  /\ Cardinality(VolumeObjs) > Cardinality(DocKeys) + 1

\* No document has more domains than filer.domains has room for.
DomainsFit ==
  \A f \in Filers : \A d \in Docs[f] : Cardinality(Lines(d, Len(d), "value")) <= DomainSize

\* No filer's name occurs in the keys of another's volumes.
NamesApart == \A k \in Keys, f \in Filers : <<k, f>> \in Contains => k[1] = f

\* No volume was made again in another aggregate.
VolumesNamedOnce == \A f \in Filers : \A d \in Docs[f] : NamedOnce(d)

WholeFiles ==
  /\ \A f \in Filers : disk[f] \in Docs[f] \cup {NoFile} /\ writing[f] = << >>
  /\ ~mixed

\* A document leaves the parser as it was before, as far as that matters.
AtRest == pc # "parse" => depth = 0 /\ endelement \in {"none", "other"}

\* The tables hold what they say they hold, and no volume under two keys.
FilersLive ==
  \A f \in Filers : filertab[f] # NULL =>
    LiveFiler(filertab[f]) /\ fobj[filertab[f]].name = f
VolumesLive ==
  \A k \in Keys : fstab[k] # NULL =>
    /\ k \in DocKeys /\ LiveVolume(fstab[k]) /\ vobj[fstab[k]].volume = k[2]
    /\ \A l \in Keys : fstab[l] = fstab[k] => l = k
TablesLive == FilersLive /\ VolumesLive

\* After pos lines of a document, the statics hold what these lines say of the
\* filer and of the volume they are about.
FilerInWork(d) ==
  /\ filertab[CurFiler] \in {NULL, ftmp}
  /\ pos < 3 => filertab[CurFiler] = NULL
  /\ pos >= 3 => /\ LiveFiler(ftmp) /\ fobj[ftmp].name = CurFiler
                 /\ fobj[ftmp].domains = DomainsSaid(d, pos, DomainSize)
VolumeInWork(d, i) ==
  /\ LiveVolume(vtmp) /\ \A k \in Keys : fstab[k] # vtmp
  /\ vobj[vtmp].volume = d[i].text
  /\ vobj[vtmp].ctr["maxdiskb"] = d[LastLine(d, i, "maxdiskb")].text
  /\ \A k \in 1 .. 3 : i + k <= pos => vobj[vtmp].ctr[AfterName[k]] = d[i + k].text
InDocument ==
  pc = "parse" =>
    LET d == disk[CurFiler] IN
    /\ pos <= Len(d) /\ depth = Level(d, pos)
    /\ IF pos <= 1 THEN endelement \in {"none", "other"} ELSE endelement = EndedBy(d[pos])
    /\ dcnt = Cardinality(Lines(d, pos, "value"))
    /\ Lines(d, pos, "maxdiskb") # {} => tmp_maxdiskb = d[LastLine(d, pos, "maxdiskb")].text
    /\ FilerInWork(d)
    /\ \A i \in VolumeLines(d) : i <= pos /\ pos < i + 4 => VolumeInWork(d, i)

\* The entries of the list that were judged were found in order, and a document
\* that is read now is about another filer.
JudgedStands ==
  pc \in {"check", "parse", "compare"} =>
    \A i \in DOMAIN vollist : i < currp =>
      /\ Verdict(vollist[i]) = 0
      /\ pc = "parse" => vollist[i].filer # CurFiler

CacheInv ==
  /\ TypeOK /\ WholeFiles /\ AtRest /\ TablesLive /\ InDocument /\ JudgedStands
  /\ NoUndefinedUse /\ AnswerMatchesTables

\* With memory for the entries of the tables as well, the volumes that were read
\* are in fstab and the filer in filertab, and the other filers are as they were.
ReadSoFar ==
  pc = "parse" =>
    LET d == disk[CurFiler] IN
    /\ Lines(d, pos, "domains") # {} => filertab[CurFiler] = ftmp
    /\ \A i \in VolumeLines(d) : i + 4 <= pos => VolumeAsSaid(CurFiler, d, i)
OthersMirror ==
  \A f \in Filers : filertab[f] # NULL /\ ~(pc = "parse" /\ f = CurFiler) =>
    \E d \in Docs[f] : Mirrors(f, d)

MirrorInv == CacheInv /\ ReadSoFar /\ OthersMirror
=============================================================================
