--------------------------- MODULE FilerLoadProofs ---------------------------
(***************************************************************************)
(* Theorems about FilerLoad for every set of filers, volumes and documents *)
(* and every bound: the types, the age of the counters that are judged,    *)
(* and, where the documents are whole and memory is enough, that the       *)
(* tables hold what the documents say.                                     *)
(***************************************************************************)
EXTENDS FilerLoad, FiniteSetTheorems, TLAPS

\* In a call, the list it walks is a sequence of filers and volumes.
LEMMA ListTyped ==
  ASSUME CallOK, pc \in {"expire", "check", "parse", "compare"}
  PROVE  /\ vollist \in Seq(Mount)
         /\ \A i \in 1 .. Len(vollist) : vollist[i].filer \in Filers
  <1>1. fstag \in DOMAIN mounttab
    BY DEF CallOK
  <1>2. vollist \in Seq(Mount)
    BY <1>1, TablesAssumption DEF vollist
  <1>3. \A i \in 1 .. Len(vollist) : vollist[i] \in Mount
    BY <1>2
  <1>4. \A x \in Mount : x.filer \in Filers
    BY DEF Mount
  <1> QED BY <1>2, <1>3, <1>4

LEMMA CurTyped ==
  ASSUME CallOK, pc \in {"parse", "compare"}
  PROVE  currp \in 1 .. Len(vollist) /\ CurFiler \in Filers
  <1>1. vollist \in Seq(Mount)
    BY ListTyped
  <1>2. currp \in 1 .. Len(vollist)
    BY <1>1 DEF CallOK
  <1> QED BY <1>2, ListTyped DEF CurFiler

\* The line the parser is about to read is a line.
LEMMA LineTyped ==
  ASSUME TypeOK, pc = "parse", pos < Len(disk[CurFiler])
  PROVE  /\ disk[CurFiler] \in Seq(Line)
         /\ pos + 1 \in 1 .. Len(disk[CurFiler])
         /\ disk[CurFiler][pos + 1] \in Line
  <1>1. disk[CurFiler] \in Seq(Line)
    BY CurTyped DEF TypeOK, EnvOK, ParsesFile
  <1>2. pos + 1 \in 1 .. Len(disk[CurFiler])
    BY <1>1 DEF TypeOK, CallOK
  <1> QED BY <1>1, <1>2

\* What a step leaves alone keeps its type.
LEMMA Unchanged ==
  /\ EnvOK /\ UNCHANGED envVars => EnvOK'
  /\ TablesOK /\ UNCHANGED <<tableVars, memVars>> => TablesOK'
  /\ ParserOK /\ UNCHANGED parserVars => ParserOK'
  /\ CallOK /\ UNCHANGED callVars => CallOK'
  <1>1. EnvOK /\ UNCHANGED envVars => EnvOK'
    BY DEF EnvOK, envVars
  <1>2. TablesOK /\ UNCHANGED <<tableVars, memVars>> => TablesOK'
    BY DEF TablesOK, tableVars, memVars
  <1>3. ParserOK /\ UNCHANGED parserVars => ParserOK'
    BY DEF ParserOK, parserVars
  <1>4. CallOK /\ UNCHANGED callVars => CallOK'
    BY DEF CallOK, callVars, vollist
  <1> QED BY <1>1, <1>2, <1>3, <1>4

LEMMA TypeInit == Init => TypeOK
  <1> SUFFICES ASSUME Init PROVE TypeOK
    OBVIOUS
  <1>1. EnvOK
    <2>1. /\ now = 0 /\ disk = [f \in Filers |-> NoFile]
          /\ writing = [f \in Filers |-> << >>]
      BY DEF Init
    <2>2. << >> \in Seq(Line)
      OBVIOUS
    <2> QED BY <2>1, <2>2 DEF EnvOK
  <1>2. TablesOK
    <2>1. /\ filertab = [f \in Filers |-> NULL] /\ fstab = [k \in Keys |-> NULL]
          /\ fobj = [o \in FilerObjs |-> Freed] /\ vobj = [o \in VolumeObjs |-> Freed]
      BY DEF Init
    <2> QED BY <2>1 DEF TablesOK
  <1>3. ParserOK
    <2>1. /\ depth = 0 /\ endelement = "none" /\ ftmp = NULL /\ vtmp = NULL
          /\ tmp_maxdiskb = 0 /\ dcnt = 0
      BY DEF Init
    <2> QED BY <2>1, DomainSizeAssumption DEF ParserOK, Elements
  <1>4. CallOK
    <2>1. /\ pc = "idle" /\ fstag = NULL /\ seconds = 0 /\ currp = 1 /\ pos = 0
          /\ mixed = FALSE /\ cc = 0
      BY DEF Init
    <2>2. mixed \in BOOLEAN
      BY <2>1
    <2> QED BY <2>1, <2>2 DEF CallOK, PCs
  <1>5. ParsesFile
    BY DEF Init, ParsesFile
  <1> QED BY <1>1, <1>2, <1>3, <1>4, <1>5 DEF TypeOK

LEMMA TypeCall ==
  ASSUME TypeOK, NEW m \in FsTags, Call(m)
  PROVE  TypeOK'
  <1>1. EnvOK' /\ TablesOK' /\ ParserOK'
    BY Unchanged DEF Call, TypeOK
  <1>2. CallOK' /\ ParsesFile'
    BY DEF TypeOK, EnvOK, CallOK, ParsesFile, Call, Return, PCs
  <1> QED BY <1>1, <1>2 DEF TypeOK

LEMMA TypeExpireNext ==
  ASSUME TypeOK, ExpireNext
  PROVE  TypeOK'
  <1>1. EnvOK' /\ ParserOK'
    BY Unchanged DEF ExpireNext, TypeOK
  <1>2. CallOK' /\ ParsesFile'
    BY DEF TypeOK, CallOK, ParsesFile, ExpireNext, Undefined, Advance, PCs, vollist
  <1>3. TablesOK'
    <2>1. CASE UNCHANGED <<tableVars, memVars>>
      BY <2>1, Unchanged DEF TypeOK
    <2>2. CASE FreeFiler(CurFiler)
      BY <2>2 DEF TypeOK, TablesOK, FreeFiler
    <2> QED BY <2>1, <2>2 DEF ExpireNext
  <1> QED BY <1>1, <1>2, <1>3 DEF TypeOK

\* The steps of the second loop, and the ends of a parse and of a call.
LEMMA TypeLoop ==
  ASSUME TypeOK,
         ExpireDone \/ CheckCached \/ CheckDone \/ EndOfFile \/ ParseError \/ Done
  PROVE  TypeOK'
  <1>1. EnvOK' /\ TablesOK' /\ ParserOK'
    BY Unchanged DEF TypeOK, ExpireDone, CheckCached, CheckDone, EndOfFile, ParseError, Done
  <1>2. CASE ExpireDone
    BY <1>1, <1>2 DEF TypeOK, CallOK, ParsesFile, ExpireDone, Rewind, PCs, vollist
  <1>3. CASE CheckCached
    BY <1>1, <1>3 DEF TypeOK, CallOK, ParsesFile, CheckCached, PCs, vollist
  <1>4. CASE CheckDone
    BY <1>1, <1>4 DEF TypeOK, CallOK, ParsesFile, CheckDone, Return, PCs, vollist
  <1>5. CASE EndOfFile
    BY <1>1, <1>5 DEF TypeOK, CallOK, ParsesFile, EndOfFile, PCs, vollist
  <1>6. CASE ParseError
    BY <1>1, <1>6 DEF TypeOK, CallOK, ParsesFile, ParseError, Return, PCs, vollist
  <1>7. CASE Done
    <2>1. /\ pc' = "idle" /\ fstag' = NULL /\ seconds' = 0 /\ currp' = 1 /\ pos' = 0
          /\ mixed' = FALSE /\ cc' = 0
      BY <1>7 DEF Done
    <2>2. mixed' \in BOOLEAN
      BY <2>1
    <2> QED BY <1>1, <2>1, <2>2 DEF TypeOK, CallOK, ParsesFile, PCs
  <1> QED BY <1>2, <1>3, <1>4, <1>5, <1>6, <1>7

LEMMA TypeOpen ==
  ASSUME TypeOK, OpenDocument
  PROVE  TypeOK'
  <1>1. EnvOK' /\ TablesOK'
    BY Unchanged DEF TypeOK, OpenDocument
  <1>2. ParserOK'
    <2>1. dcnt' = dcnt \/ dcnt' = 0
      BY DEF OpenDocument, FirstDomain
    <2>2. UNCHANGED <<depth, endelement, last_content, ftmp, vtmp, tmp_maxdiskb>>
      BY DEF OpenDocument
    <2> QED BY <2>1, <2>2, DomainSizeAssumption DEF TypeOK, ParserOK
  <1>3. CallOK' /\ ParsesFile'
    BY DEF TypeOK, CallOK, ParsesFile, OpenDocument, CanOpen, Return, PCs, vollist, CurFiler, envVars
  <1> QED BY <1>1, <1>2, <1>3 DEF TypeOK

LEMMA TypeCompare ==
  ASSUME TypeOK, Compare
  PROVE  TypeOK'
  <1>1. EnvOK' /\ TablesOK' /\ ParserOK'
    BY Unchanged DEF TypeOK, Compare
  <1>2. \A f, v, vpo, fpo, pol : CompareThresholds(f, v, vpo, fpo, pol) \in {-1, 0, 1}
    BY DEF CompareThresholds
  <1>3. CallOK' /\ ParsesFile'
    BY <1>2 DEF TypeOK, CallOK, ParsesFile, Compare, Return, Undefined, Advance, PCs, vollist
  <1> QED BY <1>1, <1>3 DEF TypeOK

\* What the handlers of a line leave for process_element().
LEMMA HandlersTyped ==
  ASSUME TypeOK, ParseLine
  PROVE  /\ depth' \in Int
         /\ endelement' \in Elements
         /\ endelement' # "none" => last_content' \in Text(endelement')
  <1> DEFINE line == disk[CurFiler][pos + 1]
  <1>1. line \in Line
    BY LineTyped DEF ParseLine
  <1>2. Handlers(line)
    BY DEF ParseLine
  <1>3. /\ line.tag \in {"decl", "start", "end", "leaf"}
        /\ line.el \in Elements
        /\ line.tag \in {"end", "leaf"} => line.text \in Text(line.el)
    BY <1>1 DEF Line
  <1> HIDE DEF line
  <1>4. depth' \in Int
    BY <1>2 DEF Handlers, TypeOK, ParserOK
  <1>5. CASE line.tag = "decl"
    BY <1>2, <1>4, <1>5 DEF Handlers, TypeOK, ParserOK
  <1>6. CASE line.tag = "start"
    BY <1>2, <1>4, <1>6 DEF Handlers, Elements, EndedBy
  <1>7. CASE line.tag \in {"end", "leaf"}
    BY <1>2, <1>3, <1>4, <1>7 DEF Handlers, EndedBy
  <1> QED BY <1>3, <1>5, <1>6, <1>7

\* The objects process_element() makes.
LEMMA NewFilerTyped ==
  ASSUME NEW n \in Filers, NEW t \in Nat
  PROVE  [name |-> n, readTime |-> t, domains |-> [i \in DomainIndex |-> 0]] \in FilerRec
  BY DEF FilerRec

LEMMA NewVolumeTyped ==
  ASSUME NEW n \in Names, NEW b \in Nat
  PROVE  [volume |-> n, ctr |-> [c \in Counters |-> IF c = "maxdiskb" THEN b ELSE 0]] \in VolumeRec
  BY DEF VolumeRec

LEMMA TypeElement ==
  ASSUME TypeOK, ParseLine
  PROVE  /\ TablesOK'
         /\ ftmp' \in FilerObjs \cup {NULL}
         /\ vtmp' \in VolumeObjs \cup {NULL}
         /\ tmp_maxdiskb' \in Nat
         /\ dcnt' \in 0 .. DomainSize
         /\ pc' \in {"parse", "return", "undefined"}
         /\ cc' \in {-1, 0, 1}
  <1> DEFINE el == endelement'
             text == last_content'
  <1>1. el \in Elements /\ (el # "none" => text \in Text(el))
    BY HandlersTyped
  <1>2. ProcessElement(el, text) /\ pc = "parse"
    BY DEF ParseLine
  <1>3. /\ TablesOK
        /\ now \in Nat
        /\ ftmp \in FilerObjs \cup {NULL} /\ vtmp \in VolumeObjs \cup {NULL}
        /\ tmp_maxdiskb \in Nat /\ dcnt \in 0 .. DomainSize /\ cc \in {-1, 0, 1}
    BY DEF TypeOK, EnvOK, ParserOK, CallOK
  <1> HIDE DEF el, text
  <1>4. CASE NewFiler(el, text)
    <2>1. text \in Filers
      BY <1>1, <1>4 DEF NewFiler, Text
    <2>2. UNCHANGED <<tableVars, vobj, vtmp, tmp_maxdiskb, dcnt>>
      BY <1>4 DEF NewFiler
    <2>3. CASE ftmp' = NULL /\ Return(-1) /\ UNCHANGED fobj
      BY <1>2, <1>3, <2>2, <2>3 DEF TablesOK, tableVars, Return
    <2>4. CASE ~(ftmp' = NULL /\ Return(-1) /\ UNCHANGED fobj)
      <3> DEFINE new == [name |-> text, readTime |-> now, domains |-> [i \in DomainIndex |-> 0]]
      <3>1. ftmp' \in FilerObjs
        BY <1>4, <2>4 DEF NewFiler, UnusedFilers
      <3>2. fobj' = [p \in FilerObjs |->
              IF p = ftmp' THEN new
              ELSE IF \E f \in Filers : filertab[f] = p THEN fobj[p] ELSE Freed]
        BY <1>4, <2>4 DEF NewFiler, ReadTime
      <3>3. new \in FilerRec
        BY <1>3, <2>1, NewFilerTyped
      <3> HIDE DEF new
      <3>4. fobj' \in [FilerObjs -> FilerRec \cup {Freed}]
        BY <1>3, <3>2, <3>3 DEF TablesOK
      <3>5. UNCHANGED <<pc, cc>>
        BY <1>4, <2>4 DEF NewFiler
      <3>6. TablesOK'
        BY <1>3, <2>2, <3>4 DEF TablesOK, tableVars
      <3> QED BY <1>2, <1>3, <2>2, <3>1, <3>5, <3>6
    <2> QED BY <2>3, <2>4
  <1>5. CASE DomainValue(el, text)
    <2>1. text \in Nat
      BY <1>1, <1>5 DEF DomainValue, Text, NumberElements
    <2>2. CASE UNCHANGED <<fobj, dcnt>>
      BY <1>2, <1>3, <1>5, <2>2 DEF DomainValue, TablesOK, tableVars, Undefined
    <2>3. CASE LiveFiler(ftmp) /\ dcnt \in DomainIndex
      <3>1. fobj' \in [FilerObjs -> FilerRec \cup {Freed}]
        BY <1>3, <1>5, <2>1, <2>3 DEF DomainValue, TablesOK, FilerRec, LiveFiler
      <3>2. dcnt' \in 0 .. DomainSize
        BY <1>5, <2>3, DomainSizeAssumption DEF DomainValue, DomainIndex, NextDomain
      <3> QED BY <1>2, <1>3, <1>5, <2>3, <3>1, <3>2 DEF DomainValue, TablesOK, tableVars
    <2> QED BY <1>5, <2>2, <2>3 DEF DomainValue
  <1>6. CASE NewVolume(el, text)
    <2>1. text \in Names
      BY <1>1, <1>6 DEF NewVolume, Text
    <2>2. UNCHANGED <<tableVars, fobj, ftmp, tmp_maxdiskb, dcnt>>
      BY <1>6 DEF NewVolume
    <2>3. CASE vtmp' = NULL /\ Return(-1) /\ UNCHANGED vobj
      BY <1>2, <1>3, <2>2, <2>3 DEF TablesOK, tableVars, Return
    <2>4. CASE ~(vtmp' = NULL /\ Return(-1) /\ UNCHANGED vobj)
      <3> DEFINE new == [volume |-> text,
                         ctr |-> [c \in Counters |-> IF c = "maxdiskb" THEN tmp_maxdiskb ELSE 0]]
      <3>1. vtmp' \in VolumeObjs
        BY <1>6, <2>4 DEF NewVolume, UnusedVolumes
      <3>2. vobj' = [p \in VolumeObjs |->
              IF p = vtmp' THEN new
              ELSE IF \E k \in Keys : fstab[k] = p THEN vobj[p] ELSE Freed]
        BY <1>6, <2>4 DEF NewVolume
      <3>3. new \in VolumeRec
        BY <1>3, <2>1, NewVolumeTyped
      <3> HIDE DEF new
      <3>4. vobj' \in [VolumeObjs -> VolumeRec \cup {Freed}]
        BY <1>3, <3>2, <3>3 DEF TablesOK
      <3>5. UNCHANGED <<pc, cc>>
        BY <1>6, <2>4 DEF NewVolume
      <3>6. TablesOK'
        BY <1>3, <2>2, <3>4 DEF TablesOK, tableVars
      <3> QED BY <1>2, <1>3, <2>2, <3>1, <3>5, <3>6
    <2> QED BY <2>3, <2>4
  <1>7. CASE AggrDiskBusy(el, text)
    <2>1. text \in Nat
      BY <1>1, <1>7 DEF AggrDiskBusy, Text, NumberElements
    <2> QED BY <1>2, <1>3, <1>7, <2>1 DEF AggrDiskBusy, TablesOK, tableVars, memVars
  <1>8. CASE VolumeCounter(el, text)
    <2>1. text \in Nat /\ el \in Counters
      BY <1>1, <1>8 DEF VolumeCounter, Text, NumberElements, Counters
    <2>2. vobj' \in [VolumeObjs -> VolumeRec \cup {Freed}]
      BY <1>3, <1>8, <2>1 DEF VolumeCounter, TablesOK, VolumeRec, LiveVolume
    <2> QED BY <1>2, <1>3, <1>8, <2>2 DEF VolumeCounter, TablesOK, tableVars, Undefined
  <1>9. CASE InstallFiler(el)
    BY <1>2, <1>3, <1>9 DEF InstallFiler, HashInstall, TablesOK, memVars, Undefined, LiveFiler
  <1>10. CASE InstallVolume(el)
    BY <1>2, <1>3, <1>10 DEF InstallVolume, HashInstall, TablesOK, memVars, Undefined, LiveVolume
  <1>11. CASE NoElement(el)
    BY <1>2, <1>3, <1>11 DEF NoElement, TablesOK, tableVars, memVars
  <1> QED BY <1>2, <1>4, <1>5, <1>6, <1>7, <1>8, <1>9, <1>10, <1>11 DEF ProcessElement

LEMMA TypeParseLine ==
  ASSUME TypeOK, ParseLine
  PROVE  TypeOK'
  <1>1. EnvOK'
    BY Unchanged DEF TypeOK, ParseLine
  <1>2. TablesOK'
    BY TypeElement
  <1>3. ParserOK'
    BY HandlersTyped, TypeElement DEF ParserOK
  <1>4. CallOK'
    BY TypeElement DEF TypeOK, CallOK, ParseLine, PCs, vollist
  <1>5. ParsesFile'
    BY TypeElement DEF TypeOK, ParsesFile, ParseLine, CurFiler, vollist, envVars
  <1> QED BY <1>1, <1>2, <1>3, <1>4, <1>5 DEF TypeOK

\* The environment's steps.
LEMMA TypePublish ==
  ASSUME TypeOK, NEW f \in Filers, Publish(f)
  PROVE  TypeOK'
  <1>1. PICK d \in Docs[f] : disk' = [disk EXCEPT ![f] = d]
    BY DEF Publish
  <1>2. d \in Seq(Line)
    BY DocsAssumption
  <1>3. EnvOK'
    BY <1>1, <1>2, SentinelAssumption DEF TypeOK, EnvOK, Publish
  <1>4. TablesOK' /\ ParserOK' /\ CallOK'
    BY Unchanged DEF TypeOK, Publish
  <1>5. ParsesFile'
    BY DEF ParsesFile, Publish, callVars
  <1> QED BY <1>3, <1>4, <1>5 DEF TypeOK

LEMMA TypeOpenForWrite ==
  ASSUME TypeOK, NEW f \in Filers, OpenForWrite(f)
  PROVE  TypeOK'
  <1>1. PICK d \in Docs[f] : writing' = [writing EXCEPT ![f] = d]
    BY DEF OpenForWrite
  <1>2. d \in Seq(Line) /\ << >> \in Seq(Line)
    BY DocsAssumption
  <1>3. disk' = [disk EXCEPT ![f] = << >>] /\ now' = now
    BY DEF OpenForWrite
  <1>4. EnvOK'
    BY <1>1, <1>2, <1>3, SentinelAssumption DEF TypeOK, EnvOK
  <1>5. TablesOK' /\ ParserOK'
    BY Unchanged DEF TypeOK, OpenForWrite
  <1>6. CallOK'
    <2>1. mixed' \in BOOLEAN
      BY DEF OpenForWrite
    <2>2. UNCHANGED <<pc, fstag, seconds, currp, pos, cc>>
      BY DEF OpenForWrite
    <2> QED BY <2>1, <2>2 DEF TypeOK, CallOK, vollist
  <1>7. ParsesFile'
    BY <1>2, <1>3, SentinelAssumption DEF TypeOK, EnvOK, ParsesFile, OpenForWrite, CurFiler, vollist
  <1> QED BY <1>4, <1>5, <1>6, <1>7 DEF TypeOK

LEMMA TypeWriteLines ==
  ASSUME TypeOK, NEW f \in Filers, WriteLines(f)
  PROVE  TypeOK'
  <1>1. PICK n \in 1 .. Len(writing[f]) :
          /\ disk' = [disk EXCEPT ![f] = @ \o SubSeq(writing[f], 1, n)]
          /\ writing' = [writing EXCEPT ![f] = SubSeq(@, n + 1, Len(@))]
    BY DEF WriteLines
  <1>2. writing[f] \in Seq(Line) /\ writing[f] # << >> /\ disk[f] \in Seq(Line)
    BY DEF TypeOK, EnvOK
  <1>3. /\ SubSeq(writing[f], 1, n) \in Seq(Line)
        /\ SubSeq(writing[f], n + 1, Len(writing[f])) \in Seq(Line)
    BY <1>2
  <1>4. disk[f] \o SubSeq(writing[f], 1, n) \in Seq(Line)
    BY <1>2, <1>3
  <1>5. EnvOK'
    BY <1>1, <1>3, <1>4, SentinelAssumption DEF TypeOK, EnvOK, WriteLines
  <1>6. TablesOK' /\ ParserOK' /\ CallOK'
    BY Unchanged DEF TypeOK, WriteLines
  <1>7. ParsesFile'
    <2>1. \A g \in Filers : disk'[g] = NoFile => disk[g] = NoFile
      BY <1>1, <1>4, SentinelAssumption DEF TypeOK, EnvOK
    <2>2. pc = "parse" => CurFiler \in Filers
      BY CurTyped DEF TypeOK
    <2> QED BY <2>1, <2>2 DEF TypeOK, ParsesFile, WriteLines, callVars, CurFiler, vollist
  <1> QED BY <1>5, <1>6, <1>7 DEF TypeOK

LEMMA TypeWriteFails ==
  ASSUME TypeOK, NEW f \in Filers, WriteFails(f)
  PROVE  TypeOK'
  <1>1. EnvOK'
    BY DEF TypeOK, EnvOK, WriteFails
  <1>2. TablesOK' /\ ParserOK' /\ CallOK'
    BY Unchanged DEF TypeOK, WriteFails
  <1>3. ParsesFile'
    BY DEF TypeOK, ParsesFile, WriteFails, callVars, CurFiler, vollist
  <1> QED BY <1>1, <1>2, <1>3 DEF TypeOK

LEMMA TypeTick ==
  ASSUME TypeOK, Tick
  PROVE  TypeOK'
  <1>1. EnvOK'
    BY DEF TypeOK, EnvOK, Tick
  <1>2. TablesOK' /\ ParserOK' /\ CallOK'
    BY Unchanged DEF TypeOK, Tick
  <1>3. ParsesFile'
    BY DEF TypeOK, ParsesFile, Tick, callVars, CurFiler, vollist
  <1> QED BY <1>1, <1>2, <1>3 DEF TypeOK

LEMMA TypeNext == TypeOK /\ [Next]_vars => TypeOK'
  <1> SUFFICES ASSUME TypeOK, [Next]_vars PROVE TypeOK'
    OBVIOUS
  <1>1. ASSUME NEW m \in FsTags, Call(m) PROVE TypeOK'
    BY <1>1, TypeCall
  <1>2. CASE Step
    BY <1>2, TypeExpireNext, TypeLoop, TypeOpen, TypeCompare, TypeParseLine DEF Step
  <1>3. CASE Done
    BY <1>3, TypeLoop
  <1>4. CASE Tick
    BY <1>4, TypeTick
  <1>5. ASSUME NEW f \in Filers,
               Publish(f) \/ OpenForWrite(f) \/ WriteLines(f) \/ WriteFails(f)
        PROVE  TypeOK'
    BY <1>5, TypePublish, TypeOpenForWrite, TypeWriteLines, TypeWriteFails
  <1>6. CASE UNCHANGED vars
    BY <1>6, Unchanged
    DEF TypeOK, ParsesFile, CurFiler, vollist, vars, envVars, tableVars, memVars, callVars
  <1> QED BY <1>1, <1>2, <1>3, <1>4, <1>5, <1>6 DEF Next, Monitor

\* The state of the plugin is always well typed, whatever the monitor writes
\* and whenever: in particular dcnt stays within filer.domains, the table
\* entries are pointers to objects or to freed memory, and the position in the
\* storage map's list is inside it whenever the list is dereferenced.
THEOREM TypeCorrect == Spec => []TypeOK
  BY TypeInit, TypeNext, PTL DEF Spec
-----------------------------------------------------------------------------
(***************************************************************************)
(* filer_load_ok() never judges counters older than XMLReread, for every   *)
(* set of filers, volumes and documents, and with the monitor rewriting a  *)
(* document while it is read: FreshInv of FilerLoad is inductive.          *)
(***************************************************************************)

LEMMA LiveTyped ==
  ASSUME TablesOK, NEW p \in FilerObjs \cup {NULL}, LiveFiler(p)
  PROVE  /\ p \in FilerObjs
         /\ fobj[p] \in FilerRec
         /\ fobj[p].name \in Filers
         /\ fobj[p].readTime \in Nat
  <1>1. p \in FilerObjs /\ fobj[p] \in FilerRec
    BY DEF TablesOK, LiveFiler
  <1> QED BY <1>1 DEF FilerRec

\* A filer stays fresh as long as its entry is unchanged or gone.
LEMMA FreshKept ==
  ASSUME NEW f \in Filers, Fresh(f), seconds' = seconds,
         \/ filertab'[f] = NULL
         \/ /\ filertab'[f] = filertab[f]
            /\ \/ fobj'[filertab[f]] = Freed
               \/ fobj'[filertab[f]] = fobj[filertab[f]]
  PROVE  Fresh(f)'
  BY DEF Fresh, LiveFiler

LEMMA FreshInit == Init => FreshInv
  <1> SUFFICES ASSUME Init PROVE FreshInv
    OBVIOUS
  <1>1. TypeOK
    BY TypeInit
  <1>2. DocumentsPlaced
    BY DEF Init, DocumentsPlaced
  <1>3. ParsedFilerNew /\ ListFresh
    BY DEF Init, ParsedFilerNew, ListFresh
  <1> QED BY <1>1, <1>2, <1>3 DEF FreshInv

-----------------------------------------------------------------------------
(***************************************************************************)
(* The files hold what printToXML() writes, from the first line on.        *)
(***************************************************************************)
LEMMA PlacedKept ==
  DocumentsPlaced /\ UNCHANGED <<disk, writing>> => DocumentsPlaced'
  BY DEF DocumentsPlaced

LEMMA PlacedPublish ==
  ASSUME FreshInv, NEW f \in Filers, Publish(f)
  PROVE  DocumentsPlaced'
  <1>1. PICK d \in Docs[f] : disk' = [disk EXCEPT ![f] = d]
    BY DEF Publish
  <1>2. \A i \in 1 .. Len(d) : Placed(f, d[i], i)
    BY DocsAssumption
  <1>3. writing' = writing /\ writing[f] = << >> /\ disk \in [Filers -> Seq(Line) \cup {NoFile}]
    BY DEF Publish, FreshInv, TypeOK, EnvOK
  <1> QED BY <1>1, <1>2, <1>3 DEF FreshInv, DocumentsPlaced

LEMMA PlacedOpen ==
  ASSUME FreshInv, NEW f \in Filers, OpenForWrite(f)
  PROVE  DocumentsPlaced'
  <1>1. PICK d \in Docs[f] : writing' = [writing EXCEPT ![f] = d]
    BY DEF OpenForWrite
  <1>2. d \in Seq(Line) /\ \A i \in 1 .. Len(d) : Placed(f, d[i], i)
    BY DocsAssumption
  <1>3. disk' = [disk EXCEPT ![f] = << >>]
    BY DEF OpenForWrite
  <1>4. disk \in [Filers -> Seq(Line) \cup {NoFile}] /\ writing \in [Filers -> Seq(Line)]
    BY DEF FreshInv, TypeOK, EnvOK
  <1>5. \A i \in 1 .. Len(d) : Len(<< >>) + i = i
    BY <1>2
  <1> SUFFICES ASSUME NEW g \in Filers, disk'[g] # NoFile
               PROVE  /\ \A i \in 1 .. Len(disk'[g]) : Placed(g, disk'[g][i], i)
                      /\ \A i \in 1 .. Len(writing'[g]) :
                           Placed(g, writing'[g][i], Len(disk'[g]) + i)
    BY DEF DocumentsPlaced
  <1>6. CASE g = f
    BY <1>1, <1>2, <1>3, <1>4, <1>5, <1>6
  <1>7. CASE g # f
    BY <1>1, <1>3, <1>4, <1>7 DEF FreshInv, DocumentsPlaced
  <1> QED BY <1>6, <1>7

LEMMA PlacedWriteLines ==
  ASSUME FreshInv, NEW f \in Filers, WriteLines(f)
  PROVE  DocumentsPlaced'
  <1> DEFINE w == writing[f]
             d == disk[f]
  <1>1. PICK n \in 1 .. Len(w) :
          /\ disk' = [disk EXCEPT ![f] = @ \o SubSeq(w, 1, n)]
          /\ writing' = [writing EXCEPT ![f] = SubSeq(@, n + 1, Len(@))]
    BY DEF WriteLines
  <1>2. w \in Seq(Line) /\ w # << >> /\ d \in Seq(Line) /\ d # NoFile
    BY <1>1, SentinelAssumption DEF FreshInv, TypeOK, EnvOK
  <1>3. disk \in [Filers -> Seq(Line) \cup {NoFile}] /\ writing \in [Filers -> Seq(Line)]
    BY DEF FreshInv, TypeOK, EnvOK
  <1>4. /\ \A i \in 1 .. Len(d) : Placed(f, d[i], i)
        /\ \A i \in 1 .. Len(w) : Placed(f, w[i], Len(d) + i)
    BY <1>2 DEF FreshInv, DocumentsPlaced
  <1>5. disk'[f] = d \o SubSeq(w, 1, n) /\ writing'[f] = SubSeq(w, n + 1, Len(w))
    BY <1>1, <1>3
  <1>6. \A g \in Filers : g # f => disk'[g] = disk[g] /\ writing'[g] = writing[g]
    BY <1>1, <1>3
  <1> HIDE DEF w, d
  <1>7. /\ Len(disk'[f]) = Len(d) + n
        /\ \A i \in 1 .. Len(d) : disk'[f][i] = d[i]
        /\ \A i \in 1 .. n : disk'[f][Len(d) + i] = w[i]
    BY <1>2, <1>5
  <1>8. /\ Len(writing'[f]) = Len(w) - n
        /\ \A i \in 1 .. Len(w) - n : writing'[f][i] = w[n + i]
    BY <1>2, <1>5
  <1>9. \A i \in 1 .. Len(disk'[f]) : Placed(f, disk'[f][i], i)
    <2> SUFFICES ASSUME NEW i \in 1 .. Len(disk'[f]) PROVE Placed(f, disk'[f][i], i)
      OBVIOUS
    <2>1. CASE i <= Len(d)
      BY <1>2, <1>4, <1>7, <2>1
    <2>2. CASE i > Len(d)
      <3>1. i - Len(d) \in 1 .. n /\ i - Len(d) \in 1 .. Len(w) /\ Len(d) + (i - Len(d)) = i
        BY <1>2, <1>7, <2>2
      <3> QED BY <1>4, <1>7, <3>1
    <2> QED BY <1>2, <2>1, <2>2
  <1>10. \A i \in 1 .. Len(writing'[f]) : Placed(f, writing'[f][i], Len(disk'[f]) + i)
    <2> SUFFICES ASSUME NEW i \in 1 .. Len(writing'[f])
                 PROVE  Placed(f, writing'[f][i], Len(disk'[f]) + i)
      OBVIOUS
    <2>1. /\ n + i \in 1 .. Len(w) /\ i \in 1 .. Len(w) - n
          /\ Len(disk'[f]) + i = Len(d) + (n + i)
      BY <1>2, <1>7, <1>8
    <2> QED BY <1>4, <1>8, <2>1
  <1> QED BY <1>6, <1>9, <1>10 DEF FreshInv, DocumentsPlaced

LEMMA PlacedWriteFails ==
  ASSUME FreshInv, NEW f \in Filers, WriteFails(f)
  PROVE  DocumentsPlaced'
  <1>1. writing' = [writing EXCEPT ![f] = << >>] /\ disk' = disk
    BY DEF WriteFails
  <1>2. writing \in [Filers -> Seq(Line)]
    BY DEF FreshInv, TypeOK, EnvOK
  <1> QED BY <1>1, <1>2 DEF FreshInv, DocumentsPlaced
-----------------------------------------------------------------------------
(***************************************************************************)
(* The steps of a call.                                                    *)
(***************************************************************************)
CacheFresh == ParsedFilerNew /\ ListFresh

\* Steps that leave the filers, the parser and the call's position alone.
LEMMA CacheKept ==
  ASSUME FreshInv, now' \in Nat, now' >= now,
         UNCHANGED <<filertab, fobj, ftmp, endelement, pc, fstag, seconds, currp, pos>>
  PROVE  CacheFresh'
  <1>1. ParsedFilerNew'
    BY DEF FreshInv, ParsedFilerNew, LiveFiler
  <1>2. \A f : Fresh(f)' <=> Fresh(f)
    BY DEF Fresh, LiveFiler
  <1>3. vollist' = vollist
    BY DEF vollist
  <1>4. now \in Nat /\ seconds \in Nat
    BY DEF FreshInv, TypeOK, EnvOK, CallOK
  <1>5. ListFresh'
    BY <1>2, <1>3, <1>4 DEF FreshInv, ListFresh
  <1> QED BY <1>1, <1>5 DEF CacheFresh

LEMMA FreshCall ==
  ASSUME FreshInv, NEW m \in FsTags, Call(m)
  PROVE  CacheFresh'
  <1>1. ParsedFilerNew'
    BY DEF FreshInv, ParsedFilerNew, LiveFiler, Call, Return, tableVars, memVars, parserVars
  <1>2. currp' = 1 /\ pc' \in {"expire", "return"} /\ (pc' = "expire" => seconds' = now')
    BY DEF FreshInv, ListFresh, Call, Return, envVars
  <1>3. now' \in Nat /\ (pc' = "expire" => seconds' <= now')
    BY <1>2 DEF FreshInv, TypeOK, EnvOK, Call, envVars
  <1>4. ListFresh'
    BY <1>2, <1>3 DEF ListFresh
  <1> QED BY <1>1, <1>4 DEF CacheFresh

LEMMA FreshExpireNext ==
  ASSUME FreshInv, ExpireNext
  PROVE  CacheFresh'
  <1>1. /\ TablesOK /\ now \in Nat /\ seconds \in Nat /\ currp \in Nat \ {0}
        /\ pc = "expire" /\ seconds <= now
        /\ vollist \in Seq(Mount) /\ currp \in 1 .. Len(vollist)
        /\ \A i \in 1 .. Len(vollist) : vollist[i].filer \in Filers
        /\ \A i \in 1 .. Len(vollist) : i < currp => Fresh(vollist[i].filer)
    BY ListTyped DEF FreshInv, TypeOK, EnvOK, CallOK, ListFresh, ExpireNext
  <1>2. UNCHANGED <<now, ftmp, endelement, fstag, seconds, pos>> /\ vollist' = vollist
    BY DEF ExpireNext, envVars, parserVars, vollist
  <1>3. CurFiler \in Filers
    BY <1>1 DEF CurFiler
  <1>4. CASE Undefined /\ UNCHANGED <<tableVars, memVars, currp>>
    <2>1. pc' = "undefined" /\ UNCHANGED <<filertab, fobj, ftmp, endelement>>
      BY <1>2, <1>4 DEF Undefined, tableVars, memVars
    <2>2. ParsedFilerNew'
      BY <2>1 DEF FreshInv, ParsedFilerNew, LiveFiler
    <2>3. ListFresh'
      BY <2>1 DEF ListFresh
    <2> QED BY <2>2, <2>3 DEF CacheFresh
  <1>5. CASE /\ ~Expired(CurFiler) /\ currp' = currp + 1
             /\ UNCHANGED <<tableVars, memVars, pc, cc>>
    <2>1. UNCHANGED <<filertab, fobj, ftmp, endelement>> /\ pc' = "expire"
      BY <1>1, <1>2, <1>5 DEF tableVars, memVars
    <2>2. ParsedFilerNew'
      BY <2>1 DEF FreshInv, ParsedFilerNew, LiveFiler
    <2>3. Fresh(CurFiler)
      <3>1. SUFFICES ASSUME LiveFiler(filertab[CurFiler])
                     PROVE  seconds - fobj[filertab[CurFiler]].readTime <= XMLReread
        BY DEF Fresh
      <3>2. fobj[filertab[CurFiler]].readTime \in Nat
        BY <1>1, <1>3, <3>1, LiveTyped DEF TablesOK
      <3> QED BY <1>1, <1>5, <3>1, <3>2, BoundsAssumption DEF Expired
    <2>4. \A f \in Filers : Fresh(f) => Fresh(f)'
      BY <1>2, <2>1, FreshKept
    <2>5. \A i \in 1 .. Len(vollist) : i < currp + 1 => Fresh(vollist[i].filer)
      BY <1>1, <2>3 DEF CurFiler
    <2>6. ListFresh'
      BY <1>1, <1>2, <1>5, <2>1, <2>4, <2>5 DEF ListFresh
    <2> QED BY <2>2, <2>6 DEF CacheFresh
  <1>6. CASE FreeFiler(CurFiler) /\ currp' = currp + 1 /\ UNCHANGED <<pc, cc>>
    <2>1. /\ filertab' = [filertab EXCEPT ![CurFiler] = NULL]
          /\ fobj' = [fobj EXCEPT ![filertab[CurFiler]] = Freed]
      BY <1>6 DEF FreeFiler
    <2>2. \A p \in FilerObjs : fobj'[p] = Freed \/ fobj'[p] = fobj[p]
      BY <1>1, <2>1 DEF TablesOK
    <2>3. \A f \in Filers : /\ filertab'[f] = NULL \/ filertab'[f] = filertab[f]
                            /\ filertab[f] \in FilerObjs \cup {NULL}
      BY <1>1, <2>1 DEF TablesOK
    <2>4. \A f \in Filers : Fresh(f) => Fresh(f)'
      <3> SUFFICES ASSUME NEW f \in Filers, Fresh(f) PROVE Fresh(f)'
        OBVIOUS
      <3>1. CASE filertab'[f] = NULL
        BY <1>2, <3>1, FreshKept
      <3>2. CASE filertab'[f] # NULL
        BY <1>2, <2>2, <2>3, <3>2, FreshKept
      <3> QED BY <3>1, <3>2
    <2>5. \A g \in Filers : g = CurFiler => Fresh(g)'
      <3> SUFFICES ASSUME NEW g \in Filers, g = CurFiler PROVE Fresh(g)'
        OBVIOUS
      <3>1. filertab'[g] = NULL
        BY <1>1, <2>1 DEF TablesOK
      <3> QED BY <3>1 DEF Fresh, LiveFiler
    <2>6. ListFresh'
      <3>1. \A i \in 1 .. Len(vollist) : i < currp + 1 =>
              \A g \in Filers : g = vollist[i].filer => Fresh(g)'
        BY <1>1, <2>4, <2>5 DEF CurFiler
      <3>2. pc' = "expire" /\ currp' = currp + 1
        BY <1>1, <1>6
      <3> QED BY <1>1, <1>2, <3>1, <3>2 DEF ListFresh
    <2>7. ParsedFilerNew'
      <3>1. pc' = "expire" /\ UNCHANGED <<ftmp, endelement>>
        BY <1>1, <1>2, <1>6
      <3> SUFFICES ASSUME endelement = "domains", LiveFiler(ftmp)'
                   PROVE  filertab'[fobj'[ftmp].name] = ftmp
        BY <3>1 DEF ParsedFilerNew
      <3>2. ftmp \in FilerObjs
        BY <3>1 DEF LiveFiler, FreshInv, TypeOK, ParserOK
      <3>3. fobj'[ftmp] = fobj[ftmp] /\ ftmp # filertab[CurFiler] /\ LiveFiler(ftmp)
        BY <1>1, <2>1, <3>1, <3>2 DEF TablesOK, LiveFiler
      <3>4. fobj[ftmp].name \in Filers /\ filertab[fobj[ftmp].name] = ftmp
        BY <1>1, <3>2, <3>3, LiveTyped DEF FreshInv, ParsedFilerNew
      <3> QED BY <1>1, <2>1, <3>3, <3>4 DEF TablesOK
    <2> QED BY <2>6, <2>7 DEF CacheFresh
  <1> QED BY <1>4, <1>5, <1>6 DEF ExpireNext, Advance

\* The steps of the second loop, the ends of a parse and of a call.
LEMMA FreshLoop ==
  ASSUME FreshInv,
         \/ ExpireDone \/ CheckCached \/ OpenDocument \/ Compare \/ CheckDone
         \/ EndOfFile \/ ParseError \/ Done
  PROVE  CacheFresh'
  <1>1. UNCHANGED <<now, filertab, fobj, ftmp, endelement>>
    BY DEF ExpireDone, CheckCached, OpenDocument, Compare, CheckDone, EndOfFile,
           ParseError, Done, envVars, tableVars, memVars, parserVars
  <1>2. pc' = "parse" => pos' = 0
    BY DEF ExpireDone, CheckCached, OpenDocument, Compare, CheckDone, EndOfFile,
           ParseError, Done, Return, Undefined
  <1>3. ParsedFilerNew'
    BY <1>1, <1>2 DEF FreshInv, ParsedFilerNew, LiveFiler
  <1>4. ASSUME Done \/ pc' \in {"return", "undefined"} PROVE ListFresh'
    BY <1>4 DEF Done, ListFresh
  <1>5. ASSUME ~Done, pc' \notin {"return", "undefined"} PROVE ListFresh'
    <2>1. UNCHANGED <<seconds, fstag>> /\ vollist' = vollist
      BY <1>5 DEF ExpireDone, CheckCached, OpenDocument, Compare, CheckDone, EndOfFile,
                  ParseError, vollist
    <2>2. pc' \in {"check", "parse", "compare"}
      BY <1>5 DEF ExpireDone, CheckCached, OpenDocument, Compare, CheckDone, EndOfFile,
                  ParseError, Return, Undefined
    <2>3. /\ pc = "expire" /\ currp > Len(vollist)
          \/ pc \in {"check", "parse", "compare"}
      BY <1>5 DEF ExpireDone, CheckCached, OpenDocument, Compare, CheckDone, EndOfFile,
                  ParseError
    <2>4. vollist \in Seq(Mount) /\ currp \in Nat
      BY <2>3, ListTyped DEF FreshInv, TypeOK, CallOK
    <2>5. \A i \in 1 .. Len(vollist) : Fresh(vollist[i].filer)
      BY <2>3, <2>4 DEF FreshInv, ListFresh
    <2>6. seconds <= now
      BY <2>3 DEF FreshInv, ListFresh
    <2>7. \A f : Fresh(f)' <=> Fresh(f)
      BY <1>1, <2>1 DEF Fresh, LiveFiler
    <2> QED BY <1>1, <2>1, <2>2, <2>5, <2>6, <2>7 DEF ListFresh
  <1> QED BY <1>3, <1>4, <1>5 DEF CacheFresh

\* What is known when process_element() is called for a line: where the element
\* names come from, and that of the filers only ftmp's changes.
LEMMA ElementPlaced ==
  ASSUME FreshInv, ParseLine
  PROVE  /\ pos \in Nat /\ pos' = pos + 1
         /\ pos = 2 => endelement' = "filer"
         /\ endelement' = "filer" => pos = 2 \/ pos = 0
         /\ endelement' = "domains" => pos >= 3 \/ (endelement = "domains" /\ pos = 0)
  <1> DEFINE line == disk[CurFiler][pos + 1]
  <1>1. CurFiler \in Filers /\ disk[CurFiler] # NoFile
    BY CurTyped DEF FreshInv, TypeOK, ParsesFile, ParseLine
  <1>2. pos + 1 \in 1 .. Len(disk[CurFiler])
    BY LineTyped DEF FreshInv, ParseLine
  <1>3. Placed(CurFiler, line, pos + 1)
    BY <1>1, <1>2 DEF FreshInv, DocumentsPlaced
  <1>4. Handlers(line) /\ pos' = pos + 1 /\ pos \in Nat
    BY DEF FreshInv, TypeOK, CallOK, ParseLine
  <1> HIDE DEF line
  <1>5. /\ line.tag = "decl" <=> pos = 0
        /\ pos = 2 => line.tag = "leaf"
        /\ line.el = "filer" <=> pos = 2
        /\ line.el = "domains" => pos >= 3
    BY <1>3, <1>4 DEF Placed
  <1>6. endelement' = IF line.tag = "decl" THEN endelement
                      ELSE IF line.tag = "start" THEN "none" ELSE line.el
    BY <1>4 DEF Handlers, EndedBy
  <1> QED BY <1>4, <1>5, <1>6

\* The entries of filertab and the objects they point to survive a line, but
\* for the entry that </domains> sets.
LEMMA EntriesKept ==
  ASSUME FreshInv, ParseLine, endelement' # "domains", NEW f \in Filers, Fresh(f)
  PROVE  Fresh(f)'
  <1> DEFINE el == endelement'
             text == last_content'
  <1>1. ProcessElement(el, text) /\ seconds' = seconds
    BY DEF ParseLine
  <1> HIDE DEF el, text
  <1>2. el # "domains"
    BY DEF el
  <1>3. TablesOK /\ filertab[f] \in FilerObjs \cup {NULL}
    BY DEF FreshInv, TypeOK, TablesOK
  <1>4. filertab' = filertab
    BY <1>1, <1>2 DEF ProcessElement, NewFiler, DomainValue, NewVolume, AggrDiskBusy,
                      VolumeCounter, InstallFiler, InstallVolume, NoElement, tableVars
  <1>5. CASE fobj' = fobj
    BY <1>1, <1>3, <1>4, <1>5, FreshKept
  <1>6. CASE NewFiler(el, text) /\ fobj' # fobj
    <2>1. ftmp' = CHOOSE p \in UnusedFilers : TRUE
      BY <1>6 DEF NewFiler
    <2>2. UnusedFilers # {} /\ ftmp' \in UnusedFilers
      BY <1>6, <2>1 DEF NewFiler
    <2>3. filertab[f] # ftmp'
      BY <2>2 DEF UnusedFilers
    <2>4. filertab[f] \in FilerObjs => fobj'[filertab[f]] = fobj[filertab[f]]
      BY <1>6, <2>3 DEF NewFiler
    <2> QED BY <1>1, <1>3, <1>4, <2>4, FreshKept DEF Fresh, LiveFiler
  <1>7. CASE DomainValue(el, text) /\ fobj' # fobj
    <2>1. fobj' = [fobj EXCEPT ![ftmp].domains[dcnt] = text] /\ LiveFiler(ftmp)
      BY <1>7 DEF DomainValue, Undefined
    <2>2. ftmp \in FilerObjs /\ fobj[ftmp] \in FilerRec
      BY <1>3, <2>1, LiveTyped DEF FreshInv, TypeOK, ParserOK
    <2>3. fobj'[ftmp].readTime = fobj[ftmp].readTime
      BY <1>3, <2>1, <2>2 DEF TablesOK, FilerRec
    <2>4. \A p \in FilerObjs : p # ftmp => fobj'[p] = fobj[p]
      BY <1>3, <2>1 DEF TablesOK
    <2>5. CASE filertab[f] = ftmp
      BY <1>1, <1>4, <2>1, <2>3, <2>5 DEF Fresh, LiveFiler
    <2>6. CASE filertab[f] # ftmp
      BY <1>1, <1>3, <1>4, <2>4, <2>6, FreshKept DEF Fresh, LiveFiler
    <2> QED BY <2>5, <2>6
  <1> QED BY <1>1, <1>5, <1>6, <1>7
          DEF ProcessElement, NewVolume, AggrDiskBusy, VolumeCounter, InstallFiler,
              InstallVolume, NoElement, memVars

LEMMA FreshParseLine ==
  ASSUME "entry" \notin Faults, FreshInv, ParseLine
  PROVE  CacheFresh'
  <1> DEFINE el == endelement'
             text == last_content'
  <1>1. /\ ProcessElement(el, text)
        /\ pc = "parse" /\ pos \in Nat /\ pos' = pos + 1
        /\ UNCHANGED <<now, fstag, seconds, currp>> /\ vollist' = vollist
    BY ElementPlaced DEF ParseLine, envVars, vollist
  <1>2. /\ pos = 2 => el = "filer"
        /\ el = "filer" => pos = 2 \/ pos = 0
        /\ el = "domains" => pos >= 3 \/ (endelement = "domains" /\ pos = 0)
    BY ElementPlaced
  <1>3. /\ TablesOK /\ ftmp \in FilerObjs \cup {NULL}
        /\ now \in Nat /\ seconds \in Nat /\ seconds <= now
        /\ vollist \in Seq(Mount)
        /\ \A i \in 1 .. Len(vollist) : vollist[i].filer \in Filers /\ Fresh(vollist[i].filer)
    BY <1>1, ListTyped DEF FreshInv, TypeOK, EnvOK, ParserOK, CallOK, ListFresh
  <1>4. /\ pos >= 3 /\ LiveFiler(ftmp) => fobj[ftmp].readTime >= seconds
        /\ endelement = "domains" /\ LiveFiler(ftmp) => filertab[fobj[ftmp].name] = ftmp
    BY <1>1 DEF FreshInv, ParsedFilerNew
  <1>5. \A f \in Filers : el # "domains" /\ Fresh(f) => Fresh(f)'
    BY EntriesKept
  <1>6. pc' \in {"parse", "return", "undefined"}
    BY TypeElement DEF FreshInv
  <1> HIDE DEF el, text
  <1>7. CASE NewFiler(el, text)
    <2>1. el = "filer"
      BY <1>7 DEF NewFiler
    <2>2. ftmp' # NULL => fobj'[ftmp'].readTime = now
      BY <1>7 DEF NewFiler, UnusedFilers, ReadTime
    <2>3. ParsedFilerNew'
      BY <1>1, <1>3, <2>1, <2>2 DEF ParsedFilerNew, LiveFiler, el
    <2>4. ListFresh'
      BY <1>1, <1>3, <1>5, <1>6, <2>1 DEF ListFresh
    <2> QED BY <2>3, <2>4 DEF CacheFresh
  <1>8. CASE InstallFiler(el)
    <2>1. el = "domains" /\ UNCHANGED <<fobj, ftmp>>
      BY <1>8 DEF InstallFiler, memVars
    <2>2. CASE ~LiveFiler(ftmp)
      <3>1. pc' = "undefined"
        BY <1>8, <2>2 DEF InstallFiler, Undefined
      <3> QED BY <2>1, <2>2, <3>1 DEF CacheFresh, ParsedFilerNew, ListFresh, LiveFiler
    <2>3. CASE LiveFiler(ftmp)
      <3>1. filertab' = [filertab EXCEPT ![fobj[ftmp].name] = ftmp]
        BY <1>8, <2>3 DEF InstallFiler, HashInstall
      <3>2. fobj[ftmp].name \in Filers /\ fobj[ftmp].readTime \in Nat
        BY <1>3, <2>3, LiveTyped
      <3>3. filertab'[fobj[ftmp].name] = ftmp
        BY <1>3, <3>1, <3>2 DEF TablesOK
      <3>4. ParsedFilerNew'
        <4>1. pos' >= 3 => pos >= 3
          BY <1>1, <1>2, <2>1
        <4> QED BY <1>1, <1>4, <2>1, <3>3, <4>1 DEF ParsedFilerNew, LiveFiler
      <3>5. ASSUME NEW f \in Filers, Fresh(f) PROVE Fresh(f)'
        <4>1. CASE filertab'[f] = filertab[f]
          BY <1>1, <2>1, <3>5, <4>1, FreshKept
        <4>2. CASE filertab'[f] # filertab[f]
          <5>1. f = fobj[ftmp].name /\ filertab'[f] = ftmp
            BY <1>3, <3>1, <3>3, <4>2 DEF TablesOK
          <5>2. pos >= 3
            BY <1>2, <1>4, <2>1, <2>3, <4>2, <5>1
          <5>3. seconds - fobj[ftmp].readTime <= XMLReread
            BY <1>3, <1>4, <2>3, <3>2, <5>2, BoundsAssumption
          <5> QED BY <1>1, <2>1, <5>1, <5>3 DEF Fresh
        <4> QED BY <4>1, <4>2
      <3>6. ListFresh'
        BY <1>1, <1>3, <1>6, <3>5 DEF ListFresh
      <3> QED BY <3>4, <3>6 DEF CacheFresh
    <2> QED BY <2>2, <2>3
  <1>9. CASE ~NewFiler(el, text) /\ ~InstallFiler(el)
    <2>1. el \notin {"filer", "domains"} /\ UNCHANGED <<filertab, ftmp>>
      BY <1>1, <1>9 DEF ProcessElement, DomainValue, NewVolume, AggrDiskBusy, VolumeCounter,
                        InstallVolume, NoElement, tableVars
    <2>2. LiveFiler(ftmp)' => LiveFiler(ftmp) /\ fobj'[ftmp].readTime = fobj[ftmp].readTime
      <3>1. CASE UNCHANGED fobj
        BY <2>1, <3>1 DEF LiveFiler
      <3>2. CASE fobj' = [fobj EXCEPT ![ftmp].domains[dcnt] = text] /\ LiveFiler(ftmp)
        <4>1. ftmp \in FilerObjs /\ fobj[ftmp] \in FilerRec
          BY <1>3, <3>2, LiveTyped
        <4> QED BY <1>3, <2>1, <3>2, <4>1 DEF TablesOK, FilerRec
      <3> QED BY <1>1, <1>9, <3>1, <3>2
              DEF ProcessElement, DomainValue, NewVolume, AggrDiskBusy, VolumeCounter,
                  InstallVolume, NoElement, memVars
    <2>3. pos' >= 3 => pos >= 3
      BY <1>1, <1>2, <2>1
    <2>4. ParsedFilerNew'
      BY <1>1, <1>4, <2>1, <2>2, <2>3 DEF ParsedFilerNew, el
    <2>5. ListFresh'
      BY <1>1, <1>3, <1>5, <1>6, <2>1 DEF ListFresh
    <2> QED BY <2>4, <2>5 DEF CacheFresh
  <1> QED BY <1>7, <1>8, <1>9

-----------------------------------------------------------------------------
LEMMA FreshNext ==
  ASSUME "entry" \notin Faults, FreshInv, [Next]_vars
  PROVE  FreshInv'
  <1>1. TypeOK'
    BY TypeNext DEF FreshInv
  <1>2. DocumentsPlaced'
    <2>1. ASSUME NEW f \in Filers,
                 Publish(f) \/ OpenForWrite(f) \/ WriteLines(f) \/ WriteFails(f)
          PROVE  DocumentsPlaced'
      BY <2>1, PlacedPublish, PlacedOpen, PlacedWriteLines, PlacedWriteFails
    <2>2. CASE Tick
      BY <2>2, PlacedKept DEF FreshInv, Tick
    <2>3. CASE ~Tick /\ ~Monitor
      <3>1. UNCHANGED envVars
        BY <2>3 DEF Next, Step, Call, Done, ExpireNext, ExpireDone, CheckCached,
                    OpenDocument, Compare, CheckDone, EndOfFile, ParseError, ParseLine, vars
      <3> QED BY <3>1, PlacedKept DEF FreshInv, envVars
    <2> QED BY <2>1, <2>2, <2>3 DEF Monitor
  <1>3. CacheFresh'
    <2>1. ASSUME NEW m \in FsTags, Call(m) PROVE CacheFresh'
      BY <2>1, FreshCall
    <2>2. CASE Step \/ Done
      BY <2>2, FreshExpireNext, FreshLoop, FreshParseLine DEF Step
    <2>3. CASE Tick \/ Monitor \/ UNCHANGED vars
      <3>1. now \in Nat
        BY DEF FreshInv, TypeOK, EnvOK
      <3>2. now' \in Nat /\ now' >= now
        BY <2>3, <3>1 DEF Tick, Monitor, Publish, OpenForWrite, WriteLines, WriteFails,
                          vars, envVars
      <3>3. UNCHANGED <<filertab, fobj, ftmp, endelement, pc, fstag, seconds, currp, pos>>
        BY <2>3 DEF Tick, Monitor, Publish, OpenForWrite, WriteLines, WriteFails, vars,
                    tableVars, memVars, parserVars, callVars
      <3> QED BY <3>2, <3>3, CacheKept
    <2> QED BY <2>1, <2>2, <2>3 DEF Next
  <1> QED BY <1>1, <1>2, <1>3 DEF FreshInv, CacheFresh

LEMMA FreshImplied == FreshInv => FreshWhenCompared
  <1> SUFFICES ASSUME FreshInv, pc = "compare" PROVE Fresh(CurFiler)
    BY DEF FreshWhenCompared
  <1>1. currp \in 1 .. Len(vollist)
    BY CurTyped DEF FreshInv, TypeOK
  <1> QED BY <1>1 DEF FreshInv, ListFresh, CurFiler

\* The freshness invariant, with the shape of the documents, of the filer being
\* parsed and of the list that filer_load_ok() walks, holds throughout, provided
\* that hash_install() never lacks the memory for a new entry.
THEOREM FreshnessInductive ==
  ASSUME "entry" \notin Faults
  PROVE  Spec => []FreshInv
  <1>1. FreshInv /\ [Next]_vars => FreshInv'
    BY FreshNext
  <1> QED BY <1>1, FreshInit, PTL DEF Spec

\* No verdict of compare_thresholds() rests on counters that were read more
\* than XMLReread before filer_load_ok() looked at the clock, provided that
\* hash_install() never lacks the memory for a new entry.
THEOREM FreshnessCorrect ==
  ASSUME "entry" \notin Faults
  PROVE  Spec => []FreshWhenCompared
  BY FreshnessInductive, FreshImplied, PTL
-----------------------------------------------------------------------------
(***************************************************************************)
(* The parser against the documents: CacheInv and MirrorInv of FilerLoad   *)
(* are inductive.  The document is read once more by the definitions of    *)
(* DocLines, without a parser; LineRead says what the next line is, and    *)
(* FilerSide and VolumeSide what it does to the filers and to the volumes. *)
(***************************************************************************)

(***************************************************************************)
(* What one more line says.                                                *)
(***************************************************************************)
LEMMA LinesFinite ==
  ASSUME NEW d, NEW p \in Nat, NEW el
  PROVE  IsFiniteSet(Lines(d, p, el)) /\ Cardinality(Lines(d, p, el)) \in Nat
  <1>1. IsFiniteSet(1 .. p)
    BY FS_Interval
  <1>2. Lines(d, p, el) \in SUBSET (1 .. p)
    BY DEF Lines
  <1>3. IsFiniteSet(Lines(d, p, el))
    BY <1>1, <1>2, FS_Subset
  <1> QED BY <1>3, FS_CardinalityType

LEMMA LinesStep ==
  ASSUME NEW d, NEW p \in Nat, NEW el
  PROVE  /\ EndedBy(d[p + 1]) # el => Lines(d, p + 1, el) = Lines(d, p, el)
         /\ EndedBy(d[p + 1]) = el =>
              /\ Lines(d, p + 1, el) = Lines(d, p, el) \cup {p + 1}
              /\ Cardinality(Lines(d, p + 1, el)) = Cardinality(Lines(d, p, el)) + 1
  <1>1. Lines(d, p + 1, el) =
          IF EndedBy(d[p + 1]) = el THEN Lines(d, p, el) \cup {p + 1} ELSE Lines(d, p, el)
    BY DEF Lines
  <1>2. p + 1 \notin Lines(d, p, el)
    BY DEF Lines
  <1> QED BY <1>1, <1>2, LinesFinite, FS_AddElement

LEMMA LinesGrow ==
  ASSUME NEW d, NEW p \in Nat, NEW q \in Nat, p <= q, NEW el
  PROVE  /\ Lines(d, p, el) \subseteq Lines(d, q, el)
         /\ Cardinality(Lines(d, p, el)) <= Cardinality(Lines(d, q, el))
  <1>1. Lines(d, p, el) \in SUBSET Lines(d, q, el)
    BY DEF Lines
  <1> QED BY <1>1, LinesFinite, FS_Subset

LEMMA NoLines ==
  ASSUME NEW d, NEW el
  PROVE  Lines(d, 0, el) = {} /\ Cardinality(Lines(d, 0, el)) = 0
  <1>1. Lines(d, 0, el) = {}
    BY DEF Lines
  <1> QED BY <1>1, FS_EmptySet

LEMMA LastLineStep ==
  ASSUME NEW d, NEW p \in Nat, NEW el
  PROVE  /\ EndedBy(d[p + 1]) # el => LastLine(d, p + 1, el) = LastLine(d, p, el)
         /\ EndedBy(d[p + 1]) = el => LastLine(d, p + 1, el) = p + 1
  <1>1. CASE EndedBy(d[p + 1]) # el
    BY <1>1, LinesStep DEF LastLine
  <1>2. CASE EndedBy(d[p + 1]) = el
    <2>1. Lines(d, p + 1, el) = Lines(d, p, el) \cup {p + 1} /\ Lines(d, p, el) \subseteq 1 .. p
      BY <1>2, LinesStep DEF Lines
    <2>2. /\ p + 1 \in Lines(d, p + 1, el)
          /\ \A j \in Lines(d, p + 1, el) : j \in Nat /\ j <= p + 1
      BY <2>1
    <2>3. \A i \in Lines(d, p + 1, el) :
            (\A j \in Lines(d, p + 1, el) : j <= i) <=> i = p + 1
      BY <2>2
    <2> QED BY <1>2, <2>2, <2>3 DEF LastLine
  <1> QED BY <1>1, <1>2

LEMMA LevelStep ==
  ASSUME NEW d, NEW p \in Nat
  PROVE  /\ Level(d, p) \in Int
         /\ Level(d, p + 1) = Level(d, p) + (IF d[p + 1].tag = "start" THEN 1
                                             ELSE IF d[p + 1].tag = "end" THEN -1 ELSE 0)
  <1> DEFINE Tagged(q, t) == {i \in 1 .. q : d[i].tag = t}
  <1>1. ASSUME NEW t
        PROVE  /\ Cardinality(Tagged(p, t)) \in Nat
               /\ Cardinality(Tagged(p + 1, t)) =
                    Cardinality(Tagged(p, t)) + (IF d[p + 1].tag = t THEN 1 ELSE 0)
    <2>1. IsFiniteSet(1 .. p) /\ Tagged(p, t) \in SUBSET (1 .. p)
      BY FS_Interval
    <2>2. IsFiniteSet(Tagged(p, t))
      BY <2>1, FS_Subset
    <2>3. Tagged(p + 1, t) = IF d[p + 1].tag = t THEN Tagged(p, t) \cup {p + 1} ELSE Tagged(p, t)
      OBVIOUS
    <2>4. p + 1 \notin Tagged(p, t)
      OBVIOUS
    <2> HIDE DEF Tagged
    <2>5. Cardinality(Tagged(p, t)) \in Nat
      BY <2>2, FS_CardinalityType
    <2>6. Cardinality(Tagged(p, t) \cup {p + 1}) = Cardinality(Tagged(p, t)) + 1
      BY <2>2, <2>4, FS_AddElement
    <2> QED BY <2>3, <2>5, <2>6
  <1>2. \A q : Level(d, q) = Cardinality(Tagged(q, "start")) - Cardinality(Tagged(q, "end"))
    BY DEF Level
  <1> HIDE DEF Tagged
  <1>3. Level(d, p) = Cardinality(Tagged(p, "start")) - Cardinality(Tagged(p, "end"))
    BY <1>2
  <1>4. Level(d, p + 1) = Cardinality(Tagged(p + 1, "start")) - Cardinality(Tagged(p + 1, "end"))
    BY <1>2
  <1>5. /\ Cardinality(Tagged(p, "start")) \in Nat
        /\ Cardinality(Tagged(p, "end")) \in Nat
        /\ Cardinality(Tagged(p + 1, "start")) = Cardinality(Tagged(p, "start")) + (IF d[p + 1].tag = "start" THEN 1 ELSE 0)
        /\ Cardinality(Tagged(p + 1, "end")) = Cardinality(Tagged(p, "end")) + (IF d[p + 1].tag = "end" THEN 1 ELSE 0)
    BY <1>1
  <1> QED BY <1>3, <1>4, <1>5

LEMMA NoLevel ==
  ASSUME NEW d
  PROVE  Level(d, 0) = 0
  <1>1. {i \in 1 .. 0 : d[i].tag = "start"} = {} /\ {i \in 1 .. 0 : d[i].tag = "end"} = {}
    OBVIOUS
  <1> QED BY <1>1, FS_EmptySet DEF Level

LEMMA DomainsStep ==
  ASSUME NEW d, NEW p \in Nat, NEW size \in Nat
  PROVE  /\ EndedBy(d[p + 1]) # "value" => DomainsSaid(d, p + 1, size) = DomainsSaid(d, p, size)
         /\ EndedBy(d[p + 1]) = "value" =>
              DomainsSaid(d, p + 1, size) =
                [DomainsSaid(d, p, size) EXCEPT ![Cardinality(Lines(d, p, "value"))] = d[p + 1].text]
  <1> DEFINE V(q) == Lines(d, q, "value")
             n == Cardinality(V(p))
             Kth(q, k) == {i \in V(q) : Cardinality(V(i)) = k + 1}
  <1>0. \A q \in Nat : DomainsSaid(d, q, size) =
          [k \in 0 .. size - 1 |-> IF Kth(q, k) # {} THEN d[CHOOSE i \in Kth(q, k) : TRUE].text ELSE 0]
    <2>1. ASSUME NEW q \in Nat, NEW k \in 0 .. size - 1
          PROVE  DomainsSaid(d, q, size)[k] = (IF Kth(q, k) # {} THEN d[CHOOSE i \in Kth(q, k) : TRUE].text ELSE 0)
      <3>1. (\E i \in Lines(d, q, "value") : Cardinality(Lines(d, i, "value")) = k + 1) <=> Kth(q, k) # {}
        OBVIOUS
      <3>2. (CHOOSE i \in Lines(d, q, "value") : Cardinality(Lines(d, i, "value")) = k + 1)
              = (CHOOSE i \in Kth(q, k) : TRUE)
        OBVIOUS
      <3> QED BY <3>1, <3>2 DEF DomainsSaid
    <2> QED BY <2>1 DEF DomainsSaid
  <1>1. CASE EndedBy(d[p + 1]) # "value"
    BY <1>1, LinesStep DEF DomainsSaid
  <1>2. CASE EndedBy(d[p + 1]) = "value"
    <2>1. V(p + 1) = V(p) \cup {p + 1} /\ Cardinality(V(p + 1)) = n + 1 /\ n \in Nat
      BY <1>2, LinesStep, LinesFinite
    <2>2. \A i \in V(p) : i \in Nat /\ Cardinality(V(i)) <= n
      BY LinesGrow DEF Lines
    <2> HIDE DEF V, n
    <2>3. ASSUME NEW k \in 0 .. size - 1, k # n PROVE Kth(p + 1, k) = Kth(p, k)
      BY <2>1, <2>3
    <2>4. Kth(p + 1, n) = {p + 1}
      BY <2>1, <2>2, LinesFinite DEF V
    <2>5. (CHOOSE i \in {p + 1} : TRUE) = p + 1
      OBVIOUS
    <2> HIDE DEF Kth
    <2>6. n = Cardinality(Lines(d, p, "value"))
      BY DEF n, V
    <2>7. DomainsSaid(d, p + 1, size) = [DomainsSaid(d, p, size) EXCEPT ![n] = d[p + 1].text]
      <3>1. DomainsSaid(d, p, size) =
              [k \in 0 .. size - 1 |-> IF Kth(p, k) # {} THEN d[CHOOSE i \in Kth(p, k) : TRUE].text ELSE 0]
        BY <1>0
      <3>2. DomainsSaid(d, p + 1, size) =
              [k \in 0 .. size - 1 |-> IF Kth(p + 1, k) # {} THEN d[CHOOSE i \in Kth(p + 1, k) : TRUE].text ELSE 0]
        <4>1. p + 1 \in Nat
          OBVIOUS
        <4> QED BY <1>0, <4>1, Zenon
      <3>3. ASSUME NEW k \in 0 .. size - 1, k # n
            PROVE  DomainsSaid(d, p + 1, size)[k] = DomainsSaid(d, p, size)[k]
        BY <2>3, <3>1, <3>2, <3>3
      <3>4. n \in 0 .. size - 1 => DomainsSaid(d, p + 1, size)[n] = d[p + 1].text
        <4>1. n \in 0 .. size - 1 =>
                DomainsSaid(d, p + 1, size)[n] =
                  (IF Kth(p + 1, n) # {} THEN d[CHOOSE i \in Kth(p + 1, n) : TRUE].text ELSE 0)
          BY <3>2
        <4>2. (CHOOSE i \in Kth(p + 1, n) : TRUE) = p + 1 /\ Kth(p + 1, n) # {}
          BY <2>4, <2>5
        <4> QED BY <4>1, <4>2
      <3> QED BY <3>1, <3>2, <3>3, <3>4
    <2> QED BY <1>2, <2>6, <2>7
  <1> QED BY <1>1, <1>2

-----------------------------------------------------------------------------
(***************************************************************************)
(* Memory.                                                                 *)
(***************************************************************************)
LEMMA ImageFinite ==
  ASSUME NEW K, IsFiniteSet(K), NEW g, g = [k \in K |-> g[k]],
         NEW T, T = {g[k] : k \in K}
  PROVE  IsFiniteSet(T) /\ Cardinality(T) <= Cardinality(K)
  <1>1. g \in Surjection(K, T)
    BY DEF Surjection
  <1> QED BY <1>1, FS_Surjection

LEMMA SomeUnused ==
  ASSUME NEW T, IsFiniteSet(T), NEW x, NEW U, IsFiniteSet(U),
         NEW n \in Nat, Cardinality(T) <= n, Cardinality(U) > n + 1
  PROVE  U \ (T \cup {x}) # {}
  <1>1. SUFFICES ASSUME U \subseteq T \cup {x} PROVE FALSE
    OBVIOUS
  <1>2. IsFiniteSet(T \cup {x}) /\ Cardinality(T \cup {x}) <= Cardinality(T) + 1
    <2>1. Cardinality(T) \in Nat
      BY FS_CardinalityType
    <2>2. IsFiniteSet(T \cup {x})
      BY FS_AddElement
    <2>3. Cardinality(T \cup {x}) = IF x \in T THEN Cardinality(T) ELSE Cardinality(T) + 1
      BY FS_AddElement
    <2> QED BY <2>1, <2>2, <2>3
  <1>3. Cardinality(U) <= Cardinality(T \cup {x})
    BY <1>1, <1>2, FS_Subset
  <1>4. Cardinality(U) \in Nat /\ Cardinality(T) \in Nat /\ Cardinality(T \cup {x}) \in Nat
    BY <1>2, FS_CardinalityType
  <1> QED BY <1>2, <1>3, <1>4

LEMMA FilerMemory ==
  ASSUME EnoughMemory, TablesOK
  PROVE  UnusedFilers # {}
  <1> DEFINE T == {filertab[f] : f \in Filers}
  <1>1. /\ IsFiniteSet(Filers) /\ IsFiniteSet(FilerObjs)
        /\ Cardinality(FilerObjs) > Cardinality(Filers) + 1
    BY DEF EnoughMemory
  <1>2. IsFiniteSet(T) /\ Cardinality(T) <= Cardinality(Filers) /\ Cardinality(Filers) \in Nat
    <2>1. filertab = [f \in Filers |-> filertab[f]]
      BY DEF TablesOK
    <2> HIDE DEF T
    <2>2. T = {filertab[f] : f \in Filers}
      BY DEF T
    <2> QED BY <1>1, <2>1, <2>2, ImageFinite, FS_CardinalityType
  <1> HIDE DEF T
  <1>3. FilerObjs \ (T \cup {ftmp}) # {}
    BY <1>1, <1>2, SomeUnused
  <1> QED BY <1>3 DEF UnusedFilers, T

LEMMA VolumeMemory ==
  ASSUME EnoughMemory, TablesOK, TablesLive
  PROVE  UnusedVolumes # {}
  <1> DEFINE g == [k \in DocKeys |-> fstab[k]]
             T == {g[k] : k \in DocKeys}
  <1>1. /\ IsFiniteSet(DocKeys) /\ IsFiniteSet(VolumeObjs)
        /\ Cardinality(VolumeObjs) > Cardinality(DocKeys) + 1
    BY DEF EnoughMemory
  <1>2. IsFiniteSet(T) /\ Cardinality(T) <= Cardinality(DocKeys) /\ Cardinality(DocKeys) \in Nat
    <2>1. g = [k \in DocKeys |-> g[k]] /\ T = {g[k] : k \in DocKeys}
      OBVIOUS
    <2> HIDE DEF g, T
    <2> QED BY <1>1, <2>1, ImageFinite, FS_CardinalityType
  <1>3. \A k \in Keys : fstab[k] # NULL => fstab[k] \in T
    BY DEF TablesLive, FilersLive, VolumesLive
  <1> HIDE DEF T
  <1>4. VolumeObjs \ (T \cup {vtmp}) # {}
    BY <1>1, <1>2, SomeUnused
  <1>5. NULL \notin VolumeObjs
    BY SentinelAssumption
  <1> QED BY <1>3, <1>4, <1>5 DEF UnusedVolumes

-----------------------------------------------------------------------------
(***************************************************************************)
(* The steps of a call, but for those of the parser.                       *)
(***************************************************************************)
LEMMA CacheInit == Init => CacheInv
  <1> SUFFICES ASSUME Init PROVE CacheInv
    OBVIOUS
  <1>1. TypeOK
    BY TypeInit
  <1>2. WholeFiles
    BY DEF Init, WholeFiles
  <1>3. AtRest /\ NoUndefinedUse /\ AnswerMatchesTables
    BY DEF Init, AtRest, NoUndefinedUse, AnswerMatchesTables
  <1>4. TablesLive /\ InDocument /\ JudgedStands
    BY DEF Init, TablesLive, FilersLive, VolumesLive, InDocument, JudgedStands
  <1> QED BY <1>1, <1>2, <1>3, <1>4 DEF CacheInv

\* What the step of a call that reads no document leaves to show.
LEMMA Elsewhere ==
  ASSUME CacheInv, TypeOK', UNCHANGED <<disk, writing, mixed, parserVars>>, pc # "parse", pc' # "parse"
  PROVE  WholeFiles' /\ AtRest' /\ InDocument'
  BY DEF CacheInv, WholeFiles, AtRest, InDocument, parserVars

LEMMA LiveKept ==
  ASSUME TablesLive, UNCHANGED <<tableVars, memVars>>
  PROVE  TablesLive'
  BY DEF TablesLive, FilersLive, VolumesLive, tableVars, memVars, LiveFiler, LiveVolume

LEMMA CacheCall ==
  ASSUME CacheInv, NEW m \in FsTags, Call(m)
  PROVE  CacheInv'
  <1>1. TypeOK'
    BY TypeCall DEF CacheInv
  <1>2. pc = "idle" /\ pc' \in {"expire", "return"} /\ (pc' = "return" => m \notin DOMAIN mounttab)
    BY DEF Call, Return
  <1>3. WholeFiles' /\ AtRest' /\ InDocument'
    BY <1>1, <1>2, Elsewhere DEF Call, envVars
  <1>4. TablesLive'
    BY LiveKept DEF CacheInv, Call
  <1>5. fstag' = m
    BY DEF Call
  <1> QED BY <1>1, <1>2, <1>3, <1>4, <1>5 DEF CacheInv, JudgedStands, NoUndefinedUse, AnswerMatchesTables

LEMMA FreeFilerLive ==
  ASSUME TypeOK, TablesLive, NEW f \in Filers, filertab[f] # NULL, FreeFiler(f)
  PROVE  TablesLive'
  <1>1. TablesOK
    BY DEF TypeOK
  <1>2. /\ filertab' = [filertab EXCEPT ![f] = NULL]
        /\ fobj' = [fobj EXCEPT ![filertab[f]] = Freed]
        /\ fstab' = [k \in Keys |-> IF k \in KeysFreed(f) THEN NULL ELSE fstab[k]]
        /\ vobj' = [o \in VolumeObjs |->
                      IF \E k \in KeysFreed(f) : fstab[k] = o THEN Freed ELSE vobj[o]]
    BY DEF FreeFiler
  <1>3. ASSUME NEW g \in Filers, filertab'[g] # NULL
        PROVE  LiveFiler(filertab[g])' /\ fobj'[filertab'[g]].name = g
    <2>1. g # f /\ filertab'[g] = filertab[g]
      BY <1>1, <1>2, <1>3 DEF TablesOK
    <2>2. filertab[g] # filertab[f]
      BY <1>3, <2>1 DEF TablesLive, FilersLive, VolumesLive
    <2>3. fobj'[filertab[g]] = fobj[filertab[g]]
      BY <1>1, <1>2, <1>3, <2>1, <2>2 DEF TablesOK
    <2> QED BY <1>3, <2>1, <2>3 DEF TablesLive, FilersLive, VolumesLive, LiveFiler
  <1>4. ASSUME NEW k \in Keys, fstab'[k] # NULL
        PROVE  /\ k \in DocKeys /\ LiveVolume(fstab[k])' /\ vobj'[fstab'[k]].volume = k[2]
               /\ \A l \in Keys : fstab'[l] = fstab'[k] => l = k
    <2>1. k \notin KeysFreed(f) /\ fstab'[k] = fstab[k]
      BY <1>2, <1>4
    <2>2. \A l \in KeysFreed(f) : l \in Keys /\ fstab[l] # fstab[k]
      BY <1>4, <2>1 DEF TablesLive, FilersLive, VolumesLive, KeysFreed
    <2>3. vobj'[fstab[k]] = vobj[fstab[k]]
      BY <1>1, <1>2, <1>4, <2>1, <2>2 DEF TablesOK
    <2>4. \A l \in Keys : fstab'[l] = fstab'[k] => fstab[l] = fstab[k]
      BY <1>2, <1>4, <2>1
    <2> QED BY <1>4, <2>1, <2>3, <2>4 DEF TablesLive, FilersLive, VolumesLive, LiveVolume
  <1> QED BY <1>3, <1>4 DEF TablesLive, FilersLive, VolumesLive

LEMMA CacheExpireNext ==
  ASSUME CacheInv, ExpireNext
  PROVE  CacheInv'
  <1>1. TypeOK'
    BY TypeExpireNext DEF CacheInv
  <1>2. /\ TablesLive /\ TypeOK /\ pc = "expire"
        /\ vollist \in Seq(Mount) /\ currp \in 1 .. Len(vollist)
        /\ \A i \in 1 .. Len(vollist) : vollist[i].filer \in Filers
    BY ListTyped DEF CacheInv, TypeOK, CallOK, ExpireNext
  <1>3. CurFiler \in Filers
    BY <1>2 DEF CurFiler
  <1>4. filertab[CurFiler] # NULL => LiveFiler(filertab[CurFiler])
    BY <1>2, <1>3 DEF TablesLive, FilersLive, VolumesLive
  <1>5. Expired(CurFiler) => ~DoubleFree(CurFiler)
    BY <1>2 DEF TablesLive, FilersLive, VolumesLive, DoubleFree, KeysFreed, LiveVolume
  <1>6. \/ UNCHANGED <<tableVars, memVars>>
        \/ Expired(CurFiler) /\ FreeFiler(CurFiler)
    BY <1>4, <1>5 DEF ExpireNext
  <1>7. pc' = "expire"
    BY <1>2, <1>4, <1>5 DEF ExpireNext
  <1>8. WholeFiles' /\ AtRest' /\ InDocument'
    BY <1>1, <1>2, <1>7, Elsewhere DEF ExpireNext, envVars
  <1>9. TablesLive'
    BY <1>2, <1>3, <1>6, LiveKept, FreeFilerLive DEF Expired, LiveFiler
  <1> QED BY <1>1, <1>7, <1>8, <1>9 DEF CacheInv, JudgedStands, NoUndefinedUse, AnswerMatchesTables

\* Verdicts rest on the tables alone.
LEMMA VerdictKept ==
  ASSUME UNCHANGED <<tableVars, memVars>>, NEW m
  PROVE  Verdict(m)' = Verdict(m)
  BY DEF Verdict, tableVars, memVars

LEMMA ListDomain ==
  ASSUME TypeOK, pc \in {"expire", "check", "parse", "compare"}
  PROVE  /\ DOMAIN vollist = 1 .. Len(vollist) /\ Len(vollist) \in Nat /\ currp \in Nat \ {0}
         /\ \A i \in DOMAIN vollist : vollist[i].filer \in Filers
  BY ListTyped DEF TypeOK, CallOK

LEMMA CacheLoop ==
  ASSUME CacheInv, ExpireDone \/ CheckCached \/ CheckDone \/ Done
  PROVE  CacheInv'
  <1>1. TypeOK'
    BY TypeLoop DEF CacheInv
  <1>2. TablesLive'
    BY LiveKept DEF CacheInv, ExpireDone, CheckCached, CheckDone, Done
  <1>3. /\ pc # "parse" /\ pc' \in {"check", "compare", "return", "idle"}
        /\ UNCHANGED <<disk, writing, parserVars, tableVars, memVars>>
    BY DEF ExpireDone, CheckCached, CheckDone, Done, Return, envVars
  <1>4. WholeFiles' /\ AtRest' /\ InDocument'
    BY <1>3 DEF CacheInv, WholeFiles, AtRest, InDocument, parserVars,
                ExpireDone, CheckCached, CheckDone, Done
  <1>5. NoUndefinedUse'
    BY <1>3 DEF NoUndefinedUse
  <1>6. JudgedStands' /\ AnswerMatchesTables'
    <2>1. CASE ExpireDone
      <3>1. currp' = 1 /\ pc' = "check" /\ pc = "expire" /\ vollist' = vollist
        BY <2>1 DEF ExpireDone, Rewind, vollist
      <3>2. \A i \in DOMAIN vollist : ~(i < 1)
        BY <3>1, ListDomain DEF CacheInv
      <3> QED BY <3>1, <3>2 DEF JudgedStands, AnswerMatchesTables
    <2>2. CASE CheckCached
      <3>1. currp' = currp /\ pc' = "compare" /\ pc = "check" /\ vollist' = vollist
        BY <2>2 DEF CheckCached, vollist
      <3> QED BY <1>3, <3>1, VerdictKept DEF CacheInv, JudgedStands, AnswerMatchesTables
    <2>3. CASE CheckDone
      <3>1. currp > Len(vollist) /\ pc' = "return" /\ cc' = 0 /\ pc = "check" /\ vollist' = vollist
        BY <2>3 DEF CheckDone, Return, vollist
      <3>2. \A i \in DOMAIN vollist : i < currp
        BY <3>1, ListDomain DEF CacheInv
      <3> QED BY <1>3, <3>1, <3>2, VerdictKept DEF CacheInv, JudgedStands, AnswerMatchesTables
    <2>4. CASE Done
      BY <2>4 DEF Done, JudgedStands, AnswerMatchesTables
    <2> QED BY <2>1, <2>2, <2>3, <2>4
  <1> QED BY <1>1, <1>2, <1>4, <1>5, <1>6 DEF CacheInv

LEMMA CacheCompare ==
  ASSUME CacheInv, Compare
  PROVE  CacheInv'
  <1>1. TypeOK'
    BY TypeCompare DEF CacheInv
  <1>2. /\ pc = "compare" /\ UNCHANGED <<disk, writing, mixed, parserVars, tableVars, memVars, fstag>>
        /\ vollist' = vollist
    BY DEF Compare, envVars, vollist
  <1>3. TablesLive'
    BY <1>2, LiveKept DEF CacheInv
  <1>4. /\ currp \in DOMAIN vollist /\ CurFiler \in Filers /\ CurKey \in Keys
    <2>1. currp \in 1 .. Len(vollist) /\ CurFiler \in Filers /\ vollist \in Seq(Mount)
      BY <1>2, CurTyped, ListTyped DEF CacheInv, TypeOK
    <2>2. vollist[currp] \in Mount
      BY <2>1
    <2> QED BY <2>1, <2>2 DEF CurKey, Keys, Mount
  <1>5. /\ filertab[CurFiler] # NULL => LiveFiler(filertab[CurFiler])
        /\ fstab[CurKey] # NULL => LiveVolume(fstab[CurKey])
    BY <1>4 DEF CacheInv, TablesLive, FilersLive, VolumesLive
  <1> DEFINE result == Verdict(vollist[currp])
  <1>6. \/ result # 0 /\ Return(result) /\ UNCHANGED currp
        \/ result = 0 /\ pc' = "check" /\ Advance /\ UNCHANGED cc
    BY <1>5 DEF Compare, Verdict, CurFiler, CurKey
  <1>7. pc' \in {"return", "check"}
    BY <1>6 DEF Return
  <1>8. WholeFiles' /\ AtRest' /\ InDocument'
    BY <1>1, <1>2, <1>7, Elsewhere
  <1>9. \A m : Verdict(m)' = Verdict(m)
    BY <1>2, VerdictKept
  <1>10. JudgedStands'
    <2>1. ASSUME pc' = "check" PROVE JudgedStands'
      <3>1. result = 0 /\ currp' = currp + 1
        BY <1>6, <2>1 DEF Return, Advance
      <3>2. \A i \in DOMAIN vollist : i < currp + 1 => i < currp \/ i = currp
        BY <1>2, ListDomain DEF CacheInv
      <3>3. \A i \in DOMAIN vollist : i < currp' => Verdict(vollist[i]) = 0
        BY <1>2, <3>1, <3>2 DEF CacheInv, JudgedStands
      <3> QED BY <1>2, <1>9, <2>1, <3>3 DEF JudgedStands
    <2> QED BY <1>7, <2>1 DEF JudgedStands
  <1>11. AnswerMatchesTables'
    <2>1. ASSUME pc' = "return" PROVE AnswerMatchesTables'
      <3>1. cc' = result /\ result # 0
        BY <1>6, <2>1 DEF Return
      <3> HIDE DEF result
      <3> QED BY <1>2, <1>4, <1>9, <3>1, <2>1 DEF AnswerMatchesTables, result
    <2> QED BY <2>1 DEF AnswerMatchesTables
  <1> QED BY <1>1, <1>3, <1>7, <1>8, <1>10, <1>11 DEF CacheInv, NoUndefinedUse

LEMMA CacheOpen ==
  ASSUME CacheInv, OpenDocument
  PROVE  CacheInv'
  <1>1. TypeOK'
    BY TypeOpen DEF CacheInv
  <1>2. /\ pc = "check" /\ currp <= Len(vollist) /\ filertab[CurFiler] = NULL
        /\ pos' = 0 /\ mixed' = FALSE
        /\ UNCHANGED <<disk, writing, tableVars, memVars, depth, endelement, currp, fstag>>
        /\ vollist' = vollist /\ CurFiler' = CurFiler
    BY DEF OpenDocument, envVars, vollist, CurFiler
  <1>3. \/ CanOpen(CurFiler) /\ pc' = "parse" /\ FirstDomain
        \/ pc' = "return" /\ cc' = -1 /\ dcnt' = dcnt
    BY DEF OpenDocument, Return
  <1>4. TablesLive'
    BY <1>2, LiveKept DEF CacheInv
  <1>5. WholeFiles' /\ NoUndefinedUse'
    BY <1>2, <1>3 DEF CacheInv, WholeFiles, NoUndefinedUse
  <1>6. AtRest' /\ AnswerMatchesTables'
    BY <1>2, <1>3 DEF CacheInv, AtRest, AnswerMatchesTables
  <1>7. currp \in 1 .. Len(vollist) /\ CurFiler \in Filers
    BY <1>2, ListDomain DEF CacheInv, CurFiler
  <1>8. JudgedStands'
    <2>1. \A m : Verdict(m)' = Verdict(m)
      BY <1>2, VerdictKept
    <2>2. \A i \in DOMAIN vollist : i < currp => Verdict(vollist[i]) = 0
      BY <1>2 DEF CacheInv, JudgedStands
    <2>3. \A m : m.filer = CurFiler => Verdict(m) = -1
      BY <1>2 DEF Verdict, CompareThresholds
    <2> QED BY <1>2, <2>1, <2>2, <2>3 DEF JudgedStands
  <1>9. InDocument'
    <2> SUFFICES ASSUME pc' = "parse" PROVE InDocument'
      BY DEF InDocument
    <2> DEFINE d == disk[CurFiler]
    <2>1. dcnt' = 0 /\ depth = 0 /\ endelement \in {"none", "other"} /\ d # NoFile
      BY <1>2, <1>3 DEF FirstDomain, CanOpen, CacheInv, AtRest
    <2>2. d \in Docs[CurFiler] /\ Len(d) \in Nat
      BY <1>7, <2>1, DocsAssumption DEF CacheInv, WholeFiles
    <2>3. \A i \in VolumeLines(d) : ~(i <= 0)
      BY DEF VolumeLines
    <2> HIDE DEF d
    <2>4. Level(d, 0) = 0 /\ \A el : Lines(d, 0, el) = {} /\ Cardinality(Lines(d, 0, el)) = 0
      BY NoLevel, NoLines
    <2>5. disk'[CurFiler'] = d
      BY <1>2 DEF d
    <2>6. \A x : FilerInWork(x)'
      BY <1>2 DEF FilerInWork, tableVars
    <2> QED BY <1>2, <2>1, <2>2, <2>3, <2>4, <2>5, <2>6 DEF InDocument
  <1> QED BY <1>1, <1>4, <1>5, <1>6, <1>8, <1>9 DEF CacheInv

LEMMA CacheEndOfFile ==
  ASSUME CacheInv, EndOfFile
  PROVE  CacheInv'
  <1>1. TypeOK'
    BY TypeLoop DEF CacheInv
  <1>2. /\ pc = "parse" /\ pc' = "compare" /\ pos >= Len(disk[CurFiler])
        /\ UNCHANGED <<disk, writing, mixed, tableVars, memVars, depth, endelement, currp, fstag>>
        /\ vollist' = vollist
    BY DEF EndOfFile, envVars, parserVars, vollist
  <1>3. TablesLive'
    BY <1>2, LiveKept DEF CacheInv
  <1>4. depth = 0 /\ endelement = "other"
    <2> DEFINE d == disk[CurFiler]
    <2>1. CurFiler \in Filers /\ d # NoFile /\ pos \in Nat
      BY <1>2, CurTyped DEF CacheInv, TypeOK, CallOK, ParsesFile
    <2>2. d \in Docs[CurFiler]
      BY <2>1 DEF CacheInv, WholeFiles
    <2>3. WholeDocument(d) /\ Len(d) \in Nat
      BY <2>1, <2>2, DocsAssumption
    <2>4. /\ pos <= Len(d) /\ depth = Level(d, pos)
          /\ pos > 1 => endelement = EndedBy(d[pos])
      BY <1>2, <2>1 DEF CacheInv, InDocument
    <2>5. pos = Len(d)
      BY <1>2, <2>1, <2>3, <2>4
    <2> HIDE DEF d
    <2> QED BY <2>3, <2>4, <2>5 DEF WholeDocument, EndedBy
  <1>5. WholeFiles' /\ AtRest' /\ InDocument' /\ NoUndefinedUse' /\ AnswerMatchesTables'
    BY <1>2, <1>4 DEF CacheInv, WholeFiles, AtRest, InDocument, NoUndefinedUse, AnswerMatchesTables
  <1>6. JudgedStands'
    BY <1>2, VerdictKept DEF CacheInv, JudgedStands
  <1> QED BY <1>1, <1>3, <1>5, <1>6 DEF CacheInv

\* The clock and the monitor, and steps that change nothing.
LEMMA CacheEnvironment ==
  ASSUME CacheInv, TypeOK', UNCHANGED <<tableVars, memVars, parserVars, callVars, writing>>,
         pc = "parse" => UNCHANGED disk,
         \A f \in Filers : disk'[f] \in Docs[f] \cup {NoFile}
  PROVE  CacheInv'
  <1>1. /\ UNCHANGED <<filertab, fstab, fobj, vobj, depth, endelement, ftmp, vtmp, tmp_maxdiskb, dcnt>>
        /\ UNCHANGED <<pc, fstag, currp, pos, mixed, cc>>
        /\ vollist' = vollist /\ CurFiler' = CurFiler
    BY DEF tableVars, memVars, parserVars, callVars, vollist, CurFiler
  <1>2. WholeFiles' /\ AtRest' /\ NoUndefinedUse'
    BY <1>1 DEF CacheInv, WholeFiles, AtRest, NoUndefinedUse
  <1>3. TablesLive'
    BY LiveKept DEF CacheInv
  <1>4. JudgedStands' /\ AnswerMatchesTables'
    BY <1>1, VerdictKept DEF CacheInv, JudgedStands, AnswerMatchesTables
  <1>5. InDocument'
    <2>1. /\ \A d : FilerInWork(d)' <=> FilerInWork(d)
          /\ \A d, i : VolumeInWork(d, i)' <=> VolumeInWork(d, i)
      BY <1>1 DEF FilerInWork, VolumeInWork, LiveFiler, LiveVolume
    <2> QED BY <1>1, <2>1 DEF CacheInv, InDocument
  <1> QED BY <1>2, <1>3, <1>4, <1>5 DEF CacheInv

LEMMA CacheMonitor ==
  ASSUME Faults \subseteq {"entry"}, CacheInv, Monitor
  PROVE  CacheInv'
  <1>1. PICK f \in Filers : Publish(f) \/ OpenForWrite(f) \/ WriteLines(f) \/ WriteFails(f)
    BY DEF Monitor
  <1>2. writing[f] = << >>
    BY <1>1 DEF CacheInv, WholeFiles
  <1>3. Publish(f)
    BY <1>1, <1>2 DEF OpenForWrite, WriteLines, WriteFails
  <1>4. TypeOK'
    BY <1>3, TypePublish DEF CacheInv
  <1>5. \A g \in Filers : disk'[g] \in Docs[g] \cup {NoFile}
    BY <1>3 DEF Publish, CacheInv, WholeFiles, TypeOK, EnvOK
  <1> QED BY <1>3, <1>4, <1>5, CacheEnvironment DEF Publish

-----------------------------------------------------------------------------
(***************************************************************************)
(* A line of a document.                                                   *)
(***************************************************************************)

\* What process_element() is called with: the next line d[pos + 1] of the
\* document, but for the first, a declaration, which leaves endelement as the
\* document before left it.
LineRead(d) ==
  /\ CurFiler \in Filers /\ d = disk[CurFiler]
  /\ d \in Docs[CurFiler] /\ d \in Seq(Line) /\ WholeDocument(d)
  /\ pos \in Nat /\ pos' = pos + 1 /\ pos + 1 \in 1 .. Len(d)
  /\ depth' = Level(d, pos + 1)
  /\ IF pos = 0 THEN EndedBy(d[pos + 1]) = "none" /\ endelement' \in {"none", "other"}
                ELSE endelement' = EndedBy(d[pos + 1])
  /\ endelement' \notin {"none", "other"} => pos >= 2 /\ last_content' = d[pos + 1].text
  /\ endelement' = "filer" <=> pos = 2
  /\ pos = 2 => last_content' = CurFiler
  /\ endelement' \in {"value", "domains"} => pos >= 3

LEMMA LineReadHolds ==
  ASSUME CacheInv, ParseLine, NEW d, d = disk[CurFiler]
  PROVE  LineRead(d)
  <1>1. /\ pc = "parse" /\ pos \in Nat /\ pos' = pos + 1
        /\ CurFiler \in Filers /\ d # NoFile
    BY CurTyped DEF CacheInv, TypeOK, CallOK, ParsesFile, ParseLine
  <1>2. pos + 1 \in 1 .. Len(d) /\ d[pos + 1] \in Line
    BY LineTyped DEF CacheInv, ParseLine
  <1>3. d \in Docs[CurFiler]
    BY <1>1 DEF CacheInv, WholeFiles
  <1>4. d \in Seq(Line) /\ WholeDocument(d) /\ Placed(CurFiler, d[pos + 1], pos + 1)
    BY <1>1, <1>2, <1>3, DocsAssumption
  <1> DEFINE line == d[pos + 1]
  <1>5. Handlers(line)
    BY DEF ParseLine
  <1>6. depth = Level(d, pos) /\ (pos <= 1 => endelement \in {"none", "other"})
    BY <1>1 DEF CacheInv, InDocument
  <1>7. depth' = Level(d, pos + 1)
    BY <1>1, <1>5, <1>6, LevelStep DEF Handlers
  <1> HIDE DEF line
  <1>8. /\ line.tag = "decl" <=> pos = 0
        /\ pos = 1 => line.tag = "start"
        /\ pos = 2 => line.tag = "leaf" /\ line.text = CurFiler
        /\ line.el = "filer" <=> pos = 2
        /\ line.el \in {"value", "domains"} => pos >= 3
    BY <1>1, <1>4 DEF Placed, line
  <1>9. EndedBy(line) = IF line.tag \in {"decl", "start"} THEN "none" ELSE line.el
    BY DEF EndedBy
  <1>10. /\ endelement' = IF line.tag = "decl" THEN endelement ELSE EndedBy(line)
         /\ last_content' = IF line.tag \in {"decl", "start"} THEN last_content ELSE line.text
    BY <1>5 DEF Handlers
  <1>11. /\ IF pos = 0 THEN EndedBy(line) = "none" /\ endelement' \in {"none", "other"}
                       ELSE endelement' = EndedBy(line)
         /\ endelement' \notin {"none", "other"} => pos >= 2 /\ last_content' = line.text
         /\ endelement' = "filer" <=> pos = 2
         /\ pos = 2 => last_content' = CurFiler
         /\ endelement' \in {"value", "domains"} => pos >= 3
    BY <1>1, <1>6, <1>8, <1>9, <1>10
  <1> QED BY <1>1, <1>2, <1>3, <1>4, <1>7, <1>11 DEF LineRead, line

\* The volume that a line is about, and there is only one.
LEMMA BlockOf ==
  ASSUME NEW d, LineRead(d), NEW k \in 1 .. 4, endelement' = AfterName[k]
  PROVE  /\ pos + 1 - k \in VolumeLines(d) /\ pos + 1 - k \in Nat
         /\ \A i \in VolumeLines(d) : i <= pos + 1 /\ pos + 1 < i + 4 => i = pos + 1 - k
  <1>1. endelement' \notin {"none", "other", "name"}
    BY DEF AfterName
  <1>2. EndedBy(d[pos + 1]) = AfterName[k] /\ pos \in Nat /\ pos + 1 \in 1 .. Len(d) /\ WholeDocument(d)
    BY <1>1 DEF LineRead
  <1>3. pos + 1 - k \in VolumeLines(d)
    BY <1>2 DEF WholeDocument
  <1>4. ASSUME NEW i \in VolumeLines(d), i <= pos + 1, pos + 1 < i + 4
        PROVE  i = pos + 1 - k
    <2>1. i \in Nat /\ EndedBy(d[i]) = "name" /\ \A j \in 1 .. 4 : EndedBy(d[i + j]) = AfterName[j]
      BY <1>2 DEF WholeDocument, VolumeLines, NamesVolume
    <2>2. i # pos + 1
      BY <1>1, <1>2, <2>1
    <2>3. PICK j \in 1 .. 3 : pos + 1 = i + j
      <3>1. pos + 1 - i \in 1 .. 3
        BY <1>2, <1>4, <2>1, <2>2
      <3> QED BY <1>2, <2>1, <3>1
    <2>4. AfterName[j] = AfterName[k]
      BY <1>2, <2>1, <2>3
    <2>5. j = k
      BY <2>4 DEF AfterName
    <2> QED BY <1>2, <2>1, <2>3, <2>5
  <1> QED BY <1>2, <1>3, <1>4 DEF VolumeLines

\* A line within a volume is its name or one of its counters.
LEMMA BlockLine ==
  ASSUME NEW d, LineRead(d), NEW i \in VolumeLines(d), i <= pos + 1, pos + 1 < i + 4
  PROVE  \/ i = pos + 1 /\ endelement' = "name" /\ depth' = 5
         \/ /\ endelement' \in {"avglatency", "availsize", "availinodes"}
            /\ i <= pos /\ pos < i + 4
  <1>1. /\ i \in Nat /\ EndedBy(d[i]) = "name" /\ Level(d, i) = 5
        /\ \A j \in 1 .. 4 : EndedBy(d[i + j]) = AfterName[j]
    BY DEF LineRead, WholeDocument, VolumeLines, NamesVolume
  <1>2. pos \in Nat
    BY DEF LineRead
  <1>3. CASE i = pos + 1
    BY <1>1, <1>3 DEF LineRead
  <1>4. CASE i # pos + 1
    <2>1. PICK j \in 1 .. 3 : pos + 1 = i + j
      <3>1. pos + 1 - i \in 1 .. 3
        BY <1>1, <1>2, <1>4
      <3> QED BY <1>1, <1>2, <3>1
    <2>2. EndedBy(d[pos + 1]) = AfterName[j]
      BY <1>1, <2>1
    <2>3. AfterName[j] \in {"avglatency", "availsize", "availinodes"}
      BY DEF AfterName
    <2>4. endelement' = AfterName[j]
      BY <2>2, <2>3 DEF LineRead
    <2> QED BY <1>1, <1>2, <2>1, <2>3, <2>4
  <1> QED BY <1>3, <1>4

\* What a line does to the filers: it leaves the others alone, and the statics
\* hold what the lines so far say.
FilerSide(d) ==
  /\ dcnt' = Cardinality(Lines(d, pos + 1, "value"))
  /\ FilerInWork(d)'
  /\ FilersLive'
  /\ \A f \in Filers : f # CurFiler =>
       /\ filertab'[f] = filertab[f]
       /\ filertab[f] # NULL => fobj'[filertab[f]] = fobj[filertab[f]]

LEMMA FilerSideFacts ==
  ASSUME CacheInv, ParseLine, NEW d, LineRead(d)
  PROVE  /\ TablesOK /\ ftmp \in FilerObjs \cup {NULL} /\ pos \in Nat /\ pos' = pos + 1
         /\ CurFiler \in Filers /\ CurFiler' = CurFiler
         /\ FilersLive /\ FilerInWork(d)
         /\ dcnt = Cardinality(Lines(d, pos, "value"))
  <1>1. pc = "parse" /\ d = disk[CurFiler] /\ CurFiler \in Filers /\ pos' = pos + 1
    BY DEF ParseLine, LineRead
  <1>2. CurFiler' = CurFiler
    BY DEF ParseLine, CurFiler, vollist
  <1> QED BY <1>1, <1>2 DEF CacheInv, TypeOK, ParserOK, CallOK, TablesLive, InDocument

LEMMA FilersUntouched ==
  ASSUME CacheInv, ParseLine, NEW d, LineRead(d),
         endelement' \notin {"filer", "value"}, UNCHANGED <<filertab, fobj, ftmp, dcnt>>
  PROVE  FilerSide(d)
  <1>1. /\ pos \in Nat /\ pos' = pos + 1 /\ CurFiler' = CurFiler
        /\ FilersLive /\ FilerInWork(d)
        /\ dcnt = Cardinality(Lines(d, pos, "value"))
    BY FilerSideFacts
  <1>2. EndedBy(d[pos + 1]) # "value" /\ pos # 2
    BY DEF LineRead
  <1>3. /\ dcnt' = Cardinality(Lines(d, pos + 1, "value"))
        /\ DomainsSaid(d, pos + 1, DomainSize) = DomainsSaid(d, pos, DomainSize)
    BY <1>1, <1>2, LinesStep, DomainsStep, DomainSizeAssumption
  <1>4. FilerInWork(d)'
    BY <1>1, <1>2, <1>3 DEF FilerInWork, LiveFiler
  <1>5. FilersLive'
    BY <1>1 DEF FilersLive, LiveFiler
  <1> QED BY <1>3, <1>4, <1>5 DEF FilerSide

LEMMA NewFilerSide ==
  ASSUME Faults \subseteq {"entry"}, EnoughMemory,
         CacheInv, ParseLine, NEW d, LineRead(d), NewFiler(endelement', last_content')
  PROVE  FilerSide(d) /\ pc' = pc
  <1>1. /\ TablesOK /\ pos \in Nat /\ pos' = pos + 1 /\ CurFiler \in Filers /\ CurFiler' = CurFiler
        /\ FilersLive /\ FilerInWork(d)
        /\ dcnt = Cardinality(Lines(d, pos, "value"))
    BY FilerSideFacts
  <1>2. pos = 2 /\ last_content' = CurFiler /\ EndedBy(d[pos + 1]) # "value"
    BY DEF LineRead, NewFiler
  <1>3. UnusedFilers # {} /\ ~CallocMayFail(UnusedFilers)
    BY <1>1, FilerMemory DEF CallocMayFail
  <1> DEFINE new == [name |-> CurFiler, readTime |-> ReadTime, domains |-> [i \in DomainIndex |-> 0]]
  <1>4. /\ ftmp' \in UnusedFilers
        /\ fobj' = [p \in FilerObjs |->
             IF p = ftmp' THEN new ELSE IF \E f \in Filers : filertab[f] = p THEN fobj[p] ELSE Freed]
        /\ pc' = pc /\ UNCHANGED <<filertab, dcnt>>
    BY <1>2, <1>3 DEF NewFiler, tableVars
  <1>5. new \in FilerRec /\ new # Freed
    <2>1. now \in Nat
      BY DEF CacheInv, TypeOK, EnvOK
    <2> QED BY <1>1, <2>1, NewFilerTyped, SentinelAssumption DEF ReadTime
  <1>6. ftmp' \in FilerObjs /\ ftmp' # NULL /\ \A f \in Filers : filertab[f] # ftmp'
    BY <1>4, SentinelAssumption DEF UnusedFilers
  <1>7. fobj'[ftmp'] = new
    BY <1>4, <1>6
  <1>8. \A f \in Filers : filertab[f] # NULL => fobj'[filertab[f]] = fobj[filertab[f]]
    BY <1>1, <1>4, <1>6 DEF TablesOK
  <1>9. \A p \in 0 .. 3 : Lines(d, p, "value") = {}
    <2>1. ASSUME NEW i \in 1 .. 3 PROVE i \in 1 .. Len(d) /\ EndedBy(d[i]) # "value"
      <3>1. i \in 1 .. Len(d) /\ Placed(CurFiler, d[i], i)
        BY <1>1, <1>2, DocsAssumption DEF LineRead
      <3> QED BY <3>1 DEF Placed, EndedBy
    <2> QED BY <2>1 DEF Lines
  <1>10. dcnt' = Cardinality(Lines(d, pos + 1, "value"))
    BY <1>1, <1>2, <1>4, LinesStep
  <1>11. DomainsSaid(d, 3, DomainSize) = [i \in DomainIndex |-> 0]
    BY <1>9 DEF DomainsSaid, DomainIndex
  <1>12. FilerInWork(d)'
    <2>1. /\ fobj'[ftmp'].name = CurFiler /\ fobj'[ftmp'].domains = [i \in DomainIndex |-> 0]
      BY <1>7
    <2>2. fobj'[ftmp'] # Freed
      BY <1>5, <1>7
    <2> HIDE DEF new
    <2> QED BY <1>1, <1>2, <1>4, <1>6, <1>11, <2>1, <2>2 DEF FilerInWork, LiveFiler
  <1> HIDE DEF new
  <1>13. FilersLive'
    BY <1>1, <1>4, <1>8 DEF FilersLive, LiveFiler
  <1> QED BY <1>4, <1>8, <1>10, <1>12, <1>13 DEF FilerSide

LEMMA DomainValueSide ==
  ASSUME DomainsFit, CacheInv, ParseLine, NEW d, LineRead(d), DomainValue(endelement', last_content')
  PROVE  FilerSide(d) /\ pc' = pc
  <1>1. /\ TablesOK /\ pos \in Nat /\ pos' = pos + 1 /\ CurFiler \in Filers /\ CurFiler' = CurFiler
        /\ FilersLive /\ FilerInWork(d) /\ ftmp \in FilerObjs \cup {NULL}
        /\ dcnt = Cardinality(Lines(d, pos, "value"))
    BY FilerSideFacts
  <1>2. pos >= 3 /\ last_content' = d[pos + 1].text /\ EndedBy(d[pos + 1]) = "value"
        /\ d \in Docs[CurFiler] /\ pos + 1 <= Len(d) /\ Len(d) \in Nat
    BY DEF LineRead, DomainValue
  <1>3. /\ LiveFiler(ftmp) /\ fobj[ftmp].name = CurFiler /\ filertab[CurFiler] \in {NULL, ftmp}
        /\ fobj[ftmp].domains = DomainsSaid(d, pos, DomainSize)
    BY <1>1, <1>2 DEF FilerInWork
  <1>4. Cardinality(Lines(d, pos + 1, "value")) = dcnt + 1 /\ dcnt \in Nat
    BY <1>1, <1>2, LinesStep, LinesFinite
  <1>5. dcnt \in DomainIndex
    <2>1. Cardinality(Lines(d, Len(d), "value")) <= DomainSize /\ Cardinality(Lines(d, Len(d), "value")) \in Nat
      BY <1>1, <1>2, LinesFinite DEF DomainsFit
    <2>2. Cardinality(Lines(d, pos + 1, "value")) <= Cardinality(Lines(d, Len(d), "value"))
      <3>1. pos + 1 \in Nat
        BY <1>1
      <3> QED BY <1>2, <3>1, LinesGrow
    <2> QED BY <1>4, <2>1, <2>2, DomainSizeAssumption DEF DomainIndex
  <1>6. /\ fobj' = [fobj EXCEPT ![ftmp].domains[dcnt] = last_content'] /\ dcnt' = dcnt + 1
        /\ UNCHANGED <<filertab, ftmp, pc>>
    BY <1>3, <1>5 DEF DomainValue, NextDomain, tableVars
  <1>7. ftmp \in FilerObjs /\ fobj[ftmp] \in FilerRec
    BY <1>1, <1>3, LiveTyped
  <1>8. /\ fobj'[ftmp].name = CurFiler /\ fobj'[ftmp] \in FilerRec
        /\ fobj'[ftmp].domains = [fobj[ftmp].domains EXCEPT ![dcnt] = last_content']
        /\ \A p \in FilerObjs : p # ftmp => fobj'[p] = fobj[p]
    <2>1. TablesOK' /\ fobj'[ftmp] = [fobj[ftmp] EXCEPT !.domains[dcnt] = last_content']
      BY <1>1, <1>6, <1>7, TypeElement DEF CacheInv, TablesOK
    <2>2. fobj'[ftmp] # Freed
      <3>1. last_content' \in Nat
        BY HandlersTyped DEF CacheInv, DomainValue, Text, NumberElements
      <3>2. fobj'[ftmp] \in FilerRec
        BY <1>5, <1>7, <2>1, <3>1 DEF FilerRec
      <3> QED BY <3>2, SentinelAssumption
    <2> QED BY <1>1, <1>3, <1>6, <1>7, <2>1, <2>2 DEF TablesOK, FilerRec
  <1>9. fobj'[ftmp].domains = DomainsSaid(d, pos + 1, DomainSize)
    BY <1>1, <1>2, <1>3, <1>8, DomainsStep, DomainSizeAssumption
  <1>10. fobj'[ftmp] # Freed /\ ftmp # NULL
    BY <1>7, <1>8, SentinelAssumption
  <1>11. FilerInWork(d)'
    BY <1>1, <1>2, <1>3, <1>6, <1>8, <1>9, <1>10 DEF FilerInWork, LiveFiler
  <1>12. FilersLive'
    BY <1>1, <1>3, <1>6, <1>8, <1>10 DEF FilersLive, LiveFiler, TablesOK
  <1>13. \A f \in Filers : f # CurFiler /\ filertab[f] # NULL => fobj'[filertab[f]] = fobj[filertab[f]]
    BY <1>1, <1>3, <1>8 DEF FilersLive, TablesOK
  <1> QED BY <1>4, <1>6, <1>11, <1>12, <1>13 DEF FilerSide

LEMMA InstallFilerSide ==
  ASSUME CacheInv, ParseLine, NEW d, LineRead(d), InstallFiler(endelement')
  PROVE  FilerSide(d) /\ pc' = pc /\ ("entry" \notin Faults => filertab'[CurFiler] = ftmp)
  <1>1. /\ TablesOK /\ pos \in Nat /\ pos' = pos + 1 /\ CurFiler \in Filers /\ CurFiler' = CurFiler
        /\ FilersLive /\ FilerInWork(d) /\ ftmp \in FilerObjs \cup {NULL}
        /\ dcnt = Cardinality(Lines(d, pos, "value"))
    BY FilerSideFacts
  <1>2. pos >= 3 /\ EndedBy(d[pos + 1]) # "value"
    BY DEF LineRead, InstallFiler
  <1>3. LiveFiler(ftmp) /\ fobj[ftmp].name = CurFiler
    BY <1>1, <1>2 DEF FilerInWork
  <1>4. /\ filertab' \in HashInstall(filertab, CurFiler, ftmp)
        /\ UNCHANGED <<fobj, ftmp, dcnt, pc>>
    BY <1>3 DEF InstallFiler, memVars
  <1>5. /\ filertab'[CurFiler] \in {filertab[CurFiler], ftmp}
        /\ "entry" \notin Faults => filertab'[CurFiler] = ftmp
        /\ \A f \in Filers : f # CurFiler => filertab'[f] = filertab[f]
    BY <1>1, <1>4 DEF HashInstall, TablesOK
  <1>6. /\ dcnt' = Cardinality(Lines(d, pos + 1, "value"))
        /\ DomainsSaid(d, pos + 1, DomainSize) = DomainsSaid(d, pos, DomainSize)
    BY <1>1, <1>2, <1>4, LinesStep, DomainsStep, DomainSizeAssumption
  <1>7. FilerInWork(d)'
    BY <1>1, <1>2, <1>4, <1>5, <1>6 DEF FilerInWork, LiveFiler
  <1>8. FilersLive'
    BY <1>1, <1>3, <1>4, <1>5 DEF FilersLive, LiveFiler
  <1> QED BY <1>4, <1>5, <1>6, <1>7, <1>8 DEF FilerSide

\* What a line does to the volumes: those in fstab stay as they are, but for the
\* entry that </volume> sets, and the statics hold what the lines so far say of
\* the volume they are about.
VolumeSide(d) ==
  /\ Lines(d, pos + 1, "maxdiskb") # {} => tmp_maxdiskb' = d[LastLine(d, pos + 1, "maxdiskb")].text
  /\ \A i \in VolumeLines(d) : i <= pos + 1 /\ pos + 1 < i + 4 => VolumeInWork(d, i)'
  /\ VolumesLive'
  /\ \A k \in Keys : fstab[k] # NULL => vobj'[fstab[k]] = vobj[fstab[k]]
  /\ \A k \in Keys : \/ fstab'[k] = fstab[k]
                     \/ /\ endelement' = "volume" /\ fstab'[k] = vtmp
                        /\ k = <<CurFiler, vobj[vtmp].volume>>

LEMMA VolumeSideFacts ==
  ASSUME CacheInv, ParseLine, NEW d, LineRead(d)
  PROVE  /\ TablesOK /\ vtmp \in VolumeObjs \cup {NULL} /\ pos \in Nat /\ pos' = pos + 1
         /\ VolumesLive
         /\ \A i \in VolumeLines(d) : i <= pos /\ pos < i + 4 => VolumeInWork(d, i)
         /\ Lines(d, pos, "maxdiskb") # {} => tmp_maxdiskb = d[LastLine(d, pos, "maxdiskb")].text
  <1>1. pc = "parse" /\ d = disk[CurFiler] /\ pos' = pos + 1
    BY DEF ParseLine, LineRead
  <1> QED BY <1>1 DEF CacheInv, TypeOK, ParserOK, CallOK, TablesLive, InDocument

\* The disk busy that the lines so far say, whatever kind of line this is.
LEMMA DiskBusySaid ==
  ASSUME CacheInv, ParseLine, NEW d, LineRead(d),
         tmp_maxdiskb' = IF endelement' = "maxdiskb" THEN last_content' ELSE tmp_maxdiskb
  PROVE  Lines(d, pos + 1, "maxdiskb") # {} => tmp_maxdiskb' = d[LastLine(d, pos + 1, "maxdiskb")].text
  <1>1. /\ pos \in Nat
        /\ Lines(d, pos, "maxdiskb") # {} => tmp_maxdiskb = d[LastLine(d, pos, "maxdiskb")].text
    BY VolumeSideFacts
  <1>2. CASE endelement' = "maxdiskb"
    <2>1. EndedBy(d[pos + 1]) = "maxdiskb" /\ last_content' = d[pos + 1].text
      BY <1>2 DEF LineRead
    <2> QED BY <1>1, <1>2, <2>1, LastLineStep
  <1>3. CASE endelement' # "maxdiskb"
    <2>1. EndedBy(d[pos + 1]) # "maxdiskb"
      BY <1>3 DEF LineRead
    <2> QED BY <1>1, <1>3, <2>1, LastLineStep, LinesStep
  <1> QED BY <1>2, <1>3

LEMMA VolumesUntouched ==
  ASSUME CacheInv, ParseLine, NEW d, LineRead(d),
         endelement' \notin {"avglatency", "availsize", "availinodes"},
         ~(endelement' = "name" /\ depth' = 5),
         UNCHANGED <<fstab, vobj, vtmp>>,
         tmp_maxdiskb' = IF endelement' = "maxdiskb" THEN last_content' ELSE tmp_maxdiskb
  PROVE  VolumeSide(d)
  <1>1. VolumesLive'
    BY VolumeSideFacts DEF VolumesLive, LiveVolume
  <1>2. \A i \in VolumeLines(d) : ~(i <= pos + 1 /\ pos + 1 < i + 4)
    BY BlockLine
  <1> QED BY <1>1, <1>2, DiskBusySaid DEF VolumeSide

LEMMA NewVolumeSide ==
  ASSUME Faults \subseteq {"entry"}, EnoughMemory,
         CacheInv, ParseLine, NEW d, LineRead(d), NewVolume(endelement', last_content')
  PROVE  VolumeSide(d) /\ pc' = pc
  <1>1. /\ TablesOK /\ pos \in Nat /\ pos' = pos + 1 /\ VolumesLive
        /\ \A i \in VolumeLines(d) : i <= pos /\ pos < i + 4 => VolumeInWork(d, i)
        /\ Lines(d, pos, "maxdiskb") # {} => tmp_maxdiskb = d[LastLine(d, pos, "maxdiskb")].text
    BY VolumeSideFacts
  <1>2. /\ endelement' = "name" /\ last_content' = d[pos + 1].text
        /\ EndedBy(d[pos + 1]) = "name" /\ WholeDocument(d)
    BY DEF LineRead, NewVolume
  <1>3. UnusedVolumes # {} /\ ~CallocMayFail(UnusedVolumes)
    BY <1>1, VolumeMemory DEF CallocMayFail, CacheInv
  <1> DEFINE new == [volume |-> last_content',
                     ctr |-> [c \in Counters |-> IF c = "maxdiskb" THEN tmp_maxdiskb ELSE 0]]
  <1>4. /\ vtmp' \in UnusedVolumes
        /\ vobj' = [p \in VolumeObjs |->
             IF p = vtmp' THEN new ELSE IF \E k \in Keys : fstab[k] = p THEN vobj[p] ELSE Freed]
        /\ pc' = pc /\ UNCHANGED <<fstab, tmp_maxdiskb>>
    BY <1>3 DEF NewVolume, tableVars
  <1>5. new # Freed
    <2>1. last_content' \in Names /\ tmp_maxdiskb \in Nat
      BY <1>2, HandlersTyped DEF CacheInv, TypeOK, ParserOK, Text
    <2> QED BY <2>1, NewVolumeTyped, SentinelAssumption
  <1>6. vtmp' \in VolumeObjs /\ vtmp' # NULL /\ \A k \in Keys : fstab[k] # vtmp'
    BY <1>4, SentinelAssumption DEF UnusedVolumes
  <1>7. vobj'[vtmp'] = new
    BY <1>4, <1>6
  <1>8. new.volume = d[pos + 1].text /\ new.ctr["maxdiskb"] = tmp_maxdiskb
    BY <1>2 DEF Counters
  <1> HIDE DEF new
  <1>9. \A k \in Keys : fstab[k] # NULL => vobj'[fstab[k]] = vobj[fstab[k]]
    BY <1>1, <1>4, <1>6 DEF TablesOK
  <1>10. VolumesLive'
    BY <1>1, <1>4, <1>9 DEF VolumesLive, LiveVolume
  <1>11. ASSUME NEW i \in VolumeLines(d), i <= pos + 1, pos + 1 < i + 4
         PROVE  VolumeInWork(d, i)'
    <2>1. i = pos + 1
      BY <1>2, <1>11, BlockLine
    <2>2. Lines(d, pos + 1, "maxdiskb") # {}
      BY <1>2, <2>1 DEF WholeDocument
    <2>3. tmp_maxdiskb = d[LastLine(d, i, "maxdiskb")].text
      BY <1>1, <1>2, <2>1, <2>2, LinesStep, LastLineStep
    <2> QED BY <1>1, <1>4, <1>5, <1>6, <1>7, <1>8, <2>1, <2>3 DEF VolumeInWork, LiveVolume
  <1>12. Lines(d, pos + 1, "maxdiskb") # {} => tmp_maxdiskb' = d[LastLine(d, pos + 1, "maxdiskb")].text
    BY <1>2, <1>4, DiskBusySaid
  <1> QED BY <1>4, <1>9, <1>10, <1>11, <1>12 DEF VolumeSide

\* What <avglatency>, <availsize> and <availinodes> mean to the volume at work.
LEMMA CounterSet ==
  ASSUME TypeOK, ParseLine, LiveVolume(vtmp), VolumeCounter(endelement', last_content')
  PROVE  /\ vtmp \in VolumeObjs /\ vobj'[vtmp] # Freed
         /\ vobj'[vtmp].volume = vobj[vtmp].volume
         /\ vobj'[vtmp].ctr = [vobj[vtmp].ctr EXCEPT ![endelement'] = last_content']
         /\ endelement' \in DOMAIN vobj[vtmp].ctr
         /\ \A p \in VolumeObjs : p # vtmp => vobj'[p] = vobj[p]
  <1>1. vobj \in [VolumeObjs -> VolumeRec \cup {Freed}] /\ vtmp \in VolumeObjs /\ vobj[vtmp] \in VolumeRec
    BY DEF TypeOK, TablesOK, ParserOK, LiveVolume
  <1>2. vobj' = [vobj EXCEPT ![vtmp].ctr[endelement'] = last_content']
    BY DEF VolumeCounter
  <1>3. endelement' \in Counters /\ last_content' \in Nat
    BY HandlersTyped DEF VolumeCounter, Text, NumberElements, Counters
  <1>4. vobj'[vtmp] \in VolumeRec
    BY <1>1, <1>2, <1>3 DEF VolumeRec
  <1>5. vobj'[vtmp] # Freed
    BY <1>4, SentinelAssumption
  <1> QED BY <1>1, <1>2, <1>3, <1>5 DEF VolumeRec

LEMMA VolumeCounterSide ==
  ASSUME CacheInv, ParseLine, NEW d, LineRead(d), VolumeCounter(endelement', last_content')
  PROVE  VolumeSide(d) /\ pc' = pc
  <1>1. /\ TablesOK /\ pos \in Nat /\ pos' = pos + 1 /\ VolumesLive
        /\ \A i \in VolumeLines(d) : i <= pos /\ pos < i + 4 => VolumeInWork(d, i)
    BY VolumeSideFacts
  <1>2. /\ endelement' \in {"avglatency", "availsize", "availinodes"} /\ last_content' = d[pos + 1].text
        /\ UNCHANGED <<fstab, vtmp, tmp_maxdiskb>>
    BY DEF LineRead, VolumeCounter, tableVars
  <1>3. PICK k \in 1 .. 3 : endelement' = AfterName[k]
    BY <1>2 DEF AfterName
  <1>4. PICK i \in VolumeLines(d) :
          /\ i = pos + 1 - k
          /\ \A j \in VolumeLines(d) : j <= pos + 1 /\ pos + 1 < j + 4 => j = i
    BY <1>3, BlockOf
  <1>5. VolumeInWork(d, i)
    BY <1>1, <1>4
  <1>6. /\ LiveVolume(vtmp) /\ \A l \in Keys : fstab[l] # vtmp
        /\ vobj[vtmp].volume = d[i].text
        /\ vobj[vtmp].ctr["maxdiskb"] = d[LastLine(d, i, "maxdiskb")].text
        /\ \A j \in 1 .. 3 : i + j <= pos => vobj[vtmp].ctr[AfterName[j]] = d[i + j].text
    BY <1>5 DEF VolumeInWork
  <1>7. /\ vtmp \in VolumeObjs /\ vobj'[vtmp] # Freed
        /\ vobj'[vtmp].volume = vobj[vtmp].volume
        /\ vobj'[vtmp].ctr = [vobj[vtmp].ctr EXCEPT ![endelement'] = last_content']
        /\ endelement' \in DOMAIN vobj[vtmp].ctr
        /\ \A p \in VolumeObjs : p # vtmp => vobj'[p] = vobj[p]
    BY <1>6, CounterSet DEF CacheInv
  <1>8. pc' = pc
    BY <1>6 DEF VolumeCounter
  <1>9. \A l \in Keys : fstab[l] # NULL => vobj'[fstab[l]] = vobj[fstab[l]]
    BY <1>1, <1>6, <1>7 DEF TablesOK
  <1>10. VolumesLive'
    BY <1>1, <1>2, <1>9 DEF VolumesLive, LiveVolume
  <1>11. VolumeInWork(d, i)'
    <2>1. ASSUME NEW j \in 1 .. 3, i + j <= pos + 1
          PROVE  vobj'[vtmp].ctr[AfterName[j]] = d[i + j].text
      <3>1. CASE j = k
        <4>1. i + j = pos + 1
          BY <1>1, <1>4, <3>1
        <4> QED BY <1>2, <1>3, <1>7, <3>1, <4>1
      <3>2. CASE j # k
        <4>1. i + j <= pos
          BY <1>1, <1>4, <2>1, <3>2
        <4>2. AfterName[j] # AfterName[k]
          BY <3>2 DEF AfterName
        <4> QED BY <1>3, <1>6, <1>7, <4>1, <4>2
      <3> QED BY <3>1, <3>2
    <2>2. vobj'[vtmp].ctr["maxdiskb"] = vobj[vtmp].ctr["maxdiskb"]
      BY <1>2, <1>7
    <2>3. LiveVolume(vtmp)'
      BY <1>2, <1>6, <1>7 DEF LiveVolume
    <2> QED BY <1>1, <1>2, <1>6, <1>7, <2>1, <2>2, <2>3 DEF VolumeInWork
  <1>12. Lines(d, pos + 1, "maxdiskb") # {} => tmp_maxdiskb' = d[LastLine(d, pos + 1, "maxdiskb")].text
    BY <1>2, DiskBusySaid
  <1> QED BY <1>2, <1>4, <1>8, <1>9, <1>10, <1>11, <1>12 DEF VolumeSide

LEMMA InstallVolumeSide ==
  ASSUME CacheInv, ParseLine, NEW d, LineRead(d), InstallVolume(endelement')
  PROVE  /\ VolumeSide(d) /\ pc' = pc
         /\ pos - 3 \in VolumeLines(d) /\ VolumeInWork(d, pos - 3)
         /\ "entry" \notin Faults => fstab' = [fstab EXCEPT ![<<CurFiler, d[pos - 3].text>>] = vtmp]
  <1>1. /\ TablesOK /\ pos \in Nat /\ pos' = pos + 1 /\ VolumesLive /\ vtmp \in VolumeObjs \cup {NULL}
        /\ \A i \in VolumeLines(d) : i <= pos /\ pos < i + 4 => VolumeInWork(d, i)
    BY VolumeSideFacts
  <1>2. endelement' = AfterName[4] /\ CurFiler \in Filers /\ d \in Docs[CurFiler]
    BY DEF LineRead, InstallVolume, AfterName
  <1> DEFINE i == pos - 3
  <1>3. i \in VolumeLines(d) /\ i \in Nat /\ i > 0
    <2>1. pos + 1 - 4 = pos - 3
      BY <1>1
    <2> QED BY <1>2, <2>1, BlockOf DEF VolumeLines
  <1>4. VolumeInWork(d, i)
    BY <1>1, <1>3
  <1> HIDE DEF i
  <1>5. /\ LiveVolume(vtmp) /\ vobj[vtmp].volume = d[i].text
        /\ \A l \in Keys : fstab[l] # vtmp
    BY <1>4 DEF VolumeInWork
  <1>6. LiveFiler(ftmp) /\ fobj[ftmp].name = CurFiler
    BY <1>1, <1>3, FilerSideFacts DEF FilerInWork, i
  <1> DEFINE key == <<CurFiler, d[i].text>>
  <1>7. /\ fstab' \in HashInstall(fstab, key, vtmp)
        /\ UNCHANGED <<vobj, vtmp, tmp_maxdiskb, pc>>
    BY <1>5, <1>6 DEF InstallVolume, memVars
  <1>8. vtmp \in VolumeObjs /\ vobj[vtmp] \in VolumeRec
    BY <1>1, <1>5 DEF TablesOK, LiveVolume
  <1>9. key \in Keys /\ key \in DocKeys /\ key[2] = d[i].text
    <2>1. d[i].text \in Names
      BY <1>5, <1>8 DEF VolumeRec
    <2> QED BY <1>2, <1>3, <2>1 DEF Keys, DocKeys
  <1> HIDE DEF key
  <1>10. \/ fstab' = fstab /\ "entry" \in Faults
         \/ fstab' = [fstab EXCEPT ![key] = vtmp]
    BY <1>7 DEF HashInstall
  <1>11. VolumesLive'
    <2>1. CASE fstab' = fstab
      BY <1>1, <1>7, <2>1 DEF VolumesLive, LiveVolume
    <2>2. CASE fstab' = [fstab EXCEPT ![key] = vtmp]
      <3>1. /\ fstab'[key] = vtmp
            /\ \A k \in Keys : k # key => fstab'[k] = fstab[k]
        BY <1>1, <1>9, <2>2 DEF TablesOK
      <3>2. ASSUME NEW k \in Keys, fstab'[k] # NULL
            PROVE  /\ k \in DocKeys /\ LiveVolume(fstab[k])' /\ vobj'[fstab'[k]].volume = k[2]
                   /\ \A l \in Keys : fstab'[l] = fstab'[k] => l = k
        <4>1. CASE k = key
          BY <1>5, <1>7, <1>9, <3>1, <4>1 DEF LiveVolume
        <4>2. CASE k # key
          BY <1>1, <1>5, <1>7, <3>1, <3>2, <4>2 DEF VolumesLive, LiveVolume
        <4> QED BY <4>1, <4>2
      <3> QED BY <3>2 DEF VolumesLive
    <2> QED BY <1>10, <2>1, <2>2
  <1>12. \A j \in VolumeLines(d) : ~(j <= pos + 1 /\ pos + 1 < j + 4)
    BY <1>2, BlockLine DEF AfterName
  <1>13. \A k \in Keys : fstab'[k] = fstab[k] \/ (fstab'[k] = vtmp /\ k = key)
    BY <1>1, <1>9, <1>10 DEF TablesOK
  <1>14. Lines(d, pos + 1, "maxdiskb") # {} => tmp_maxdiskb' = d[LastLine(d, pos + 1, "maxdiskb")].text
    BY <1>2, <1>7, DiskBusySaid DEF AfterName
  <1>15. VolumeSide(d)
    BY <1>2, <1>5, <1>7, <1>11, <1>12, <1>13, <1>14 DEF VolumeSide, key, AfterName
  <1> QED BY <1>3, <1>4, <1>7, <1>10, <1>15 DEF i, key

LEMMA ElementSides ==
  ASSUME Faults \subseteq {"entry"}, EnoughMemory, DomainsFit,
         CacheInv, ParseLine, NEW d, LineRead(d)
  PROVE  FilerSide(d) /\ VolumeSide(d) /\ pc' = "parse"
  <1> DEFINE el == endelement'
             text == last_content'
  <1>1. ProcessElement(el, text) /\ pc = "parse"
    BY DEF ParseLine
  <1>2. CASE NewFiler(el, text)
    <2>1. el = "filer" /\ UNCHANGED <<fstab, vobj, vtmp, tmp_maxdiskb>>
      BY <1>2 DEF NewFiler, tableVars
    <2>2. VolumeSide(d)
      BY <2>1, VolumesUntouched
    <2> QED BY <1>1, <1>2, <2>2, NewFilerSide
  <1>3. CASE DomainValue(el, text)
    <2>1. el = "value" /\ UNCHANGED <<fstab, vobj, vtmp, tmp_maxdiskb>>
      BY <1>3 DEF DomainValue, tableVars
    <2>2. VolumeSide(d)
      BY <2>1, VolumesUntouched
    <2> QED BY <1>1, <1>3, <2>2, DomainValueSide
  <1>4. CASE NewVolume(el, text)
    <2>1. el = "name" /\ UNCHANGED <<filertab, fobj, ftmp, dcnt>>
      BY <1>4 DEF NewVolume, tableVars
    <2>2. FilerSide(d)
      BY <2>1, FilersUntouched
    <2> QED BY <1>1, <1>4, <2>2, NewVolumeSide
  <1>5. CASE AggrDiskBusy(el, text)
    <2>1. /\ el = "maxdiskb" /\ tmp_maxdiskb' = text /\ pc' = pc
          /\ UNCHANGED <<filertab, fobj, ftmp, dcnt, fstab, vobj, vtmp>>
      BY <1>5 DEF AggrDiskBusy, tableVars, memVars
    <2> QED BY <1>1, <2>1, FilersUntouched, VolumesUntouched
  <1>6. CASE VolumeCounter(el, text)
    <2>1. /\ el \in {"avglatency", "availsize", "availinodes"}
          /\ UNCHANGED <<filertab, fobj, ftmp, dcnt>>
      BY <1>6 DEF VolumeCounter, tableVars
    <2>2. FilerSide(d)
      BY <2>1, FilersUntouched
    <2> QED BY <1>1, <1>6, <2>2, VolumeCounterSide
  <1>7. CASE InstallFiler(el)
    <2>1. el = "domains" /\ UNCHANGED <<fstab, vobj, vtmp, tmp_maxdiskb>>
      BY <1>7 DEF InstallFiler, memVars
    <2>2. VolumeSide(d)
      BY <2>1, VolumesUntouched
    <2> QED BY <1>1, <1>7, <2>2, InstallFilerSide
  <1>8. CASE InstallVolume(el)
    <2>1. el = "volume" /\ UNCHANGED <<filertab, fobj, ftmp, dcnt>>
      BY <1>8 DEF InstallVolume, memVars
    <2>2. FilerSide(d)
      BY <2>1, FilersUntouched
    <2> QED BY <1>1, <1>8, <2>2, InstallVolumeSide
  <1>9. CASE NoElement(el)
    <2>1. /\ el \in {"other", "none"} \/ (el = "name" /\ depth' # 5)
          /\ UNCHANGED <<filertab, fobj, ftmp, dcnt, fstab, vobj, vtmp, tmp_maxdiskb>> /\ pc' = pc
      BY <1>9 DEF NoElement, tableVars, memVars
    <2> QED BY <1>1, <2>1, FilersUntouched, VolumesUntouched
  <1> QED BY <1>1, <1>2, <1>3, <1>4, <1>5, <1>6, <1>7, <1>8, <1>9 DEF ProcessElement

\* A line changes no verdict about another filer.
LEMMA OthersJudged ==
  ASSUME CacheInv, ParseLine, NEW d, LineRead(d), FilerSide(d), VolumeSide(d),
         NEW m \in Mount, m.filer # CurFiler
  PROVE  Verdict(m)' = Verdict(m)
  <1> DEFINE k == <<m.filer, m.volname>>
  <1>1. m.filer \in Filers /\ k \in Keys /\ k[1] = m.filer
    BY DEF Mount, Keys
  <1>2. /\ filertab'[m.filer] = filertab[m.filer]
        /\ filertab[m.filer] # NULL => fobj'[filertab[m.filer]] = fobj[filertab[m.filer]]
    BY <1>1 DEF FilerSide
  <1>3. k # <<CurFiler, vobj[vtmp].volume>>
    OBVIOUS
  <1>4. /\ fstab'[k] = fstab[k]
        /\ fstab[k] # NULL => vobj'[fstab[k]] = vobj[fstab[k]]
    BY <1>1, <1>3 DEF VolumeSide
  <1> QED BY <1>2, <1>4 DEF Verdict

LEMMA CacheParseLine ==
  ASSUME Faults \subseteq {"entry"}, EnoughMemory, DomainsFit, CacheInv, ParseLine
  PROVE  CacheInv'
  <1>1. TypeOK'
    BY TypeParseLine DEF CacheInv
  <1>2. PICK d : d = disk[CurFiler]
    OBVIOUS
  <1>3. LineRead(d)
    BY <1>2, LineReadHolds
  <1>4. FilerSide(d) /\ VolumeSide(d) /\ pc' = "parse"
    BY <1>3, ElementSides
  <1>5. /\ pc = "parse" /\ UNCHANGED <<disk, writing, mixed, fstag, currp>>
        /\ vollist' = vollist /\ CurFiler' = CurFiler
    BY DEF ParseLine, envVars, vollist, CurFiler
  <1>6. WholeFiles' /\ AtRest' /\ NoUndefinedUse' /\ AnswerMatchesTables'
    BY <1>4, <1>5 DEF CacheInv, WholeFiles, AtRest, NoUndefinedUse, AnswerMatchesTables
  <1>7. TablesLive'
    BY <1>4 DEF FilerSide, VolumeSide, TablesLive
  <1>8. InDocument'
    <2>1. /\ d = disk'[CurFiler'] /\ pos' = pos + 1 /\ pos \in Nat /\ pos + 1 \in 1 .. Len(d)
          /\ depth' = Level(d, pos + 1)
          /\ IF pos + 1 <= 1 THEN endelement' \in {"none", "other"} ELSE endelement' = EndedBy(d[pos + 1])
      BY <1>2, <1>3, <1>5 DEF LineRead
    <2>2. /\ dcnt' = Cardinality(Lines(d, pos + 1, "value"))
          /\ FilerInWork(d)'
          /\ Lines(d, pos + 1, "maxdiskb") # {} => tmp_maxdiskb' = d[LastLine(d, pos + 1, "maxdiskb")].text
          /\ \A i \in VolumeLines(d) : i <= pos + 1 /\ pos + 1 < i + 4 => VolumeInWork(d, i)'
      BY <1>4 DEF FilerSide, VolumeSide
    <2> QED BY <2>1, <2>2 DEF InDocument
  <1>9. JudgedStands'
    <2>1. \A i \in DOMAIN vollist : vollist[i] \in Mount
      BY <1>5, ListTyped DEF CacheInv, TypeOK
    <2>2. \A i \in DOMAIN vollist : i < currp => Verdict(vollist[i]) = 0 /\ vollist[i].filer # CurFiler
      BY <1>5 DEF CacheInv, JudgedStands
    <2>3. \A m \in Mount : m.filer # CurFiler => Verdict(m)' = Verdict(m)
      BY <1>3, <1>4, OthersJudged
    <2> QED BY <1>4, <1>5, <2>1, <2>2, <2>3 DEF JudgedStands
  <1> QED BY <1>1, <1>6, <1>7, <1>8, <1>9 DEF CacheInv

LEMMA CacheNext ==
  ASSUME Faults \subseteq {"entry"}, EnoughMemory, DomainsFit, CacheInv, [Next]_vars
  PROVE  CacheInv'
  <1>1. ASSUME NEW m \in FsTags, Call(m) PROVE CacheInv'
    BY <1>1, CacheCall
  <1>2. CASE ParseError
    BY <1>2 DEF ParseError, CacheInv, WholeFiles
  <1>3. CASE Step /\ ~ParseError
    BY <1>3, CacheExpireNext, CacheLoop, CacheOpen, CacheCompare, CacheEndOfFile, CacheParseLine DEF Step
  <1>4. CASE Done
    BY <1>4, CacheLoop
  <1>5. CASE Monitor
    BY <1>5, CacheMonitor
  <1>6. CASE Tick \/ UNCHANGED vars
    <2>1. TypeOK'
      BY TypeNext DEF CacheInv
    <2>2. UNCHANGED <<tableVars, memVars, parserVars, callVars, writing, disk>>
      BY <1>6 DEF Tick, vars, envVars
    <2>3. \A f \in Filers : disk'[f] \in Docs[f] \cup {NoFile}
      BY <2>2 DEF CacheInv, WholeFiles
    <2> QED BY <2>1, <2>2, <2>3, CacheEnvironment
  <1> QED BY <1>1, <1>2, <1>3, <1>4, <1>5, <1>6 DEF Next

\* The tables hold what they say they hold, the parser leaves its statics as
\* the next document needs them, and the entries judged so far stand: with
\* documents that are whole and fit the tables, with a monitor that writes
\* between calls, and with memory for the objects, though perhaps not for the
\* entries of the tables.
THEOREM CacheInductive ==
  ASSUME Faults \subseteq {"entry"}, EnoughMemory, DomainsFit
  PROVE  Spec => []CacheInv
  <1>1. CacheInv /\ [Next]_vars => CacheInv'
    BY CacheNext
  <1> QED BY <1>1, CacheInit, PTL DEF Spec

\* No call of filer_load_ok() uses a null or freed pointer, frees an object
\* twice or stores a domain outside filer.domains.
THEOREM MemoryUsedWell ==
  ASSUME Faults \subseteq {"entry"}, EnoughMemory, DomainsFit
  PROVE  Spec => []NoUndefinedUse
  <1>1. CacheInv => NoUndefinedUse
    BY DEF CacheInv
  <1> QED BY <1>1, CacheInductive, PTL

\* filer_load_ok() answers 0 only if every volume of the storage map is then in
\* the tables and within its thresholds, and 1 only if one is over them.
THEOREM AnswersCorrect ==
  ASSUME Faults \subseteq {"entry"}, EnoughMemory, DomainsFit
  PROVE  Spec => []AnswerMatchesTables
  <1>1. CacheInv => AnswerMatchesTables
    BY DEF CacheInv
  <1> QED BY <1>1, CacheInductive, PTL

-----------------------------------------------------------------------------
(***************************************************************************)
(* What the tables say is what a document says.                            *)
(***************************************************************************)
LEMMA VolumeNamed ==
  ASSUME NEW f \in Filers, NEW d \in Docs[f], NEW i \in VolumeLines(d)
  PROVE  i \in Nat /\ <<f, d[i].text>> \in Keys
  <1>1. d \in Seq(Line) /\ i \in 1 .. Len(d) /\ EndedBy(d[i]) = "name"
    BY DocsAssumption DEF VolumeLines, NamesVolume
  <1>2. d[i] \in Line
    BY <1>1
  <1>3. d[i].text \in Names
    BY <1>1, <1>2 DEF Line, EndedBy, Text
  <1> QED BY <1>1, <1>3 DEF Keys

\* A volume is as a document says as long as its entry and its object stay.
LEMMA VolumeKept ==
  ASSUME NEW f \in Filers, NEW d \in Docs[f], NEW i \in VolumeLines(d),
         VolumeAsSaid(f, d, i),
         fstab'[<<f, d[i].text>>] = fstab[<<f, d[i].text>>],
         fstab[<<f, d[i].text>>] # NULL =>
           vobj'[fstab[<<f, d[i].text>>]] = vobj[fstab[<<f, d[i].text>>]]
  PROVE  VolumeAsSaid(f, d, i)'
  BY DEF VolumeAsSaid, LiveVolume

LEMMA MirrorKept ==
  ASSUME NEW f \in Filers, filertab[f] # NULL, \E d \in Docs[f] : Mirrors(f, d),
         filertab'[f] = filertab[f], fobj'[filertab[f]] = fobj[filertab[f]],
         \A k \in Keys : k[1] = f =>
           fstab'[k] = fstab[k] /\ (fstab[k] # NULL => vobj'[fstab[k]] = vobj[fstab[k]])
  PROVE  \E d \in Docs[f] : Mirrors(f, d)'
  <1>1. PICK d \in Docs[f] : Mirrors(f, d)
    OBVIOUS
  <1>2. ASSUME NEW i \in VolumeLines(d) PROVE VolumeAsSaid(f, d, i)'
    <2>1. VolumeAsSaid(f, d, i)
      BY <1>1 DEF Mirrors
    <2> DEFINE k == <<f, d[i].text>>
    <2>2. k \in Keys /\ k[1] = f
      BY VolumeNamed
    <2> HIDE DEF k
    <2>3. fstab'[k] = fstab[k] /\ (fstab[k] # NULL => vobj'[fstab[k]] = vobj[fstab[k]])
      BY <2>2
    <2> QED BY <2>1, <2>3, VolumeKept DEF k
  <1>3. Mirrors(f, d)'
    BY <1>1, <1>2 DEF Mirrors
  <1> QED BY <1>3

\* An expired filer takes its own volumes with it and no others.
LEMMA FreeFilerMirror ==
  ASSUME NamesApart, TypeOK, TablesLive, NEW f \in Filers, filertab[f] # NULL, FreeFiler(f),
         NEW g \in Filers, filertab'[g] # NULL, \E d \in Docs[g] : Mirrors(g, d)
  PROVE  \E d \in Docs[g] : Mirrors(g, d)'
  <1>1. TablesOK
    BY DEF TypeOK
  <1>2. /\ filertab' = [filertab EXCEPT ![f] = NULL]
        /\ fobj' = [fobj EXCEPT ![filertab[f]] = Freed]
        /\ fstab' = [k \in Keys |-> IF k \in KeysFreed(f) THEN NULL ELSE fstab[k]]
        /\ vobj' = [o \in VolumeObjs |->
                      IF \E k \in KeysFreed(f) : fstab[k] = o THEN Freed ELSE vobj[o]]
    BY DEF FreeFiler
  <1>3. g # f /\ filertab'[g] = filertab[g] /\ filertab[g] # filertab[f]
    BY <1>1, <1>2 DEF TablesOK, TablesLive, FilersLive
  <1>4. fobj'[filertab[g]] = fobj[filertab[g]]
    BY <1>1, <1>2, <1>3 DEF TablesOK
  <1>5. ASSUME NEW k \in Keys, k[1] = g
        PROVE  fstab'[k] = fstab[k] /\ (fstab[k] # NULL => vobj'[fstab[k]] = vobj[fstab[k]])
    <2>1. k \notin KeysFreed(f)
      BY <1>3, <1>5 DEF NamesApart, KeysFreed
    <2>2. \A l \in KeysFreed(f) : fstab[k] # NULL => fstab[l] # fstab[k]
      BY <2>1 DEF TablesLive, VolumesLive, KeysFreed
    <2> QED BY <1>1, <1>2, <2>1, <2>2 DEF TablesOK
  <1> QED BY <1>3, <1>4, <1>5, MirrorKept

\* The volume that a document has said everything about.
LEMMA VolumeSaid ==
  ASSUME TypeOK, NEW d, NEW i \in Nat, VolumeInWork(d, i), pos >= i + 3
  PROVE  vobj[vtmp] = [volume |-> d[i].text, ctr |-> CountersSaid(d, i)]
  <1>1. vobj[vtmp] \in VolumeRec /\ pos \in Nat
    BY DEF TypeOK, TablesOK, ParserOK, CallOK, VolumeInWork, LiveVolume
  <1>2. /\ vobj[vtmp].volume = d[i].text
        /\ vobj[vtmp].ctr["maxdiskb"] = d[LastLine(d, i, "maxdiskb")].text
        /\ vobj[vtmp].ctr["avglatency"] = d[i + 1].text
        /\ vobj[vtmp].ctr["availsize"] = d[i + 2].text
        /\ vobj[vtmp].ctr["availinodes"] = d[i + 3].text
    BY <1>1 DEF VolumeInWork, AfterName
  <1>3. vobj[vtmp].ctr = CountersSaid(d, i)
    <2>1. \A c \in Counters : vobj[vtmp].ctr[c] = CountersSaid(d, i)[c]
      BY <1>2 DEF CountersSaid, Counters
    <2>2. /\ vobj[vtmp].ctr \in [Counters -> Nat]
          /\ CountersSaid(d, i) = [c \in Counters |-> CountersSaid(d, i)[c]]
      BY <1>1 DEF VolumeRec, CountersSaid, Counters
    <2> QED BY <2>1, <2>2
  <1> QED BY <1>1, <1>2, <1>3 DEF VolumeRec

\* Until its fourth line a document has closed no domains.
LEMMA NoDomainsYet ==
  ASSUME NEW d, LineRead(d), pos <= 2
  PROVE  Lines(d, pos + 1, "domains") = {}
  <1>1. pos \in Nat /\ pos + 1 \in 1 .. Len(d) /\ CurFiler \in Filers /\ d \in Docs[CurFiler]
    BY DEF LineRead
  <1>2. ASSUME NEW i \in 1 .. pos + 1 PROVE EndedBy(d[i]) # "domains"
    <2>1. i \in 1 .. Len(d) /\ i <= 3
      BY <1>1
    <2>2. Placed(CurFiler, d[i], i)
      BY <1>1, <2>1, DocsAssumption
    <2> QED BY <2>1, <2>2 DEF Placed, EndedBy
  <1> QED BY <1>2 DEF Lines

LEMMA ReadSoFarLine ==
  ASSUME Faults = {}, EnoughMemory, DomainsFit, VolumesNamedOnce, CacheInv, ReadSoFar, ParseLine
  PROVE  ReadSoFar'
  <1>1. PICK d : d = disk[CurFiler]
    OBVIOUS
  <1>2. LineRead(d)
    BY <1>1, LineReadHolds
  <1>3. FilerSide(d) /\ VolumeSide(d)
    BY <1>2, ElementSides
  <1>4. /\ pc = "parse" /\ d = disk'[CurFiler'] /\ CurFiler' = CurFiler
        /\ pos \in Nat /\ pos' = pos + 1 /\ CurFiler \in Filers /\ d \in Docs[CurFiler]
        /\ ProcessElement(endelement', last_content')
    BY <1>1, <1>2 DEF ParseLine, LineRead, envVars, CurFiler, vollist
  <1>5. /\ Lines(d, pos, "domains") # {} => filertab[CurFiler] = ftmp
        /\ \A i \in VolumeLines(d) : i + 4 <= pos => VolumeAsSaid(CurFiler, d, i)
    BY <1>1, <1>4 DEF ReadSoFar
  <1>6. Lines(d, pos + 1, "domains") # {} => filertab'[CurFiler] = ftmp'
    <2>1. CASE endelement' = "domains"
      <3>1. InstallFiler(endelement') /\ ftmp' = ftmp
        BY <1>4, <2>1 DEF ProcessElement, NewFiler, DomainValue, NewVolume, AggrDiskBusy, VolumeCounter,
                          InstallFiler, InstallVolume, NoElement
      <3> QED BY <1>2, <3>1, InstallFilerSide
    <2>2. CASE endelement' # "domains" /\ pos <= 2
      BY <1>2, <2>2, NoDomainsYet
    <2>3. CASE endelement' # "domains" /\ pos > 2
      <3>1. Lines(d, pos + 1, "domains") = Lines(d, pos, "domains")
        <4>1. EndedBy(d[pos + 1]) # "domains"
          BY <1>2, <2>3 DEF LineRead
        <4> QED BY <1>4, <4>1, LinesStep
      <3>2. UNCHANGED <<filertab, ftmp>>
        <4>1. endelement' # "filer"
          BY <1>2, <2>3 DEF LineRead
        <4> QED BY <1>4, <2>3, <4>1
                DEF ProcessElement, NewFiler, DomainValue, NewVolume, AggrDiskBusy, VolumeCounter,
                    InstallFiler, InstallVolume, NoElement, tableVars
      <3> QED BY <1>5, <3>1, <3>2
    <2> QED BY <1>4, <2>1, <2>2, <2>3
  <1>7. ASSUME NEW i \in VolumeLines(d), i + 4 <= pos + 1
        PROVE  VolumeAsSaid(CurFiler, d, i)'
    <2> DEFINE key == <<CurFiler, d[i].text>>
    <2>1. i \in Nat /\ key \in Keys
      BY <1>4, VolumeNamed
    <2>2. CASE i + 4 <= pos
      <3>1. VolumeAsSaid(CurFiler, d, i)
        BY <1>5, <2>2
      <3>2. fstab'[key] = fstab[key]
        <4>1. CASE fstab'[key] # fstab[key]
          <5>1. endelement' = "volume" /\ key = <<CurFiler, vobj[vtmp].volume>>
            BY <1>3, <2>1, <4>1 DEF VolumeSide
          <5>2. InstallVolume(endelement')
            BY <1>4, <5>1 DEF ProcessElement, NewFiler, DomainValue, NewVolume, AggrDiskBusy, VolumeCounter,
                              InstallFiler, InstallVolume, NoElement
          <5>3. pos - 3 \in VolumeLines(d) /\ VolumeInWork(d, pos - 3)
            BY <1>2, <5>2, InstallVolumeSide
          <5>4. d[pos - 3].text = d[i].text
            BY <5>1, <5>3 DEF VolumeInWork
          <5>5. pos - 3 = i
            BY <1>4, <5>3, <5>4 DEF VolumesNamedOnce, NamedOnce
          <5> QED BY <1>4, <2>1, <2>2, <5>5
        <4> QED BY <4>1
      <3>3. fstab[key] # NULL => vobj'[fstab[key]] = vobj[fstab[key]]
        BY <1>3, <2>1 DEF VolumeSide
      <3> HIDE DEF key
      <3> QED BY <1>4, <3>1, <3>2, <3>3, VolumeKept DEF key, VolumeAsSaid, LiveVolume
    <2>3. CASE i + 4 = pos + 1
      <3>1. i = pos - 3 /\ pos >= i + 3
        BY <1>4, <2>1, <2>3
      <3>2. EndedBy(d[pos + 1]) = "volume"
        BY <1>2, <2>3 DEF LineRead, WholeDocument, AfterName
      <3>3. endelement' = "volume"
        BY <1>2, <3>1, <3>2, <2>1 DEF LineRead
      <3>4. InstallVolume(endelement')
        BY <1>4, <3>3 DEF ProcessElement, NewFiler, DomainValue, NewVolume, AggrDiskBusy, VolumeCounter,
                          InstallFiler, InstallVolume, NoElement
      <3>5. VolumeInWork(d, i) /\ fstab' = [fstab EXCEPT ![key] = vtmp]
        BY <1>2, <3>1, <3>4, InstallVolumeSide
      <3>6. TypeOK /\ vobj' = vobj
        BY <3>4 DEF CacheInv, InstallVolume, memVars
      <3>7. vobj[vtmp] = [volume |-> d[i].text, ctr |-> CountersSaid(d, i)]
        BY <2>1, <3>1, <3>5, <3>6, VolumeSaid
      <3>8. fstab'[key] = vtmp
        BY <2>1, <3>5, <3>6 DEF TypeOK, TablesOK
      <3> HIDE DEF key
      <3> QED BY <1>4, <3>5, <3>6, <3>7, <3>8 DEF key, VolumeAsSaid, VolumeInWork, LiveVolume
    <2> QED BY <1>4, <1>7, <2>1, <2>2, <2>3
  <1> QED BY <1>4, <1>6, <1>7 DEF ReadSoFar

LEMMA OthersMirrorLine ==
  ASSUME Faults = {}, EnoughMemory, DomainsFit, CacheInv, OthersMirror, ParseLine
  PROVE  OthersMirror'
  <1>1. PICK d : d = disk[CurFiler]
    OBVIOUS
  <1>2. LineRead(d)
    BY <1>1, LineReadHolds
  <1>3. FilerSide(d) /\ VolumeSide(d) /\ pc' = "parse"
    BY <1>2, ElementSides
  <1>4. pc = "parse" /\ CurFiler' = CurFiler
    BY DEF ParseLine, CurFiler, vollist
  <1> SUFFICES ASSUME NEW f \in Filers, filertab'[f] # NULL, f # CurFiler
               PROVE  \E c \in Docs[f] : Mirrors(f, c)'
    BY <1>3, <1>4 DEF OthersMirror
  <1>5. /\ filertab'[f] = filertab[f] /\ filertab[f] # NULL
        /\ fobj'[filertab[f]] = fobj[filertab[f]]
    BY <1>3 DEF FilerSide
  <1>6. \E c \in Docs[f] : Mirrors(f, c)
    BY <1>5 DEF OthersMirror
  <1>7. ASSUME NEW k \in Keys, k[1] = f
        PROVE  fstab'[k] = fstab[k] /\ (fstab[k] # NULL => vobj'[fstab[k]] = vobj[fstab[k]])
    <2>1. k # <<CurFiler, vobj[vtmp].volume>>
      BY <1>7
    <2> QED BY <1>3, <2>1 DEF VolumeSide
  <1> QED BY <1>5, <1>6, <1>7, MirrorKept

\* At the end of a document the filer it is about mirrors it.
LEMMA MirrorEndOfFile ==
  ASSUME MirrorInv, EndOfFile
  PROVE  ReadSoFar' /\ OthersMirror'
  <1>1. CacheInv /\ ReadSoFar /\ OthersMirror
    BY DEF MirrorInv
  <1>2. /\ pc = "parse" /\ pc' = "compare" /\ pos >= Len(disk[CurFiler])
        /\ UNCHANGED <<filertab, fstab, fobj, vobj>>
    BY DEF EndOfFile, tableVars, memVars
  <1>3. PICK d : d = disk[CurFiler]
    OBVIOUS
  <1>4. /\ CurFiler \in Filers /\ d \in Docs[CurFiler] /\ pos \in Nat
        /\ WholeDocument(d) /\ d \in Seq(Line)
    <2>1. CurFiler \in Filers /\ d # NoFile /\ pos \in Nat
      BY <1>1, <1>2, <1>3, CurTyped DEF CacheInv, TypeOK, CallOK, ParsesFile
    <2>2. d \in Docs[CurFiler]
      BY <1>1, <1>3, <2>1 DEF CacheInv, WholeFiles
    <2> QED BY <2>1, <2>2, DocsAssumption
  <1>5. /\ pos = Len(d) /\ FilerInWork(d)
        /\ Lines(d, pos, "domains") # {} => filertab[CurFiler] = ftmp
        /\ \A i \in VolumeLines(d) : i + 4 <= pos => VolumeAsSaid(CurFiler, d, i)
    <2>1. pos <= Len(d) /\ FilerInWork(d)
      BY <1>1, <1>2, <1>3 DEF CacheInv, InDocument
    <2>2. /\ Lines(d, pos, "domains") # {} => filertab[CurFiler] = ftmp
          /\ \A i \in VolumeLines(d) : i + 4 <= pos => VolumeAsSaid(CurFiler, d, i)
      BY <1>1, <1>2, <1>3 DEF ReadSoFar
    <2> QED BY <1>2, <1>3, <1>4, <2>1, <2>2
  <1>6. filertab[CurFiler] = ftmp
    BY <1>4, <1>5 DEF WholeDocument
  <1>7. filertab[CurFiler] # NULL => Mirrors(CurFiler, d)
    <2>1. filertab[CurFiler] # NULL => pos >= 3
      BY <1>4, <1>5 DEF FilerInWork
    <2>2. \A i \in VolumeLines(d) : VolumeAsSaid(CurFiler, d, i)
      BY <1>4, <1>5 DEF WholeDocument
    <2> QED BY <1>5, <1>6, <2>1, <2>2 DEF FilerInWork, Mirrors
  <1>8. \A f \in Filers : filertab[f] # NULL => \E c \in Docs[f] : Mirrors(f, c)
    BY <1>1, <1>4, <1>7 DEF OthersMirror
  <1>9. \A f, c : Mirrors(f, c) => Mirrors(f, c)'
    BY <1>2 DEF Mirrors, VolumeAsSaid, LiveVolume
  <1> QED BY <1>2, <1>8, <1>9 DEF ReadSoFar, OthersMirror

LEMMA MirrorExpireNext ==
  ASSUME NamesApart, MirrorInv, ExpireNext
  PROVE  ReadSoFar' /\ OthersMirror'
  <1>1. CacheInv /\ CacheInv' /\ OthersMirror /\ pc = "expire"
    BY CacheExpireNext DEF MirrorInv, ExpireNext
  <1>2. pc' = "expire"
    BY <1>1 DEF ExpireNext, Undefined, CacheInv, NoUndefinedUse
  <1>3. CurFiler \in Filers
    BY <1>1, ListTyped DEF CacheInv, TypeOK, CallOK, ExpireNext, CurFiler
  <1>4. CASE UNCHANGED <<tableVars, memVars>>
    <2>1. UNCHANGED <<filertab, fstab, fobj, vobj>>
      BY <1>4 DEF tableVars, memVars
    <2>2. \A f, c : Mirrors(f, c) => Mirrors(f, c)'
      BY <2>1 DEF Mirrors, VolumeAsSaid, LiveVolume
    <2> QED BY <1>1, <1>2, <2>1, <2>2 DEF ReadSoFar, OthersMirror
  <1>5. CASE Expired(CurFiler) /\ FreeFiler(CurFiler)
    <2>1. filertab[CurFiler] # NULL
      BY <1>5 DEF Expired, LiveFiler
    <2>2. ASSUME NEW g \in Filers, filertab'[g] # NULL PROVE \E d \in Docs[g] : Mirrors(g, d)'
      <3>1. filertab[g] # NULL
        BY <1>1, <1>5, <2>2 DEF FreeFiler, CacheInv, TypeOK, TablesOK
      <3>2. \E d \in Docs[g] : Mirrors(g, d)
        BY <1>1, <3>1 DEF OthersMirror
      <3> QED BY <1>1, <1>3, <1>5, <2>1, <2>2, <3>2, FreeFilerMirror DEF CacheInv
    <2> QED BY <1>2, <2>2 DEF ReadSoFar, OthersMirror
  <1> QED BY <1>2, <1>4, <1>5 DEF ExpireNext, Undefined

LEMMA MirrorInit == Init => MirrorInv
  <1> SUFFICES ASSUME Init PROVE MirrorInv
    OBVIOUS
  <1>1. ReadSoFar /\ OthersMirror
    BY DEF Init, ReadSoFar, OthersMirror
  <1> QED BY <1>1, CacheInit DEF MirrorInv

\* The steps that leave the tables and what they point to alone.
LEMMA MirrorElsewhere ==
  ASSUME MirrorInv, UNCHANGED <<tableVars, memVars>>, pc = "parse" => UNCHANGED <<callVars, parserVars, disk>>,
         pc # "parse" /\ pc' = "parse" => pos' = 0
  PROVE  ReadSoFar' /\ OthersMirror'
  <1>1. UNCHANGED <<filertab, fstab, fobj, vobj>>
    BY DEF tableVars, memVars
  <1>2. /\ \A f, c : Mirrors(f, c)' <=> Mirrors(f, c)
        /\ \A f, c, i : VolumeAsSaid(f, c, i)' <=> VolumeAsSaid(f, c, i)
    BY <1>1 DEF Mirrors, VolumeAsSaid, LiveVolume
  <1>3. ReadSoFar /\ OthersMirror
    BY DEF MirrorInv
  <1>4. CASE pc = "parse"
    <2>1. UNCHANGED <<pc, pos, ftmp, disk>> /\ CurFiler' = CurFiler
      BY <1>4 DEF callVars, parserVars, CurFiler, vollist
    <2> QED BY <1>1, <1>2, <1>3, <1>4, <2>1 DEF ReadSoFar, OthersMirror
  <1>5. CASE pc # "parse"
    <2>1. OthersMirror'
      BY <1>1, <1>2, <1>3, <1>5 DEF OthersMirror
    <2>2. \A d : Lines(d, 0, "domains") = {} /\ \A i \in VolumeLines(d) : ~(i + 4 <= 0)
      BY NoLines DEF VolumeLines
    <2>3. ReadSoFar'
      BY <1>5, <2>2 DEF ReadSoFar
    <2> QED BY <2>1, <2>3
  <1> QED BY <1>4, <1>5

LEMMA MirrorNext ==
  ASSUME Faults = {}, EnoughMemory, DomainsFit, NamesApart, VolumesNamedOnce,
         MirrorInv, [Next]_vars
  PROVE  MirrorInv'
  <1>1. CacheInv'
    BY CacheNext DEF MirrorInv
  <1>2. ReadSoFar' /\ OthersMirror'
    <2>1. CASE ExpireNext
      BY <2>1, MirrorExpireNext
    <2>2. CASE EndOfFile
      BY <2>2, MirrorEndOfFile
    <2>3. CASE ParseLine
      BY <2>3, ReadSoFarLine, OthersMirrorLine DEF MirrorInv
    <2>4. ASSUME NEW m \in FsTags, Call(m) PROVE ReadSoFar' /\ OthersMirror'
      <3>1. UNCHANGED <<tableVars, memVars>> /\ pc # "parse" /\ pc' # "parse"
        BY <2>4 DEF Call, Return
      <3> QED BY <3>1, MirrorElsewhere
    <2>5. CASE ExpireDone \/ CheckCached \/ OpenDocument \/ Compare \/ CheckDone \/ Done
      <3>1. UNCHANGED <<tableVars, memVars>> /\ pc # "parse" /\ (pc' = "parse" => pos' = 0)
        BY <2>5 DEF ExpireDone, CheckCached, OpenDocument, Compare, CheckDone, Done, Return, Undefined
      <3> QED BY <3>1, MirrorElsewhere
    <2>6. CASE ParseError
      BY <2>6 DEF ParseError, MirrorInv, CacheInv, WholeFiles
    <2>7. CASE Tick \/ Monitor \/ UNCHANGED vars
      <3>1. UNCHANGED <<tableVars, memVars, parserVars, pc>>
        BY <2>7 DEF Tick, Monitor, Publish, OpenForWrite, WriteLines, WriteFails, vars, callVars
      <3>2. pc = "parse" => UNCHANGED <<callVars, disk>>
        <4>1. ~(\E f \in Filers : OpenForWrite(f) \/ WriteLines(f) \/ WriteFails(f))
          BY DEF OpenForWrite, WriteLines, WriteFails, MirrorInv, CacheInv, WholeFiles
        <4> QED BY <2>7, <4>1 DEF Tick, Monitor, Publish, vars, envVars
      <3> QED BY <3>1, <3>2, MirrorElsewhere
    <2> QED BY <2>1, <2>2, <2>3, <2>4, <2>5, <2>6, <2>7 DEF Next, Step
  <1> QED BY <1>1, <1>2 DEF MirrorInv

\* With memory for the entries of the tables too, filers whose names occur in no
\* key of another's volumes, and documents that name a volume once, what the
\* parser has read so far is in the tables, and every other filer there mirrors
\* a document.
THEOREM MirrorInductive ==
  ASSUME Faults = {}, EnoughMemory, DomainsFit, NamesApart, VolumesNamedOnce
  PROVE  Spec => []MirrorInv
  <1>1. MirrorInv /\ [Next]_vars => MirrorInv'
    BY MirrorNext
  <1> QED BY <1>1, MirrorInit, PTL DEF Spec

\* Outside a parse a filer in filertab comes with exactly the domains and with
\* all the volumes and counters of one document of the monitor: the
\* line-at-a-time parser of sysntap.c reads what printToXML() wrote.
THEOREM TablesMirror ==
  ASSUME Faults = {}, EnoughMemory, DomainsFit, NamesApart, VolumesNamedOnce
  PROVE  Spec => []TablesMirrorDocument
  <1>1. MirrorInv => TablesMirrorDocument
    BY DEF MirrorInv, OthersMirror, TablesMirrorDocument
  <1> QED BY <1>1, MirrorInductive, PTL

-----------------------------------------------------------------------------
LEMMA EvictedNext ==
  ASSUME NamesApart, TypeOK, [Next]_vars
  PROVE  \A k \in Keys : fstab[k] # NULL /\ fstab'[k] = NULL => filertab'[k[1]] = NULL
  <1> SUFFICES ASSUME NEW k \in Keys, fstab[k] # NULL, fstab'[k] = NULL
               PROVE  filertab'[k[1]] = NULL
    OBVIOUS
  <1>1. TablesOK /\ k[1] \in Filers
    BY DEF TypeOK, Keys
  <1>2. CASE ExpireNext
    <2>1. FreeFiler(CurFiler)
      BY <1>2 DEF ExpireNext, tableVars
    <2>2. k \in KeysFreed(CurFiler) /\ CurFiler \in Filers
      <3>1. CurFiler \in Filers
        BY <1>2, ListTyped DEF TypeOK, CallOK, ExpireNext, CurFiler
      <3> QED BY <2>1, <3>1 DEF FreeFiler
    <2>3. k[1] = CurFiler
      BY <2>2 DEF NamesApart, KeysFreed
    <2> QED BY <1>1, <2>1, <2>3 DEF FreeFiler, TablesOK
  <1>3. CASE ParseLine
    <2>1. fstab' # fstab
      OBVIOUS
    <2>2. InstallVolume(endelement')
      BY <1>3, <2>1 DEF ParseLine, ProcessElement, NewFiler, DomainValue, NewVolume, AggrDiskBusy,
                        VolumeCounter, InstallFiler, InstallVolume, NoElement, tableVars
    <2>3. LiveVolume(vtmp) /\ fstab' \in HashInstall(fstab, <<fobj[ftmp].name, vobj[vtmp].volume>>, vtmp)
      BY <2>1, <2>2 DEF InstallVolume
    <2>4. fstab'[k] \in {fstab[k], vtmp}
      BY <1>1, <2>3 DEF HashInstall, TablesOK
    <2> QED BY <2>3, <2>4 DEF LiveVolume
  <1>4. CASE ~ExpireNext /\ ~ParseLine
    <2>1. fstab' = fstab
      BY <1>4 DEF Next, Step, Call, ExpireDone, CheckCached, OpenDocument, Compare, CheckDone, EndOfFile,
                  ParseError, Done, Tick, Monitor, Publish, OpenForWrite, WriteLines, WriteFails,
                  vars, tableVars
    <2> QED BY <2>1
  <1> QED BY <1>2, <1>3, <1>4

\* free_fs() takes a volume only together with the filer it is on, when no
\* filer's name occurs in the key of another's volume, whatever else fails.
THEOREM EvictedTogether ==
  ASSUME NamesApart
  PROVE  Spec => EvictedWithFiler
  <1>1. TypeOK /\ [Next]_vars => [\A k \in Keys : fstab[k] # NULL /\ fstab'[k] = NULL => filertab'[k[1]] = NULL]_vars
    BY EvictedNext
  <1> QED BY <1>1, TypeCorrect, PTL DEF Spec, EvictedWithFiler
=============================================================================
