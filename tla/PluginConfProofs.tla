-------------------------- MODULE PluginConfProofs --------------------------
(***************************************************************************)
(* Theorems about PluginConf for every configuration file, of any length   *)
(* and with its sections in any order: ConfInv is inductive.               *)
(***************************************************************************)
EXTENDS PluginConf, WellFoundedInduction, TLAPS

\* A set of numbers up to a bound has a greatest one.
LEMMA HasMax ==
  ASSUME NEW i \in Nat, NEW set, set \subseteq 1 .. i, set # {}
  PROVE  Max(set) \in set /\ \A k \in set : Max(set) >= k
  <1> DEFINE T == {i - k : k \in set}
             R == {ss \in Nat \X Nat : ss[1] < ss[2]}
  <1>1. IsWellFoundedOn(R, Nat)
    BY NatLessThanWellFounded DEF OpToRel
  <1>2. T \subseteq Nat /\ T # {}
    <2>1. \A k \in set : i - k \in Nat
      OBVIOUS
    <2>2. PICK k : k \in set
      OBVIOUS
    <2>3. i - k \in T
      BY <2>2
    <2> HIDE DEF R
    <2> QED BY <2>1, <2>3
  <1>3. PICK x \in T : \A y \in T : ~(<<y, x>> \in R)
    BY <1>1, <1>2, WFMin
  <1>4. \A y \in T : ~(y < x)
    BY <1>2, <1>3
  <1>5. PICK m \in set : x = i - m
    OBVIOUS
  <1>6. \A k \in set : m >= k
    <2> TAKE k \in set
    <2>1. i - k \in T /\ k \in 1 .. i /\ m \in 1 .. i
      OBVIOUS
    <2> QED BY <1>4, <1>5, <2>1
  <1> QED BY <1>6 DEF Max

\* What is known of the lines of a file.
LEMMA FileTyped ==
  ASSUME CTypeOK
  PROVE  /\ file \in Seq(Line) /\ Len(file) \in Nat /\ DOMAIN file = 1 .. Len(file)
         /\ pos \in 1 .. Len(file) + 1 /\ pos \in Nat
         /\ \A i \in 1 .. Len(file) : file[i] \in Line
  <1>1. file \in Seq(Line)
    BY ConfAssumption DEF CTypeOK
  <1> QED BY <1>1 DEF CTypeOK

LEMMA LineTyped ==
  ASSUME NEW l \in Line
  PROVE  /\ l.kind = "Parameters" => l.name \in Parameters \cup {NULL}
                                       /\ l.val \in Values \cup {"yes", NULL}
         /\ l.kind = "ExportNames" => l.name \in Names /\ l.words \in Seq(Word)
         /\ l.kind = "PluginPolicy" => l.limit \in Limits \cup {NULL} /\ l.val \in Nat \cup {NULL}
         /\ l.kind = "FilerPolicy" => l.name \in Names /\ l.limit \in Limits \cup {NULL}
                                        /\ l.val \in Nat \cup {NULL}
  <1>1. CASE l \in [kind : {"begin", "end"}, key : Sections]
    BY <1>1
  <1>2. CASE l \in [kind : {"comment", "blank"}]
    BY <1>2
  <1>3. CASE l \in [kind : {"Parameters"}, name : Parameters \cup {NULL}, val : Values \cup {"yes", NULL}]
    BY <1>3
  <1>4. CASE l \in [kind : {"ExportNames"}, name : Names, words : Seq(Word)]
    BY <1>4
  <1>5. CASE l \in [kind : {"PluginPolicy"}, limit : Limits \cup {NULL}, val : Nat \cup {NULL}]
    BY <1>5
  <1>6. CASE l \in [kind : {"FilerPolicy"}, name : Names, limit : Limits \cup {NULL}, val : Nat \cup {NULL}]
    BY <1>6
  <1> QED BY <1>1, <1>2, <1>3, <1>4, <1>5, <1>6 DEF Line

LEMMA PassesAre ==
  /\ DOMAIN Passes = 1 .. 5
  /\ Passes[1] = "Parameters" /\ Passes[2] = "Count" /\ Passes[3] = "ExportNames"
  /\ Passes[4] = "PluginPolicy" /\ Passes[5] = "FilerPolicy"
  /\ PassOf("Parameters") = 1 /\ PassOf("ExportNames") = 3
  /\ PassOf("PluginPolicy") = 4 /\ PassOf("FilerPolicy") = 5
  <1>1. /\ DOMAIN Passes = 1 .. 5
        /\ Passes[1] = "Parameters" /\ Passes[2] = "Count" /\ Passes[3] = "ExportNames"
        /\ Passes[4] = "PluginPolicy" /\ Passes[5] = "FilerPolicy"
    BY DEF Passes
  <1>2. \A p \in 1 .. 5 : p = 1 \/ p = 2 \/ p = 3 \/ p = 4 \/ p = 5
    OBVIOUS
  <1>3. PassOf("Parameters") = 1
    BY <1>1, <1>2 DEF PassOf
  <1>4. PassOf("ExportNames") = 3
    BY <1>1, <1>2 DEF PassOf
  <1>5. PassOf("PluginPolicy") = 4
    BY <1>1, <1>2 DEF PassOf
  <1>6. PassOf("FilerPolicy") = 5
    BY <1>1, <1>2 DEF PassOf
  <1> QED BY <1>1, <1>3, <1>4, <1>5, <1>6

\* The section a pass is after; the second pass leaves no trace.
LEMMA TagIs ==
  ASSUME pass \in DOMAIN Passes
  PROVE  /\ pass \in 1 .. 5 /\ Tag \in Sections
         /\ pass = 1 => Tag = "Parameters"
         /\ pass \in {2, 3} => Tag = "ExportNames"
         /\ pass = 4 => Tag = "PluginPolicy"
         /\ pass = 5 => Tag = "FilerPolicy"
  BY PassesAre DEF Tag, Sections

\* The first begin of a section is one line.
LEMMA OneBegin ==
  ASSUME CTypeOK, NEW s, NEW b \in 1 .. Len(file), NEW c \in 1 .. Len(file),
         file[b] = BeginOf(s), \A k \in 1 .. b - 1 : file[k] # BeginOf(s),
         file[c] = BeginOf(s), \A k \in 1 .. c - 1 : file[k] # BeginOf(s)
  PROVE  b = c
  <1>1. ~(b < c) /\ ~(c < b)
    OBVIOUS
  <1> QED BY <1>1

\* Before the begin of a section there is nothing of it; inside, the next line
\* is of it unless it is its end; and at its end there is no more.
LEMMA BeforeSection ==
  ASSUME CTypeOK, NEW s, \A k \in 1 .. pos - 1 : file[k] # BeginOf(s)
  PROVE  \A i \in SectionLines(s) : i > pos
  <1> SUFFICES ASSUME NEW i \in SectionLines(s) PROVE i > pos
    OBVIOUS
  <1>1. PICK b \in 1 .. i - 1 : file[b] = BeginOf(s)
    BY DEF SectionLines
  <1>2. i \in 1 .. Len(file) /\ b \in Nat /\ b < i /\ b >= 1
    BY <1>1, FileTyped DEF SectionLines
  <1>3. b >= pos
    BY <1>1, <1>2, FileTyped
  <1> QED BY <1>2, <1>3, FileTyped

LEMMA NextOfSection ==
  ASSUME CTypeOK, NEW s, InSection(s), pos <= Len(file), file[pos] # EndOf(s)
  PROVE  pos \in SectionLines(s)
  <1>1. PICK b \in 1 .. pos - 1 :
          /\ file[b] = BeginOf(s) /\ \A k \in 1 .. b - 1 : file[k] # BeginOf(s)
          /\ \A k \in b .. pos - 1 : file[k] # EndOf(s)
    BY DEF InSection
  <1>2. \A k \in b .. pos : k \in b .. pos - 1 \/ k = pos
    BY FileTyped
  <1>3. \A k \in b .. pos : file[k] # EndOf(s)
    BY <1>1, <1>2
  <1> QED BY <1>1, <1>3, FileTyped DEF SectionLines

LEMMA EndOfSection ==
  ASSUME CTypeOK, NEW s, InSection(s), pos <= Len(file) => file[pos] = EndOf(s)
  PROVE  \A i \in SectionLines(s) : i < pos
  <1> SUFFICES ASSUME NEW i \in SectionLines(s), i >= pos PROVE FALSE
    BY FileTyped DEF SectionLines
  <1>1. PICK b \in 1 .. pos - 1 :
          /\ file[b] = BeginOf(s) /\ \A k \in 1 .. b - 1 : file[k] # BeginOf(s)
    BY DEF InSection
  <1>2. PICK c \in 1 .. i - 1 :
          /\ file[c] = BeginOf(s) /\ \A k \in 1 .. c - 1 : file[k] # BeginOf(s)
          /\ \A k \in c .. i : file[k] # EndOf(s)
    BY DEF SectionLines
  <1>3. i \in 1 .. Len(file) /\ pos \in Nat /\ b \in 1 .. Len(file) /\ c \in 1 .. Len(file)
    BY FileTyped DEF SectionLines
  <1>4. b = c
    BY <1>1, <1>2, <1>3, OneBegin
  <1>5. pos \in c .. i
    BY <1>3, <1>4
  <1> QED BY <1>2, <1>3, <1>5

LEMMA StayInSection ==
  ASSUME CTypeOK, NEW s, InSection(s), pos <= Len(file), file[pos] # EndOf(s),
         file' = file, pos' = pos + 1
  PROVE  InSection(s)'
  <1>1. PICK b \in 1 .. pos - 1 :
          /\ file[b] = BeginOf(s) /\ \A k \in 1 .. b - 1 : file[k] # BeginOf(s)
          /\ \A k \in b .. pos - 1 : file[k] # EndOf(s)
    BY DEF InSection
  <1>2. \A k \in b .. pos' - 1 : k \in b .. pos - 1 \/ k = pos
    BY FileTyped
  <1>3. b \in 1 .. pos' - 1 /\ \A k \in b .. pos' - 1 : file'[k] # EndOf(s)
    BY <1>1, <1>2, FileTyped
  <1> QED BY <1>1, <1>3 DEF InSection
-----------------------------------------------------------------------------
\* How a step changes what has been seen: not at all ...
LEMMA SeenKept ==
  ASSUME file' = file, pass' = pass, pos' = pos, NEW s
  PROVE  Seen(s)' = Seen(s) /\ SectionLines(s)' = SectionLines(s)
  BY DEF Seen, SectionLines

\* ... or, by a record or a comment of the section of the pass, by that line.
LEMMA SeenGrows ==
  ASSUME CTypeOK, InPlace, found, pos <= Len(file), file[pos] # EndOf(Tag),
         file' = file, pass' = pass, pos' = pos + 1
  PROVE  /\ pos \in SectionLines(Tag)
         /\ \A s \in Sections : /\ PassOf(s) = pass => Seen(s)' = Seen(s) \cup {pos}
                                /\ PassOf(s) # pass => Seen(s)' = Seen(s)
                                /\ SectionLines(s)' = SectionLines(s)
         /\ \A s \in Sections : PassOf(s) = pass => \A i \in Seen(s) : i \in Nat /\ i < pos
  <1>1. pos \in SectionLines(Tag)
    BY NextOfSection DEF InPlace
  <1>2. \A s : SectionLines(s)' = SectionLines(s)
    BY DEF SectionLines
  <1>3. \A s : \A i \in SectionLines(s) : i \in Nat /\ (i < pos' <=> i < pos \/ i = pos)
    BY FileTyped DEF SectionLines
  <1>4. \A s \in Sections : PassOf(s) = pass => s = Tag
    BY PassesAre, TagIs DEF CTypeOK, Sections
  <1>5. ASSUME NEW s \in Sections, PassOf(s) = pass PROVE Seen(s)' = Seen(s) \cup {pos}
    BY <1>1, <1>2, <1>3, <1>4, <1>5, PassesAre DEF Seen, Sections
  <1>6. ASSUME NEW s \in Sections, PassOf(s) # pass PROVE Seen(s)' = Seen(s)
    BY <1>2, <1>6 DEF Seen
  <1>7. ASSUME NEW s \in Sections, PassOf(s) = pass, NEW i \in Seen(s) PROVE i \in Nat /\ i < pos
    BY <1>3, <1>7, PassesAre DEF Seen, Sections
  <1> QED BY <1>1, <1>2, <1>5, <1>6, <1>7

\* What the tables say of the lines seen stays true when neither the table nor
\* its lines change, or a line is seen that is not of the table's kind.
LEMMA ParamsStay ==
  ASSUME ParamsAs(Seen("Parameters")), file' = file, prms' = prms,
         \/ Seen("Parameters")' = Seen("Parameters")
         \/ /\ Seen("Parameters")' = Seen("Parameters") \cup {pos}
            /\ file[pos].kind # "Parameters"
  PROVE  ParamsAs(Seen("Parameters"))'
  <1>1. \A p \in Parameters : ParamLines(Seen("Parameters"), p)' = ParamLines(Seen("Parameters"), p)
    BY DEF ParamLines
  <1>2. "Debug" \in Parameters
    BY DEF Parameters
  <1> QED BY <1>1, <1>2 DEF ParamsAs, IsLast

LEMMA MountsStay ==
  ASSUME MountsAs(Seen("ExportNames")), file' = file, mounttab' = mounttab,
         failed \subseteq failed',
         \/ Seen("ExportNames")' = Seen("ExportNames")
         \/ /\ Seen("ExportNames")' = Seen("ExportNames") \cup {pos}
            /\ file[pos].kind # "ExportNames"
  PROVE  MountsAs(Seen("ExportNames"))'
  <1>1. \A n \in Names : MapLines(Seen("ExportNames"), n)' = MapLines(Seen("ExportNames"), n)
    BY DEF MapLines
  <1>2. "entry" \in failed => "entry" \in failed'
    OBVIOUS
  <1> QED BY <1>1, <1>2 DEF MountsAs, MountAs, IsFirst

LEMMA PolicyStays ==
  ASSUME PolicyAs(Seen("PluginPolicy")), file' = file, policy' = policy,
         \/ Seen("PluginPolicy")' = Seen("PluginPolicy")
         \/ /\ Seen("PluginPolicy")' = Seen("PluginPolicy") \cup {pos}
            /\ file[pos].kind # "PluginPolicy"
  PROVE  PolicyAs(Seen("PluginPolicy"))'
  <1>1. \A l \in Limits : PolicyLines(Seen("PluginPolicy"), l)' = PolicyLines(Seen("PluginPolicy"), l)
    BY DEF PolicyLines
  <1> QED BY <1>1 DEF PolicyAs, IsLast

LEMMA FilerPolicyStays ==
  ASSUME FilerPolicyAs(Seen("FilerPolicy")), file' = file, fptab' = fptab,
         failed \subseteq failed',
         \/ Seen("FilerPolicy")' = Seen("FilerPolicy")
         \/ /\ Seen("FilerPolicy")' = Seen("FilerPolicy") \cup {pos}
            /\ file[pos].kind # "FilerPolicy"
  PROVE  FilerPolicyAs(Seen("FilerPolicy"))'
  <1>1. \A n \in Names, l \in Limits :
          FilerLines(Seen("FilerPolicy"), n, l)' = FilerLines(Seen("FilerPolicy"), n, l)
    BY DEF FilerLines
  <1>2. \A n \in Names : PolicyOf(n, fptab)' = PolicyOf(n, fptab)
    BY DEF PolicyOf, Known
  <1>3. "filerpol" \in failed => "filerpol" \in failed'
    OBVIOUS
  <1>4. \A i : NoBlank({k \in Seen("FilerPolicy") : k > i})'
                => NoBlank({k \in Seen("FilerPolicy") : k > i})
    BY DEF NoBlank
  <1>5. NoBlank(Seen("FilerPolicy"))' => NoBlank(Seen("FilerPolicy"))
    BY DEF NoBlank
  <1> QED BY <1>1, <1>2, <1>3, <1>4, <1>5 DEF FilerPolicyAs, IsLast

\* The tables, all together.
TablesAs ==
  /\ ParamsAs(Seen("Parameters")) /\ MountsAs(Seen("ExportNames"))
  /\ PolicyAs(Seen("PluginPolicy")) /\ FilerPolicyAs(Seen("FilerPolicy"))

LEMMA TablesStay ==
  ASSUME TablesAs, file' = file, UNCHANGED <<prms, mounttab, policy, fptab>>, failed \subseteq failed',
         \A s \in Sections :
           \/ Seen(s)' = Seen(s)
           \/ Seen(s)' = Seen(s) \cup {pos} /\ file[pos].kind \notin Sections
  PROVE  TablesAs'
  <1>1. \A s \in Sections : \/ Seen(s)' = Seen(s)
                            \/ Seen(s)' = Seen(s) \cup {pos} /\ file[pos].kind # s
    OBVIOUS
  <1>2. /\ "Parameters" \in Sections /\ "ExportNames" \in Sections
        /\ "PluginPolicy" \in Sections /\ "FilerPolicy" \in Sections
    BY DEF Sections
  <1>3. ParamsAs(Seen("Parameters"))'
    BY <1>1, <1>2, ParamsStay DEF TablesAs
  <1>4. MountsAs(Seen("ExportNames"))'
    BY <1>1, <1>2, MountsStay DEF TablesAs
  <1>5. PolicyAs(Seen("PluginPolicy"))'
    BY <1>1, <1>2, PolicyStays DEF TablesAs
  <1>6. FilerPolicyAs(Seen("FilerPolicy"))'
    BY <1>1, <1>2, FilerPolicyStays DEF TablesAs
  <1> QED BY <1>3, <1>4, <1>5, <1>6 DEF TablesAs
-----------------------------------------------------------------------------
LEMMA ConfInit == Init => ConfInv
  <1> SUFFICES ASSUME Init PROVE ConfInv
    OBVIOUS
  <1>1. file \in Seq(Line) /\ Len(file) \in Nat
    BY ConfAssumption DEF Init
  <1>2. CTypeOK
    <2>1. pos \in 1 .. Len(file) + 1 /\ pass \in DOMAIN Passes
      BY <1>1, PassesAre DEF Init
    <2>2. prms \in [Parameters -> Values \cup {"yes", NULL}]
      BY DEF Init, initparams
    <2>3. policy \in [Limits -> Nat]
      BY DEF Init, NoPolicy
    <2>4. DOMAIN mounttab = {} /\ DOMAIN fptab = {}
      BY DEF Init
    <2> QED BY <2>1, <2>2, <2>3, <2>4 DEF CTypeOK, Init
  <1>3. \A s \in Sections : Seen(s) = {}
    <2> SUFFICES ASSUME NEW s \in Sections, NEW i \in Seen(s) PROVE FALSE
      OBVIOUS
    <2>1. i \in 1 .. Len(file) /\ i < 1
      BY <1>1, PassesAre DEF Seen, Sections, SectionLines, Init
    <2> QED BY <1>1, <2>1
  <1>4. Seen("Parameters") = {} /\ Seen("ExportNames") = {} /\ Seen("PluginPolicy") = {}
        /\ Seen("FilerPolicy") = {}
    BY <1>3 DEF Sections
  <1>5. ParamsAs({})
    BY DEF ParamsAs, ParamLines, Init, initparams
  <1>6. MountsAs({})
    BY DEF MountsAs, MapLines, Init
  <1>7. PolicyAs({})
    BY DEF PolicyAs, PolicyLines, Init, NoPolicy
  <1>8. FilerPolicyAs({})
    BY DEF FilerPolicyAs, FilerLines, PolicyOf, Known, Init, NoPolicy
  <1>9. InPlace
    BY DEF InPlace, Init
  <1>10. AllSeen /\ LineRepeats /\ OffOnlyForCause
    BY DEF AllSeen, LineRepeats, OffOnlyForCause, Init
  <1> QED BY <1>2, <1>4, <1>5, <1>6, <1>7, <1>8, <1>9, <1>10 DEF ConfInv

\* Steps that only end sched_init(), or stutter.
LEMMA StayPut ==
  ASSUME ConfInv, UNCHANGED <<file, pass, found, pos, line, tables>>,
         status' \in {"reading", "registered", "off"}, failed \subseteq failed', failed' \subseteq Faults
  PROVE  /\ CTypeOK' /\ InPlace' /\ LineRepeats' /\ TablesAs'
         /\ \A s : Seen(s)' = Seen(s) /\ SectionLines(s)' = SectionLines(s)
  <1>1. \A s : Seen(s)' = Seen(s) /\ SectionLines(s)' = SectionLines(s)
    BY SeenKept
  <1>2. CTypeOK'
    BY DEF ConfInv, CTypeOK, tables
  <1>3. InPlace' /\ LineRepeats'
    BY DEF ConfInv, InPlace, InSection, Tag, LineRepeats, tables
  <1>4. TablesAs'
    BY <1>1, TablesStay DEF ConfInv, TablesAs, tables
  <1> QED BY <1>1, <1>2, <1>3, <1>4

LEMMA NoFileOK ==
  ASSUME ConfInv, NoFile
  PROVE  ConfInv'
  <1>1. /\ status' = "off" /\ "open" \in failed' /\ failed' = failed \cup {"open"} /\ "open" \in Faults
        /\ UNCHANGED <<file, pass, found, pos, line, tables>>
    BY DEF NoFile, Fails
  <1>2. failed' \subseteq Faults
    BY <1>1 DEF ConfInv, CTypeOK
  <1>3. AllSeen' /\ OffOnlyForCause'
    BY <1>1 DEF AllSeen, OffOnlyForCause
  <1> QED BY <1>1, <1>2, <1>3, StayPut DEF ConfInv, TablesAs

LEMMA SeekBeginOK ==
  ASSUME ConfInv, SeekBegin
  PROVE  ConfInv'
  <1>1. /\ status = "reading" /\ ~found /\ pos <= Len(file)
        /\ found' = (file[pos] = BeginOf(Tag)) /\ pos' = pos + 1
        /\ status' = status /\ file' = file /\ pass' = pass /\ line' = line /\ failed' = failed
        /\ UNCHANGED <<prms, policy, mounttab, fptab, numfilesys>>
    BY DEF SeekBegin, tables
  <1>2. CTypeOK /\ pos \in Nat /\ pos >= 1 /\ Len(file) \in Nat
    BY FileTyped DEF ConfInv
  <1>3. CTypeOK'
    <2>1. pos' \in 1 .. Len(file') + 1 /\ found' \in BOOLEAN
      BY <1>1, <1>2
    <2> QED BY <1>1, <1>2, <2>1 DEF CTypeOK
  <1>4. \A k \in 1 .. pos - 1 : file[k] # BeginOf(Tag)
    BY <1>1 DEF ConfInv, InPlace
  <1>5. Tag' = Tag
    BY <1>1 DEF Tag
  <1>6. InPlace'
    <2>1. CASE found'
      <3>1. file[pos] = BeginOf(Tag) /\ BeginOf(Tag) # EndOf(Tag)
        BY <1>1, <2>1 DEF BeginOf, EndOf
      <3>2. \A k \in pos .. pos' - 1 : k = pos
        BY <1>1, <1>2
      <3>3. InSection(Tag)'
        BY <1>1, <1>2, <1>4, <1>5, <3>1, <3>2 DEF InSection
      <3> QED BY <2>1, <3>3 DEF InPlace
    <2>2. CASE ~found'
      <3>1. \A k \in 1 .. pos' - 1 : k \in 1 .. pos - 1 \/ k = pos
        BY <1>1, <1>2
      <3>2. \A k \in 1 .. pos' - 1 : file'[k] # BeginOf(Tag')
        BY <1>1, <1>4, <1>5, <2>2, <3>1
      <3> QED BY <2>2, <3>2 DEF InPlace
    <2> QED BY <2>1, <2>2
  <1>7. \A s \in Sections : Seen(s)' = Seen(s)
    <2> SUFFICES ASSUME NEW s \in Sections PROVE Seen(s)' = Seen(s)
      OBVIOUS
    <2>1. SectionLines(s)' = SectionLines(s)
      BY <1>1 DEF SectionLines
    <2>2. CASE PassOf(s) = pass
      <3>1. s = Tag
        BY <1>2, <2>2, PassesAre, TagIs DEF CTypeOK, Sections
      <3>2. \A i \in SectionLines(s) : i > pos /\ i \in Nat
        BY <1>2, <1>4, <3>1, BeforeSection, FileTyped DEF SectionLines
      <3> QED BY <1>1, <1>2, <2>1, <2>2, <3>2 DEF Seen
    <2>3. CASE PassOf(s) # pass
      BY <1>1, <2>1, <2>3 DEF Seen
    <2> QED BY <2>2, <2>3
  <1>8. TablesAs'
    BY <1>1, <1>7, TablesStay DEF ConfInv, TablesAs
  <1>9. AllSeen' /\ OffOnlyForCause' /\ LineRepeats'
    BY <1>1 DEF ConfInv, AllSeen, OffOnlyForCause, LineRepeats
  <1> QED BY <1>3, <1>6, <1>8, <1>9 DEF ConfInv, TablesAs

\* What the steps to the next line inside a section have in common.
LEMMA AdvanceOK ==
  ASSUME ConfInv, status = "reading", found, pos <= Len(file),
         file[pos].kind \in Sections \cup {"blank", "comment"},
         status' = status, file' = file, pass' = pass, found' = found, pos' = pos + 1
  PROVE  /\ InPlace' /\ AllSeen' /\ OffOnlyForCause' /\ pos' \in 1 .. Len(file') + 1
         /\ pos \in 1 .. Len(file) /\ pos \in Nat /\ file[pos] \in Line
         /\ \A s \in Sections : /\ PassOf(s) = pass => Seen(s)' = Seen(s) \cup {pos}
                                /\ PassOf(s) # pass => Seen(s)' = Seen(s)
         /\ \A s \in Sections : PassOf(s) = pass => \A i \in Seen(s) : i \in Nat /\ i < pos
  <1>1. CTypeOK /\ InPlace
    BY DEF ConfInv
  <1>2. file[pos] # EndOf(Tag)
    BY DEF EndOf, Sections
  <1>3. InSection(Tag) /\ Tag' = Tag
    BY <1>1 DEF InPlace, Tag
  <1>4. InSection(Tag)'
    <2>1. PICK s : s = Tag
      OBVIOUS
    <2>2. InSection(s)'
      BY <1>1, <1>2, <1>3, <2>1, StayInSection
    <2>3. s = Tag'
      BY <1>3, <2>1
    <2> QED BY <2>2, <2>3 DEF InSection
  <1>5. InPlace'
    BY <1>4 DEF InPlace
  <1>6. AllSeen' /\ OffOnlyForCause'
    BY DEF AllSeen, OffOnlyForCause
  <1>7. pos \in 1 .. Len(file) /\ pos' \in 1 .. Len(file') + 1
    BY <1>1, FileTyped
  <1> QED BY <1>1, <1>2, <1>5, <1>6, <1>7, FileTyped, SeenGrows

LEMMA CommentOK ==
  ASSUME ConfInv, Comment
  PROVE  ConfInv'
  <1>1. /\ status = "reading" /\ found /\ pos <= Len(file) /\ file[pos].kind = "comment"
        /\ status' = status /\ file' = file /\ pass' = pass /\ found' = found /\ pos' = pos + 1
        /\ line' = line /\ failed' = failed /\ UNCHANGED <<prms, policy, mounttab, fptab, numfilesys>>
    BY DEF Comment, GoesOn, Works, tables
  <1>2. /\ InPlace' /\ AllSeen' /\ OffOnlyForCause' /\ pos' \in 1 .. Len(file') + 1
        /\ \A s \in Sections : Seen(s)' = Seen(s) \/ Seen(s)' = Seen(s) \cup {pos}
    BY <1>1, AdvanceOK
  <1>3. CTypeOK' /\ LineRepeats'
    BY <1>1, <1>2 DEF ConfInv, CTypeOK, LineRepeats
  <1>4. TablesAs'
    <2>1. file[pos].kind \notin Sections
      BY <1>1 DEF Sections
    <2> QED BY <1>1, <1>2, <2>1, TablesStay DEF ConfInv, TablesAs
  <1> QED BY <1>2, <1>3, <1>4 DEF ConfInv, TablesAs

LEMMA CountRecordOK ==
  ASSUME ConfInv, CountRecord
  PROVE  ConfInv'
  <1>1. /\ status = "reading" /\ found /\ pos <= Len(file) /\ file[pos].kind \in {Tag, "blank"}
        /\ Passes[pass] = "Count"
        /\ status' = status /\ file' = file /\ pass' = pass /\ found' = found /\ pos' = pos + 1
        /\ line' = line /\ failed' = failed /\ UNCHANGED <<prms, policy, mounttab, fptab>>
        /\ numfilesys' = numfilesys + 1
    BY DEF CountRecord, Record, GoesOn, Works
  <1>2. pass = 2 /\ Tag \in Sections
    BY <1>1, PassesAre, TagIs DEF ConfInv, CTypeOK
  <1>3. /\ InPlace' /\ AllSeen' /\ OffOnlyForCause' /\ pos' \in 1 .. Len(file') + 1
        /\ \A s \in Sections : PassOf(s) # pass => Seen(s)' = Seen(s)
    BY <1>1, <1>2, AdvanceOK
  <1>4. \A s \in Sections : PassOf(s) # 2
    BY PassesAre DEF Sections
  <1>5. CTypeOK' /\ LineRepeats'
    <2>1. numfilesys' \in Nat
      BY <1>1 DEF ConfInv, CTypeOK
    <2>2. CTypeOK'
      BY <1>1, <1>3, <2>1 DEF ConfInv, CTypeOK
    <2>3. LineRepeats'
      BY <1>1 DEF ConfInv, LineRepeats
    <2> QED BY <2>2, <2>3
  <1>6. TablesAs'
    BY <1>1, <1>2, <1>3, <1>4, TablesStay DEF ConfInv, TablesAs
  <1> QED BY <1>3, <1>5, <1>6 DEF ConfInv, TablesAs

LEMMA ParseParamsOK ==
  ASSUME ConfInv, ParseParams
  PROVE  ConfInv'
  <1> DEFINE l == file[pos]
             at(p) == ParamLines(Seen("Parameters"), p)
  <1>1. /\ status = "reading" /\ found /\ pos <= Len(file) /\ l.kind \in {Tag, "blank"}
        /\ Passes[pass] = "Parameters"
        /\ status' = status /\ file' = file /\ pass' = pass /\ found' = found /\ pos' = pos + 1
        /\ failed' = failed /\ UNCHANGED <<policy, mounttab, fptab, numfilesys>>
        /\ line' = IF l.kind = "blank" THEN line
                   ELSE [name |-> l.name, val |-> IF l.val = NULL THEN line.val ELSE l.val]
        /\ prms' = IF line'.name = NULL \/ (line'.name = "Debug" /\ line'.val # "yes")
                     THEN prms ELSE [prms EXCEPT ![line'.name] = line'.val]
    BY DEF ParseParams, Record, Works
  <1>2. pass = 1 /\ Tag = "Parameters" /\ CTypeOK
    <2>1. CTypeOK
      BY DEF ConfInv
    <2>2. pass \in DOMAIN Passes
      BY <2>1 DEF CTypeOK
    <2> QED BY <1>1, <2>1, <2>2, PassesAre, TagIs
  <1>3. /\ InPlace' /\ AllSeen' /\ OffOnlyForCause' /\ pos' \in 1 .. Len(file') + 1
        /\ l \in Line /\ pos \in Nat
        /\ Seen("Parameters")' = Seen("Parameters") \cup {pos}
        /\ \A s \in Sections \ {"Parameters"} : Seen(s)' = Seen(s)
        /\ \A i \in Seen("Parameters") : i \in Nat /\ i < pos
    BY <1>1, <1>2, AdvanceOK, PassesAre DEF Sections
  <1>4. /\ prms \in [Parameters -> Values \cup {"yes", NULL}]
        /\ line \in [name : Parameters \cup {NULL}, val : Values \cup {"yes", NULL}]
    BY <1>2 DEF CTypeOK
  <1>5. l.kind # "blank" =>
          l.kind = "Parameters" /\ l.name \in Parameters \cup {NULL}
          /\ l.val \in Values \cup {"yes", NULL}
    BY <1>1, <1>2, <1>3, LineTyped
  <1>6. line' \in [name : Parameters \cup {NULL}, val : Values \cup {"yes", NULL}]
    BY <1>1, <1>4, <1>5
  <1>7. prms' \in [Parameters -> Values \cup {"yes", NULL}]
    BY <1>1, <1>4, <1>6
  <1>8. CTypeOK'
    BY <1>1, <1>2, <1>3, <1>6, <1>7 DEF CTypeOK
  <1>9. LineRepeats'
    BY <1>1, <1>4, <1>6 DEF ConfInv, LineRepeats
  <1>10. NULL \notin Parameters /\ "yes" # NULL
    BY ConfAssumption
  <1>11. ParamsAs(Seen("Parameters"))'
    <2>1. CASE l.kind = "blank"
      <3>1. \A p \in Parameters : at(p)' = at(p)
        BY <1>1, <1>3, <2>1 DEF ParamLines
      <3>2. \A p \in Parameters \ {"Debug"} : prms'[p] = prms[p]
        BY <1>1, <1>4, <2>1 DEF ConfInv, LineRepeats
      <3>3. prms["Debug"] = "yes" => prms'["Debug"] = "yes"
        BY <1>1, <1>4, <2>1 DEF Parameters
      <3>4. "Debug" \in Parameters
        BY DEF Parameters
      <3> QED BY <1>1, <3>1, <3>2, <3>3, <3>4 DEF ConfInv, ParamsAs, IsLast
    <2>2. CASE l.kind = "Parameters"
      <3>1. /\ l.name \in Parameters \cup {NULL} /\ line'.name = l.name
            /\ l.val # NULL => line'.val = l.val
        BY <1>1, <1>5, <1>10, <2>2
      <3>2. \A p \in Parameters : at(p)' = IF p = l.name THEN at(p) \cup {pos} ELSE at(p)
        BY <1>1, <1>3, <2>2 DEF ParamLines
      <3>3. ASSUME NEW p \in Parameters \ {"Debug"}
            PROVE  /\ at(p)' = {} => prms'[p] = NULL
                   /\ \A i \in at(p)' : IsLast(i, at(p)') /\ file'[i].val # NULL
                                         => prms'[p] = file'[i].val
        <4>1. CASE p = l.name
          <5>1. prms'[p] = line'.val
            BY <1>1, <1>4, <1>10, <3>1, <4>1
          <5>2. \A i \in at(p)' : IsLast(i, at(p)') => i = pos
            BY <1>3, <3>2, <4>1 DEF IsLast, ParamLines
          <5>3. at(p)' # {}
            BY <3>2, <4>1
          <5> QED BY <1>1, <3>1, <5>1, <5>2, <5>3
        <4>2. CASE p # l.name
          <5>1. at(p)' = at(p) /\ prms'[p] = prms[p]
            BY <1>1, <1>4, <3>1, <3>2, <4>2
          <5> QED BY <1>1, <5>1 DEF ConfInv, ParamsAs
        <4> QED BY <4>1, <4>2
      <3>4. (\E i \in at("Debug")' : file'[i].val = "yes") => prms'["Debug"] = "yes"
        <4> SUFFICES ASSUME NEW i \in at("Debug")', file[i].val = "yes" PROVE prms'["Debug"] = "yes"
          BY <1>1
        <4>1. "Debug" \in Parameters
          BY DEF Parameters
        <4>2. CASE i \in at("Debug")
          <5>1. prms["Debug"] = "yes"
            BY <4>2 DEF ConfInv, ParamsAs
          <5> QED BY <1>1, <1>4, <3>1, <4>1, <5>1
        <4>3. CASE i \notin at("Debug")
          <5>1. i = pos /\ l.name = "Debug"
            BY <3>2, <4>1, <4>3
          <5> QED BY <1>1, <1>4, <1>10, <3>1, <4>1, <5>1
        <4> QED BY <4>2, <4>3
      <3> QED BY <3>3, <3>4 DEF ParamsAs
    <2> QED BY <1>1, <1>2, <2>1, <2>2
  <1>12. MountsAs(Seen("ExportNames"))' /\ PolicyAs(Seen("PluginPolicy"))'
         /\ FilerPolicyAs(Seen("FilerPolicy"))'
    <2>1. /\ Seen("ExportNames")' = Seen("ExportNames") /\ Seen("PluginPolicy")' = Seen("PluginPolicy")
          /\ Seen("FilerPolicy")' = Seen("FilerPolicy")
      BY <1>3 DEF Sections
    <2> QED BY <1>1, <2>1, MountsStay, PolicyStays, FilerPolicyStays DEF ConfInv
  <1> QED BY <1>3, <1>8, <1>9, <1>11, <1>12 DEF ConfInv

LEMMA ParsePoliciesOK ==
  ASSUME ConfInv, ParsePolicies
  PROVE  ConfInv'
  <1> DEFINE r == file[pos]
             at(l) == PolicyLines(Seen("PluginPolicy"), l)
  <1>1. /\ status = "reading" /\ found /\ pos <= Len(file) /\ r.kind \in {Tag, "blank"}
        /\ Passes[pass] = "PluginPolicy"
        /\ status' = status /\ file' = file /\ pass' = pass /\ found' = found /\ pos' = pos + 1
        /\ line' = line /\ failed' = failed /\ UNCHANGED <<prms, mounttab, fptab, numfilesys>>
        /\ IF r.kind = "blank" THEN policy' = policy
           ELSE \E v \in ValuesOf(r.val) : policy' = SetLimit(policy, r.limit, v)
    BY DEF ParsePolicies, Record, GoesOn, Works
  <1>2. pass = 4 /\ Tag = "PluginPolicy" /\ CTypeOK
    <2>1. CTypeOK
      BY DEF ConfInv
    <2>2. pass \in DOMAIN Passes
      BY <2>1 DEF CTypeOK
    <2> QED BY <1>1, <2>1, <2>2, PassesAre, TagIs
  <1>3. /\ InPlace' /\ AllSeen' /\ OffOnlyForCause' /\ pos' \in 1 .. Len(file') + 1
        /\ r \in Line /\ pos \in Nat
        /\ Seen("PluginPolicy")' = Seen("PluginPolicy") \cup {pos}
        /\ \A s \in Sections \ {"PluginPolicy"} : Seen(s)' = Seen(s)
        /\ \A i \in Seen("PluginPolicy") : i \in Nat /\ i < pos
    BY <1>1, <1>2, AdvanceOK, PassesAre DEF Sections
  <1>4. policy \in [Limits -> Nat]
    BY <1>2 DEF CTypeOK
  <1>5. r.kind # "blank" => r.kind = "PluginPolicy" /\ r.limit \in Limits \cup {NULL}
                            /\ r.val \in Nat \cup {NULL}
    BY <1>1, <1>2, <1>3, LineTyped
  <1>6. policy' \in [Limits -> Nat]
    <2>1. CASE r.kind = "blank"
      BY <1>1, <1>4, <2>1
    <2>2. CASE r.kind # "blank"
      <3>1. PICK v \in ValuesOf(r.val) : policy' = SetLimit(policy, r.limit, v)
        BY <1>1, <2>2
      <3>2. v \in Nat
        BY <1>5, <2>2, ConfAssumption DEF ValuesOf
      <3> QED BY <1>4, <3>1, <3>2 DEF SetLimit
    <2> QED BY <2>1, <2>2
  <1>7. CTypeOK' /\ LineRepeats'
    <2>1. CTypeOK'
      BY <1>1, <1>2, <1>3, <1>6 DEF CTypeOK
    <2>2. LineRepeats'
      BY <1>1 DEF ConfInv, LineRepeats
    <2> QED BY <2>1, <2>2
  <1>8. PolicyAs(Seen("PluginPolicy"))'
    <2>1. CASE r.kind = "blank"
      BY <1>1, <1>3, <2>1, PolicyStays DEF ConfInv
    <2>2. CASE r.kind = "PluginPolicy"
      <3>1. \A l \in Limits : at(l)' = IF l = r.limit THEN at(l) \cup {pos} ELSE at(l)
        BY <1>1, <1>3, <2>2 DEF PolicyLines
      <3>2. PICK v \in ValuesOf(r.val) : policy' = SetLimit(policy, r.limit, v)
        BY <1>1, <2>2
      <3>3. ASSUME NEW l \in Limits
            PROVE  /\ at(l)' = {} => policy'[l] = 0
                   /\ \A i \in at(l)' : IsLast(i, at(l)') /\ file'[i].val # NULL
                                         => policy'[l] = file'[i].val
        <4>1. CASE l = r.limit
          <5>1. r.val # NULL => policy'[l] = r.val
            BY <1>4, <3>2, <4>1, ConfAssumption DEF SetLimit, ValuesOf
          <5>2. \A i \in at(l)' : IsLast(i, at(l)') => i = pos
            BY <1>3, <3>1, <4>1 DEF IsLast, PolicyLines
          <5>3. at(l)' # {}
            BY <3>1, <4>1
          <5> QED BY <1>1, <5>1, <5>2, <5>3
        <4>2. CASE l # r.limit
          <5>1. at(l)' = at(l) /\ policy'[l] = policy[l]
            BY <1>4, <3>1, <3>2, <4>2 DEF SetLimit
          <5> QED BY <1>1, <5>1 DEF ConfInv, PolicyAs
        <4> QED BY <4>1, <4>2
      <3> QED BY <3>3 DEF PolicyAs
    <2> QED BY <1>5, <2>1, <2>2
  <1>9. ParamsAs(Seen("Parameters"))' /\ MountsAs(Seen("ExportNames"))'
        /\ FilerPolicyAs(Seen("FilerPolicy"))'
    <2>1. /\ Seen("Parameters")' = Seen("Parameters") /\ Seen("ExportNames")' = Seen("ExportNames")
          /\ Seen("FilerPolicy")' = Seen("FilerPolicy")
      BY <1>3 DEF Sections
    <2> QED BY <1>1, <2>1, ParamsStay, MountsStay, FilerPolicyStays DEF ConfInv
  <1> QED BY <1>3, <1>7, <1>8, <1>9 DEF ConfInv

LEMMA ParseFilerPoliciesOK ==
  ASSUME ConfInv, ParseFilerPolicies
  PROVE  ConfInv'
  <1> DEFINE r == file[pos]
             at(n, l) == FilerLines(Seen("FilerPolicy"), n, l)
             after(i) == {k \in Seen("FilerPolicy") : k > i}
             used(n) == PolicyOf(n, fptab)
             next(n) == PolicyOf(n, fptab')
  <1>0. PICK w \in FilerWords(r) :
          \/ /\ fptab' = IF w.name = NULL THEN fptab
                         ELSE With(fptab, w.name, SetLimit(used(w.name), w.limit, w.val))
             /\ failed' = failed
          \/ /\ ~Known(w.name, fptab) /\ "filerpol" \in Faults
             /\ failed' = failed \cup {"filerpol"} /\ fptab' = fptab
    BY DEF ParseFilerPolicies, Works, Fails
  <1>1. /\ status = "reading" /\ found /\ pos <= Len(file) /\ r.kind \in {Tag, "blank"}
        /\ Passes[pass] = "FilerPolicy"
        /\ status' = status /\ file' = file /\ pass' = pass /\ found' = found /\ pos' = pos + 1
        /\ line' = line /\ UNCHANGED <<prms, policy, mounttab, numfilesys>>
    BY DEF ParseFilerPolicies, Record, GoesOn
  <1>2. pass = 5 /\ Tag = "FilerPolicy" /\ CTypeOK
    <2>1. CTypeOK
      BY DEF ConfInv
    <2>2. pass \in DOMAIN Passes
      BY <2>1 DEF CTypeOK
    <2> QED BY <1>1, <2>1, <2>2, PassesAre, TagIs
  <1>3. /\ InPlace' /\ AllSeen' /\ OffOnlyForCause' /\ pos' \in 1 .. Len(file') + 1
        /\ r \in Line /\ pos \in Nat
        /\ Seen("FilerPolicy")' = Seen("FilerPolicy") \cup {pos}
        /\ \A s \in Sections \ {"FilerPolicy"} : Seen(s)' = Seen(s)
        /\ \A i \in Seen("FilerPolicy") : i \in Nat /\ i < pos
    BY <1>1, <1>2, AdvanceOK, PassesAre DEF Sections
  <1>4. DOMAIN fptab \subseteq Names /\ \A n \in DOMAIN fptab : fptab[n] \in [Limits -> Nat]
    BY <1>2 DEF CTypeOK
  <1>5. /\ w.name \in Names \cup {NULL} /\ w.limit \in Limits \cup {NULL} /\ w.val \in Nat
        /\ r.kind # "blank" => /\ r.kind = "FilerPolicy" /\ w.name = r.name /\ w.name # NULL
                               /\ w.limit = r.limit /\ (r.val # NULL => w.val = r.val)
    <2>1. r.kind # "blank" => /\ r.kind = "FilerPolicy" /\ r.name \in Names
                              /\ r.limit \in Limits \cup {NULL} /\ r.val \in Nat \cup {NULL}
      BY <1>1, <1>2, <1>3, LineTyped
    <2>2. CASE r.kind = "blank"
      BY <1>0, <2>2, ConfAssumption DEF FilerWords
    <2>3. CASE r.kind # "blank"
      BY <1>0, <2>1, <2>3, ConfAssumption DEF FilerWords, ValuesOf
    <2> QED BY <2>2, <2>3
  <1>6. \A n \in Names : used(n) \in [Limits -> Nat]
    BY <1>4 DEF PolicyOf, Known, NoPolicy
  <1> DEFINE installs == /\ w.name # NULL /\ failed' = failed
                         /\ fptab' = With(fptab, w.name, SetLimit(used(w.name), w.limit, w.val))
             loses    == /\ ~Known(w.name, fptab) /\ fptab' = fptab
                         /\ failed' = failed \cup {"filerpol"}
  <1>7. /\ failed' \subseteq Faults /\ failed \subseteq failed'
        /\ (w.name = NULL /\ fptab' = fptab) \/ installs \/ loses
    BY <1>0, <1>2 DEF CTypeOK
  <1>8. ASSUME installs
        PROVE  /\ DOMAIN fptab' = DOMAIN fptab \cup {w.name}
               /\ fptab'[w.name] = SetLimit(used(w.name), w.limit, w.val)
               /\ \A n \in DOMAIN fptab \ {w.name} : fptab'[n] = fptab[n]
    BY <1>8 DEF With
  <1>9. DOMAIN fptab' \subseteq Names /\ \A n \in DOMAIN fptab' : fptab'[n] \in [Limits -> Nat]
    <2>1. CASE installs
      <3>1. SetLimit(used(w.name), w.limit, w.val) \in [Limits -> Nat]
        BY <1>5, <1>6, <2>1 DEF SetLimit
      <3> QED BY <1>4, <1>5, <1>8, <2>1, <3>1
    <2>2. CASE fptab' = fptab
      BY <1>4, <2>2
    <2> QED BY <1>7, <2>1, <2>2
  <1>10. CTypeOK' /\ LineRepeats'
    <2>1. CTypeOK'
      BY <1>1, <1>2, <1>3, <1>7, <1>9 DEF CTypeOK
    <2>2. LineRepeats'
      BY <1>1 DEF ConfInv, LineRepeats
    <2> QED BY <2>1, <2>2
  <1>11. FilerPolicyAs(Seen("FilerPolicy"))'
    <2>1. CASE r.kind = "blank"
      <3>1. ~NoBlank(Seen("FilerPolicy"))'
        BY <1>1, <1>3, <2>1 DEF NoBlank
      <3>2. \A n \in Names, l \in Limits : at(n, l)' = at(n, l)
        BY <1>1, <1>3, <2>1 DEF FilerLines
      <3>3. \A n \in Names, l \in Limits : \A i \in at(n, l)' : pos \in after(i)'
        BY <1>3, <3>2 DEF FilerLines
      <3>4. \A n \in Names, l \in Limits : \A i \in at(n, l)' : ~NoBlank(after(i))'
        BY <1>1, <2>1, <3>3 DEF NoBlank
      <3> QED BY <3>1, <3>4 DEF FilerPolicyAs
    <2>2. CASE r.kind = "FilerPolicy"
      <3>0. /\ w.name = r.name /\ w.name \in Names /\ w.name # NULL
            /\ w.limit = r.limit /\ (r.val # NULL => w.val = r.val)
        BY <1>5, <2>2
      <3>1. /\ \A n \in Names, l \in Limits :
                 at(n, l)' = IF n = w.name /\ l = w.limit THEN at(n, l) \cup {pos} ELSE at(n, l)
            /\ NoBlank(Seen("FilerPolicy"))' => NoBlank(Seen("FilerPolicy"))
            /\ \A i : NoBlank(after(i))' => NoBlank(after(i))
        BY <1>1, <1>3, <2>2, <3>0 DEF FilerLines, NoBlank
      <3>2. \A n \in Names \ {w.name} : next(n) = used(n)
        <4>1. CASE installs
          BY <1>8, <4>1 DEF PolicyOf, Known
        <4>2. CASE fptab' = fptab
          BY <4>2 DEF PolicyOf, Known
        <4> QED BY <1>7, <4>1, <4>2
      <3>3. \A l \in Limits \ {w.limit} : next(w.name)[l] = used(w.name)[l]
        <4>1. CASE installs
          <5>1. next(w.name) = SetLimit(used(w.name), w.limit, w.val)
            BY <1>8, <4>1 DEF PolicyOf, Known
          <5> QED BY <1>6, <3>0, <5>1 DEF SetLimit
        <4>2. CASE fptab' = fptab
          BY <4>2 DEF PolicyOf, Known
        <4> QED BY <1>7, <4>1, <4>2
      <3>4. ASSUME w.limit \in Limits
            PROVE  \/ next(w.name)[w.limit] = w.val
                   \/ next(w.name)[w.limit] = 0 /\ "filerpol" \in failed'
        <4>1. CASE installs
          <5>1. next(w.name) = SetLimit(used(w.name), w.limit, w.val)
            BY <1>8, <4>1 DEF PolicyOf, Known
          <5> QED BY <1>6, <3>0, <3>4, <5>1, ConfAssumption DEF SetLimit
        <4>2. CASE loses
          BY <3>4, <4>2 DEF PolicyOf, Known, NoPolicy
        <4> QED BY <1>7, <3>0, <4>1, <4>2
      <3>5. ASSUME NEW n \in Names, NEW l \in Limits
            PROVE  /\ at(n, l)' = {} /\ NoBlank(Seen("FilerPolicy"))' => next(n)[l] = 0
                   /\ \A i \in at(n, l)' :
                        IsLast(i, at(n, l)') /\ file'[i].val # NULL /\ NoBlank(after(i))'
                        => next(n)[l] = file'[i].val \/ (next(n)[l] = 0 /\ "filerpol" \in failed')
        <4>1. CASE n = w.name /\ l = w.limit
          <5>1. \A i \in at(n, l)' : IsLast(i, at(n, l)') => i = pos
            BY <1>3, <3>1, <4>1 DEF IsLast, FilerLines
          <5>2. at(n, l)' # {}
            BY <3>1, <4>1
          <5> QED BY <1>1, <3>0, <3>4, <4>1, <5>1, <5>2
        <4>2. CASE ~(n = w.name /\ l = w.limit)
          <5>1. at(n, l)' = at(n, l)
            BY <3>1, <4>2
          <5>2. next(n)[l] = used(n)[l]
            BY <3>2, <3>3, <4>2
          <5>3. /\ at(n, l) = {} /\ NoBlank(Seen("FilerPolicy")) => used(n)[l] = 0
                /\ \A i \in at(n, l) :
                     IsLast(i, at(n, l)) /\ file[i].val # NULL /\ NoBlank(after(i))
                     => used(n)[l] = file[i].val \/ (used(n)[l] = 0 /\ "filerpol" \in failed)
            BY DEF ConfInv, FilerPolicyAs
          <5> QED BY <1>1, <1>7, <3>1, <5>1, <5>2, <5>3
        <4> QED BY <4>1, <4>2
      <3> QED BY <3>5 DEF FilerPolicyAs
    <2> QED BY <1>5, <2>1, <2>2
  <1>12. ParamsAs(Seen("Parameters"))' /\ MountsAs(Seen("ExportNames"))'
         /\ PolicyAs(Seen("PluginPolicy"))'
    <2>1. /\ Seen("Parameters")' = Seen("Parameters") /\ Seen("ExportNames")' = Seen("ExportNames")
          /\ Seen("PluginPolicy")' = Seen("PluginPolicy")
      BY <1>3 DEF Sections
    <2> QED BY <1>1, <1>7, <2>1, ParamsStay, MountsStay, PolicyStays DEF ConfInv
  <1> QED BY <1>3, <1>10, <1>11, <1>12 DEF ConfInv

\* The list of a storage map has its words, with a volume each.
LEMMA VolListIs ==
  ASSUME NEW words \in Seq(Word), NEW s \in Names
  PROVE  /\ VolList(words, s) \in Seq([filer : Names, vol : Names])
         /\ Len(VolList(words, s)) = Len(words)
         /\ \A w \in DOMAIN words :
              /\ VolList(words, s)[w].filer = words[w].filer
              /\ words[w].vol # NULL => VolList(words, s)[w].vol = words[w].vol
  <1> DEFINE set(i) == {k \in 1 .. i : words[k].vol # NULL}
             list == VolList(words, s)
  <1>1. Len(words) \in Nat /\ DOMAIN words = 1 .. Len(words) /\ \A i \in DOMAIN words : words[i] \in Word
    OBVIOUS
  <1>2. \A i \in DOMAIN words : words[i].filer \in Names /\ words[i].vol \in Names \cup {NULL}
    BY <1>1 DEF Word
  <1>3. \A i \in DOMAIN words : set(i) # {} => Max(set(i)) \in set(i) /\ \A k \in set(i) : Max(set(i)) >= k
    <2> SUFFICES ASSUME NEW i \in DOMAIN words, set(i) # {}
                 PROVE  Max(set(i)) \in set(i) /\ \A k \in set(i) : Max(set(i)) >= k
      OBVIOUS
    <2>1. i \in Nat /\ set(i) \subseteq 1 .. i
      BY <1>1
    <2> HIDE DEF set
    <2> QED BY <2>1, HasMax
  <1>4. list = [i \in DOMAIN words |->
                  [filer |-> words[i].filer,
                   vol   |-> IF set(i) = {} THEN s ELSE words[Max(set(i))].vol]]
    BY DEF VolList
  <1>5. ASSUME NEW i \in DOMAIN words
        PROVE  /\ list[i] \in [filer : Names, vol : Names] /\ list[i].filer = words[i].filer
               /\ words[i].vol # NULL => list[i].vol = words[i].vol
    <2>1. CASE set(i) = {}
      <3>1. words[i].vol = NULL
        BY <1>1, <2>1
      <3> QED BY <1>2, <1>4, <2>1, <3>1
    <2>2. CASE set(i) # {}
      <3>1. Max(set(i)) \in 1 .. i /\ words[Max(set(i))].vol # NULL /\ \A k \in set(i) : Max(set(i)) >= k
        BY <1>3, <2>2
      <3>2. words[Max(set(i))].vol \in Names
        BY <1>1, <1>2, <3>1
      <3>3. words[i].vol # NULL => Max(set(i)) = i
        BY <1>1, <3>1
      <3> QED BY <1>2, <1>4, <2>2, <3>2, <3>3
    <2> QED BY <2>1, <2>2
  <1>6. Len(list) = Len(words) /\ DOMAIN list = 1 .. Len(words)
    BY <1>1, <1>4
  <1>7. list \in Seq([filer : Names, vol : Names])
    <2>1. list = [i \in 1 .. Len(words) |-> list[i]]
      BY <1>1, <1>4
    <2> HIDE DEF list
    <2>2. \A i \in 1 .. Len(words) : list[i] \in [filer : Names, vol : Names]
      BY <1>1, <1>5
    <2> DEFINE S == [filer : Names, vol : Names]
    <2>3. list \in [1 .. Len(words) -> S]
      BY <2>1, <2>2
    <2> HIDE DEF S
    <2>4. list \in Seq(S)
      BY <1>1, <2>3
    <2> QED BY <2>4 DEF S
  <1> QED BY <1>5, <1>6, <1>7

LEMMA ParseFilesysOK ==
  ASSUME ConfInv, ParseFilesys
  PROVE  ConfInv'
  <1> DEFINE r == file[pos]
             at(n) == MapLines(Seen("ExportNames"), n)
             off == UNCHANGED <<file, pass, found, pos, line, tables>> /\ status' = "off"
             goes == /\ status' = status /\ file' = file /\ pass' = pass /\ found' = found
                     /\ pos' = pos + 1 /\ line' = line
                     /\ failed \subseteq failed' /\ failed' \subseteq failed \cup {"entry"}
                     /\ failed' \subseteq Faults
                     /\ UNCHANGED <<prms, policy, fptab, numfilesys>>
             new(s) == goes /\ failed' = failed
                       /\ mounttab' = With(mounttab, r.name, VolList(r.words, s))
             lost == goes /\ "entry" \in failed' /\ mounttab' = mounttab
  <1>1. /\ status = "reading" /\ found /\ pos <= Len(file) /\ r.kind \in {Tag, "blank"}
        /\ Passes[pass] = "ExportNames"
        /\ \/ NoMap(r) /\ off /\ failed' = failed
           \/ ~NoMap(r) /\ Known(r.name, mounttab) /\ goes /\ mounttab' = mounttab
           \/ off /\ "stormap" \in Faults /\ failed' = failed \cup {"stormap"}
           \/ ~NoMap(r) /\ ~Known(r.name, mounttab) /\ \E s \in Names : new(s)
           \/ ~NoMap(r) /\ ~Known(r.name, mounttab) /\ lost
    <2>1. failed \subseteq Faults
      BY DEF ConfInv, CTypeOK
    <2> QED BY <2>1 DEF ParseFilesys, Record, GoesOn, Works, Fails, tables
  <1>2. pass = 3 /\ Tag = "ExportNames" /\ CTypeOK
    <2>1. CTypeOK
      BY DEF ConfInv
    <2>2. pass \in DOMAIN Passes
      BY <2>1 DEF CTypeOK
    <2> QED BY <1>1, <2>1, <2>2, PassesAre, TagIs
  <1>3. pos \in SectionLines("ExportNames") /\ r \in Line /\ pos \in 1 .. Len(file)
    <2>1. file[pos] # EndOf("ExportNames")
      BY <1>1, <1>2 DEF EndOf
    <2>2. InSection("ExportNames")
      BY <1>1, <1>2 DEF ConfInv, InPlace
    <2> QED BY <1>1, <1>2, <2>1, <2>2, NextOfSection, FileTyped
  <1>4. ASSUME off, failed' = failed \/ failed' = failed \cup {"stormap"},
               failed' \subseteq Faults, NoMap(r) \/ "stormap" \in failed'
        PROVE  ConfInv'
    <2>1. /\ CTypeOK' /\ InPlace' /\ LineRepeats' /\ TablesAs'
          /\ SectionLines("ExportNames")' = SectionLines("ExportNames")
      BY <1>4, StayPut
    <2>2. AllSeen'
      BY <1>4 DEF AllSeen
    <2>3. OffOnlyForCause'
      BY <1>1, <1>2, <1>3, <1>4, <2>1 DEF OffOnlyForCause, NoMap
    <2> QED BY <2>1, <2>2, <2>3 DEF ConfInv, TablesAs
  <1>5. ASSUME goes, ~NoMap(r)
        PROVE  /\ InPlace' /\ AllSeen' /\ OffOnlyForCause' /\ LineRepeats'
               /\ pos' \in 1 .. Len(file') + 1
               /\ ParamsAs(Seen("Parameters"))' /\ PolicyAs(Seen("PluginPolicy"))'
               /\ FilerPolicyAs(Seen("FilerPolicy"))'
               /\ r.kind = "ExportNames" /\ r.name \in Names /\ r.words \in Seq(Word)
               /\ \A i \in Seen("ExportNames") : i \in Nat /\ i < pos
               /\ \A n \in Names : at(n)' = IF n = r.name THEN at(n) \cup {pos} ELSE at(n)
    <2>1. r.kind \in Sections \cup {"blank", "comment"}
      BY <1>1, <1>2 DEF Sections
    <2>2. /\ InPlace' /\ AllSeen' /\ OffOnlyForCause' /\ pos' \in 1 .. Len(file') + 1
          /\ Seen("ExportNames")' = Seen("ExportNames") \cup {pos}
          /\ \A s \in Sections \ {"ExportNames"} : Seen(s)' = Seen(s)
          /\ \A i \in Seen("ExportNames") : i \in Nat /\ i < pos
      BY <1>1, <1>2, <1>5, <2>1, AdvanceOK, PassesAre DEF Sections
    <2>3. r.kind = "ExportNames" /\ r.name \in Names /\ r.words \in Seq(Word)
      BY <1>1, <1>2, <1>3, <1>5, LineTyped DEF NoMap
    <2>4. \A n \in Names : at(n)' = IF n = r.name THEN at(n) \cup {pos} ELSE at(n)
      BY <1>5, <2>2, <2>3 DEF MapLines
    <2>5. /\ Seen("Parameters")' = Seen("Parameters") /\ Seen("PluginPolicy")' = Seen("PluginPolicy")
          /\ Seen("FilerPolicy")' = Seen("FilerPolicy")
      BY <2>2 DEF Sections
    <2>6. /\ ParamsAs(Seen("Parameters"))' /\ PolicyAs(Seen("PluginPolicy"))'
          /\ FilerPolicyAs(Seen("FilerPolicy"))' /\ LineRepeats'
      BY <1>5, <2>5, ParamsStay, PolicyStays, FilerPolicyStays DEF ConfInv, LineRepeats
    <2> QED BY <2>2, <2>3, <2>4, <2>6
  <1>6. ASSUME goes, ~NoMap(r), Known(r.name, mounttab) \/ "entry" \in failed', mounttab' = mounttab
        PROVE  ConfInv'
    <2>1. CTypeOK'
      BY <1>2, <1>5, <1>6 DEF CTypeOK
    <2>3. MountsAs(Seen("ExportNames"))'
      <3> SUFFICES ASSUME NEW n \in Names
                   PROVE  IF n \in DOMAIN mounttab'
                            THEN \E i \in at(n)' : (IsFirst(i, at(n)') \/ "entry" \in failed') /\ MountAs(n, i)'
                            ELSE at(n)' = {} \/ "entry" \in failed'
        BY DEF MountsAs
      <3>1. IF n \in DOMAIN mounttab
              THEN \E i \in at(n) : (IsFirst(i, at(n)) \/ "entry" \in failed) /\ MountAs(n, i)
              ELSE at(n) = {} \/ "entry" \in failed
        BY DEF ConfInv, MountsAs
      <3>2. /\ at(n)' = IF n = r.name THEN at(n) \cup {pos} ELSE at(n)
            /\ \A i \in at(n) : i \in Nat /\ i < pos
            /\ "entry" \in failed => "entry" \in failed'
            /\ \A i : MountAs(n, i)' = MountAs(n, i)
        BY <1>5, <1>6 DEF MapLines, MountAs
      <3> HIDE DEF at
      <3>3. CASE n \in DOMAIN mounttab
        <4>1. PICK i \in at(n) : (IsFirst(i, at(n)) \/ "entry" \in failed) /\ MountAs(n, i)
          BY <3>1, <3>3
        <4>2. i \in at(n)' /\ MountAs(n, i)'
          BY <3>2, <4>1
        <4>3. IsFirst(i, at(n)) => IsFirst(i, at(n)')
          BY <1>3, <3>2, <4>1 DEF IsFirst
        <4> QED BY <1>6, <3>2, <3>3, <4>1, <4>2, <4>3
      <3>4. CASE n \notin DOMAIN mounttab
        <4>1. n # r.name \/ "entry" \in failed'
          BY <1>6, <3>4 DEF Known
        <4> QED BY <1>6, <3>1, <3>2, <3>4, <4>1
      <3> QED BY <3>3, <3>4
    <2> QED BY <1>5, <1>6, <2>1, <2>3 DEF ConfInv
  <1>7. ASSUME ~NoMap(r), ~Known(r.name, mounttab), NEW s \in Names, new(s) PROVE ConfInv'
    <2> DEFINE list == VolList(r.words, s)
    <2>1. /\ r.name \in Names /\ r.words \in Seq(Word) /\ r.name \notin DOMAIN mounttab
      BY <1>5, <1>7 DEF Known
    <2>2. /\ list \in Seq([filer : Names, vol : Names]) /\ Len(list) = Len(r.words)
          /\ \A w \in DOMAIN r.words :
               /\ list[w].filer = r.words[w].filer
               /\ r.words[w].vol # NULL => list[w].vol = r.words[w].vol
      BY <2>1, VolListIs
    <2> HIDE DEF list
    <2>3. /\ DOMAIN mounttab' = DOMAIN mounttab \cup {r.name} /\ mounttab'[r.name] = list
          /\ \A n \in DOMAIN mounttab : mounttab'[n] = mounttab[n]
      BY <1>7, <2>1 DEF With, list
    <2>4. /\ DOMAIN mounttab' \subseteq Names
          /\ \A n \in DOMAIN mounttab' : mounttab'[n] \in Seq([filer : Names, vol : Names])
      BY <1>2, <2>1, <2>2, <2>3 DEF CTypeOK
    <2>5. CTypeOK'
      BY <1>2, <1>5, <1>7, <2>4 DEF CTypeOK
    <2>6. MountsAs(Seen("ExportNames"))'
      <3> SUFFICES ASSUME NEW n \in Names
                   PROVE  IF n \in DOMAIN mounttab'
                            THEN \E i \in at(n)' : (IsFirst(i, at(n)') \/ "entry" \in failed') /\ MountAs(n, i)'
                            ELSE at(n)' = {} \/ "entry" \in failed'
        BY DEF MountsAs
      <3>1. IF n \in DOMAIN mounttab
              THEN \E i \in at(n) : (IsFirst(i, at(n)) \/ "entry" \in failed) /\ MountAs(n, i)
              ELSE at(n) = {} \/ "entry" \in failed
        BY DEF ConfInv, MountsAs
      <3>2. at(n)' = IF n = r.name THEN at(n) \cup {pos} ELSE at(n)
        BY <1>5, <1>7
      <3> HIDE DEF at
      <3>3. CASE n = r.name
        <4> PICK i : i = pos
          OBVIOUS
        <4>1. MountAs(n, i)' /\ n \in DOMAIN mounttab' /\ i \in at(n)'
          BY <1>7, <2>2, <2>3, <3>2, <3>3 DEF MountAs
        <4>2. at(n)' = {i} \/ "entry" \in failed'
          BY <1>7, <2>1, <3>1, <3>2, <3>3
        <4>3. at(n)' = {i} => IsFirst(i, at(n)')
          BY <1>3 DEF IsFirst
        <4> QED BY <4>1, <4>2, <4>3
      <3>4. CASE n # r.name
        <4>1. at(n)' = at(n) /\ (n \in DOMAIN mounttab' <=> n \in DOMAIN mounttab)
          BY <2>3, <3>2, <3>4
        <4>2. n \in DOMAIN mounttab => mounttab'[n] = mounttab[n]
          BY <2>3
        <4>3. n \in DOMAIN mounttab => \A i : MountAs(n, i)' = MountAs(n, i)
          BY <1>7, <4>2 DEF MountAs
        <4> QED BY <1>7, <3>1, <4>1, <4>3
      <3> QED BY <3>3, <3>4
    <2> QED BY <1>5, <1>7, <2>5, <2>6 DEF ConfInv
  <1>8. failed \subseteq Faults
    BY <1>2 DEF CTypeOK
  <1>9. lost => goes /\ "entry" \in failed' /\ mounttab' = mounttab
    OBVIOUS
  <1> HIDE DEF off, goes, lost
  <1> QED BY <1>1, <1>4, <1>6, <1>7, <1>8, <1>9

LEMMA EndOfPassOK ==
  ASSUME ConfInv, EndOfPass
  PROVE  ConfInv'
  <1>1. CTypeOK /\ status = "reading" /\ pass \in 1 .. 5 /\ failed \subseteq Faults
    BY PassesAre DEF ConfInv, CTypeOK, EndOfPass, AtEnd
  <1>2. \A i \in SectionLines(Tag) : i < pos
    <2>1. CASE found
      <3>1. pos <= Len(file) => file[pos] = EndOf(Tag)
        BY <1>1, <2>1, FileTyped DEF EndOfPass, AtEnd
      <3>2. InSection(Tag)
        BY <2>1 DEF ConfInv, InPlace
      <3> QED BY <1>1, <3>1, <3>2, EndOfSection
    <2>2. CASE ~found
      <3>1. pos > Len(file)
        BY <2>2 DEF EndOfPass, AtEnd
      <3>2. \A i \in SectionLines(Tag) : i > pos /\ i \in 1 .. Len(file)
        BY <1>1, <2>2, BeforeSection, FileTyped DEF ConfInv, InPlace, SectionLines
      <3> QED BY <1>1, <3>1, <3>2, FileTyped
    <2> QED BY <2>1, <2>2
  <1>3. \A s \in Sections : PassOf(s) = pass => s = Tag
    BY <1>1, PassesAre, TagIs DEF Sections
  <1>4. CASE /\ status' \in {"off", "registered"} /\ failed' \subseteq Faults /\ failed \subseteq failed'
             /\ status' = "off" => failed' \cap {"hash_mk", "handler"} # {}
             /\ status' = "registered" => pass = 5
             /\ UNCHANGED <<file, pass, found, pos, line, tables>>
    <2>1. /\ CTypeOK' /\ InPlace' /\ LineRepeats' /\ TablesAs'
          /\ \A s : Seen(s)' = Seen(s) /\ SectionLines(s)' = SectionLines(s)
      BY <1>4, StayPut
    <2>2. AllSeen'
      <3> SUFFICES ASSUME pass = 5, NEW s \in Sections PROVE Seen(s)' = SectionLines(s)'
        BY <1>4 DEF AllSeen
      <3>1. PassOf(s) < pass \/ PassOf(s) = pass
        BY PassesAre DEF Sections
      <3>2. Seen(s) = SectionLines(s)
        BY <1>2, <1>3, <3>1 DEF Seen
      <3> QED BY <2>1, <3>2
    <2>3. OffOnlyForCause'
      BY <1>4 DEF OffOnlyForCause
    <2> QED BY <2>1, <2>2, <2>3 DEF ConfInv, TablesAs
  <1>5. CASE /\ pass # 5 /\ pass' = pass + 1 /\ found' = FALSE /\ pos' = 1 /\ failed' = failed
             /\ UNCHANGED <<status, file, line, tables>>
    <2>1. CTypeOK'
      <3>1. pos' \in 1 .. Len(file') + 1 /\ pass' \in DOMAIN Passes
        BY <1>1, <1>5, FileTyped, PassesAre
      <3> QED BY <1>1, <1>5, <3>1 DEF CTypeOK, tables
    <2>2. InPlace' /\ AllSeen' /\ LineRepeats' /\ OffOnlyForCause'
      BY <1>1, <1>5 DEF InPlace, AllSeen, OffOnlyForCause, ConfInv, LineRepeats, tables
    <2>3. ASSUME NEW s \in Sections PROVE Seen(s)' = Seen(s)
      <3>1. SectionLines(s)' = SectionLines(s) /\ \A i \in SectionLines(s) : i \in Nat /\ i >= 1
        BY <1>1, <1>5, FileTyped DEF SectionLines
      <3>2. PassOf(s) \in 1 .. 5
        BY PassesAre DEF Sections
      <3>3. CASE PassOf(s) <= pass
        <4>1. Seen(s) = SectionLines(s)
          BY <1>1, <1>2, <1>3, <3>2, <3>3 DEF Seen
        <4>2. Seen(s)' = SectionLines(s)'
          BY <1>1, <1>5, <3>2, <3>3 DEF Seen
        <4> QED BY <3>1, <4>1, <4>2
      <3>4. CASE PassOf(s) > pass
        <4>1. Seen(s) = {}
          BY <1>1, <3>2, <3>4 DEF Seen
        <4>2. \A i \in SectionLines(s)' : ~(i < 1)
          BY <3>1
        <4>3. Seen(s)' = {}
          BY <1>1, <1>5, <3>2, <3>4, <4>2 DEF Seen
        <4> QED BY <4>1, <4>3
      <3> QED BY <1>1, <3>2, <3>3, <3>4
    <2>4. TablesAs'
      BY <1>5, <2>3, TablesStay DEF ConfInv, TablesAs, tables
    <2> QED BY <2>1, <2>2, <2>4 DEF ConfInv, TablesAs
  <1>6. pass = 5 <=> Passes[pass] = "FilerPolicy"
    BY <1>1, PassesAre
  <1> QED BY <1>1, <1>4, <1>5, <1>6 DEF EndOfPass, Fails, Works, Rewind

LEMMA ConfNext == ConfInv /\ [Next]_vars => ConfInv'
  <1> SUFFICES ASSUME ConfInv, [Next]_vars PROVE ConfInv'
    OBVIOUS
  <1>1. CASE UNCHANGED vars
    <2>1. /\ UNCHANGED <<file, pass, found, pos, line, tables>> /\ status' = status /\ failed' = failed
      BY <1>1 DEF vars, tables
    <2>2. /\ CTypeOK' /\ InPlace' /\ LineRepeats' /\ TablesAs'
          /\ \A s : Seen(s)' = Seen(s) /\ SectionLines(s)' = SectionLines(s)
      BY <2>1, StayPut DEF ConfInv, CTypeOK
    <2>3. AllSeen' /\ OffOnlyForCause'
      BY <2>1, <2>2 DEF ConfInv, AllSeen, OffOnlyForCause
    <2> QED BY <2>2, <2>3 DEF ConfInv, TablesAs
  <1> QED BY <1>1, NoFileOK, SeekBeginOK, CommentOK, ParseParamsOK, CountRecordOK, ParseFilesysOK,
             ParsePoliciesOK, ParseFilerPoliciesOK, EndOfPassOK DEF Next

LEMMA ConfInvImplies == ConfInv => ConfAsWritten
  BY DEF ConfInv, AllSeen, ConfAsWritten, Sections

\* The reader's place in the file, the sections whose passes are over and the
\* tables agree at every step of read_conf(), for every file and every fault.
THEOREM ConfInductive == Spec => []ConfInv
  BY ConfInit, ConfNext, PTL DEF Spec

\* Once the plugin is registered, its parameters, storage maps and policies are
\* what ntapplugin.conf says, for every file, in whatever order its sections
\* are; and it turns itself off only for an ExportNames line that is no
\* storage map or a step that failed.
THEOREM ConfCorrect == Spec => []ConfAsWritten
  BY ConfInductive, ConfInvImplies, PTL
=============================================================================
