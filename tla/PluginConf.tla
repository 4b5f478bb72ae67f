----------------------------- MODULE PluginConf -----------------------------
(***************************************************************************)
(* The start of the scheduler plugin: sched_init() of libntap.c, and       *)
(* read_conf() of sysntap.c with the functions it parses ntapplugin.conf   *)
(* by (tools/conf.c and the parse_... functions), line by line.            *)
(*                                                                         *)
(* The file is read five times, once for every section and once more to    *)
(* count the storage maps before the hash tables are made, so that the     *)
(* sections may come in any order.  What comes out, mounttab, policy,      *)
(* fptab and prms, is what Thresholds, FilerLoad and Allocate take for     *)
(* given.                                                                  *)
(*                                                                         *)
(* Definitions called Mistaken... are not used: each is a plausible error  *)
(* in the definition below it, to show that the properties detect it.      *)
(***************************************************************************)
EXTENDS Naturals, Sequences, FiniteSetsExt

CONSTANTS
  Files,        \* the files the administrator may have written
  Names,        \* filer and volume names
  Values,       \* values of parameters other than "yes"
  Junk,         \* what atof() may make of a word that sscanf() has not written
  Faults,       \* the steps that may fail: "open", "hash_mk", "stormap",
                \* "entry", "filerpol", "handler"
  NULL          \* a word that is missing, an unset parameter
  
Sections   == {"Parameters", "ExportNames", "PluginPolicy", "FilerPolicy"}
Parameters == {"Debug", "Work_Dir", "Counter_Dir", "XMLReread", "DryRunMode"}
Limits     == {"maxdiskbusy", "maxnedomain", "maxavgvollat", "minsize", "mininodes"}

\* A line, by what sscanf() makes of it.  "comment" has its "#" in the first
\* column; blank lines and comments are lines of any section.  A storage map
\* has the name and the list of filer:volume words, empty if the line ends after
\* the name, with vol NULL for a word without ":".  The name of a parameter or a
\* limit is NULL when it is none of those known, and a value when it is missing.
Word == [filer : Names, vol : Names \cup {NULL}]
Line ==
       [kind : {"begin", "end"}, key : Sections]
  \cup [kind : {"comment", "blank"}]
  \cup [kind : {"Parameters"}, name : Parameters \cup {NULL},
        val : Values \cup {"yes", NULL}]
  \cup [kind : {"ExportNames"}, name : Names, words : Seq(Word)]
  \cup [kind : {"PluginPolicy"}, limit : Limits \cup {NULL}, val : Nat \cup {NULL}]
  \cup [kind : {"FilerPolicy"}, name : Names, limit : Limits \cup {NULL},
        val : Nat \cup {NULL}]

BeginOf(s) == [kind |-> "begin", key |-> s]
EndOf(s)   == [kind |-> "end", key |-> s]

\* Every section that begins is ended, and holds lines of its own kind.
WellFormed(f) ==
  \A b \in DOMAIN f : f[b].kind \notin {"end", "comment", "blank"} =>
    LET key == IF f[b].kind = "begin" THEN f[b].key ELSE f[b].kind IN
      \E e \in b + 1 .. Len(f) :
        /\ f[e] = EndOf(key)
        /\ \A i \in b + 1 .. e - 1 : f[i].kind \in {"comment", "blank", key}

ASSUME ConfAssumption ==
  /\ Files \subseteq Seq(Line) /\ \A f \in Files : WellFormed(f)
  /\ Junk \subseteq Nat
  /\ NULL \notin Names \cup Values \cup Parameters \cup Limits \cup {"yes"}

VARIABLES
  status,       \* "reading", "registered" (the handler is known to the
                \* scheduler) or "off" (sched_init() returned -1)
  file,         \* ntapplugin.conf
  pass,         \* the pass over the file, an index of Passes
  found,        \* inside the section of the pass
  pos,          \* the next line
  line,         \* wbuf and tmpbuf: the last parameter line's words
  prms, policy, mounttab, fptab,        \* what the plugin works with
  numfilesys,   \* storage maps counted by the second pass
  failed        \* history: the faults that happened

vars == <<status, file, pass, found, pos, line, prms, policy, mounttab, fptab,
          numfilesys, failed>>
tables == <<prms, policy, mounttab, fptab, numfilesys>>

Passes == <<"Parameters", "Count", "ExportNames", "PluginPolicy", "FilerPolicy">>
Tag == IF Passes[pass] = "Count" THEN "ExportNames" ELSE Passes[pass]

NoPolicy == [l \in Limits |-> 0]

\* initparams(), and static memory: Debug and DryRunMode are off, the work
\* directory is /tmp, the other two parameters are empty or 0.
initparams == [p \in Parameters |-> NULL]

Init ==
  /\ file \in Files
  /\ status = "reading" /\ pass = 1 /\ found = FALSE /\ pos = 1
  /\ line = [name |-> NULL, val |-> NULL]
  /\ prms = initparams /\ policy = NoPolicy
  /\ mounttab = << >> /\ fptab = << >> /\ numfilesys = 0
  /\ failed = {}

\* A step that may fail does, or does not.
Fails(fault) == fault \in Faults /\ failed' = failed \cup {fault}
Works == failed' = failed

GoesOn == UNCHANGED <<status, file, pass, found, line>> /\ pos' = pos + 1

\* get_begin_record(): lines are skipped up to the begin of the section.  Its
\* words are automatic, but in a frame that is the same at every call, and that
\* get_record_until_end() has too: those of a blank line are taken to be those of
\* the line read before, which is no begin of this section.
SeekBegin ==
  /\ status = "reading" /\ ~found /\ pos <= Len(file)
  /\ found' = (file[pos] = BeginOf(Tag))
  /\ pos' = pos + 1
  /\ UNCHANGED <<status, file, pass, line, tables, failed>>

\* The loops of read_conf(): a record of the section that is no comment.  The
\* words of a blank line are the begin's or the last record's, so it counts as
\* a record.
Record(p) ==
  /\ status = "reading" /\ found /\ pos <= Len(file) /\ Passes[pass] = p
  /\ file[pos].kind \in {Tag, "blank"}

\* A comment.  (The end of another section is skipped too, by
\* get_record_until_end(); a well-formed file has none here.)
Comment ==
  /\ status = "reading" /\ found /\ pos <= Len(file)
  /\ file[pos].kind = "comment"
  /\ GoesOn /\ Works /\ UNCHANGED tables

\* parse_params().  A word that is missing keeps its value from the line
\* before, so a blank line says the same again.  Debug can only be set.
ParseParams ==
  /\ Record("Parameters")
  /\ line' = IF file[pos].kind = "blank" THEN line
             ELSE [name |-> file[pos].name,
                   val  |-> IF file[pos].val = NULL THEN line.val ELSE file[pos].val]
  /\ prms' = IF line'.name = NULL \/ (line'.name = "Debug" /\ line'.val # "yes")
               THEN prms ELSE [prms EXCEPT ![line'.name] = line'.val]
  /\ pos' = pos + 1 /\ Works
  /\ UNCHANGED <<status, file, pass, found, policy, mounttab, fptab, numfilesys>>

\* The count of storage maps, blank lines included.
CountRecord ==
  /\ Record("Count")
  /\ numfilesys' = numfilesys + 1
  /\ GoesOn /\ Works /\ UNCHANGED <<prms, policy, mounttab, fptab>>

\* The list of a storage map: a word without ":" leaves fst.fs as it was, which
\* is the volume of the word before; s is what fst.fs held at the entry.
VolList(words, s) ==
  [i \in DOMAIN words |->
     LET set == {k \in 1 .. i : words[k].vol # NULL} IN
       [filer |-> words[i].filer,
        vol   |-> IF set = {} THEN s ELSE words[Max(set)].vol]]

\* hash_install() of a name that is not in the table.
With(tab, name, data) ==
  [n \in DOMAIN tab \cup {name} |-> IF n = name THEN data ELSE tab[n]]

\* hash_lookup(): the name is in the table already.
Known(name, tab) == name \in DOMAIN tab

\* parse_filesys() cannot make a storage map of the line.
MistakenNoMap(l) ==         \* a word without ":" is taken for an error
  l.kind = "blank" \/ l.words = << >> \/ \E i \in DOMAIN l.words : l.words[i].vol = NULL
NoMap(l) == l.kind = "blank" \/ l.words = << >>

\* parse_filesys(): an error stops read_conf() and turns the plugin off.  A
\* line of fewer than two words, as a blank line, is one, and so is an
\* allocation that fails, but that of the table's entry, which nobody notices:
\* the line is lost.  The second line of a name is ignored.
ParseFilesys ==
  /\ Record("ExportNames")
  /\ IF NoMap(file[pos])
       THEN status' = "off" /\ Works /\ UNCHANGED <<file, pass, found, pos, line, tables>>
     ELSE IF Known(file[pos].name, mounttab)
       THEN GoesOn /\ Works /\ UNCHANGED tables
     ELSE \/ /\ status' = "off" /\ Fails("stormap")
             /\ UNCHANGED <<file, pass, found, pos, line, tables>>
          \/ \E s \in Names :
               /\ mounttab' = With(mounttab, file[pos].name, VolList(file[pos].words, s))
               /\ GoesOn /\ Works /\ UNCHANGED <<prms, policy, fptab, numfilesys>>
          \/ GoesOn /\ Fails("entry") /\ UNCHANGED tables

\* The words of the policy parsers are automatic variables: one that sscanf()
\* does not write holds whatever was on the stack.
ValuesOf(val) == IF val = NULL THEN Junk ELSE {val}

\* A limit set to a value, and a keyword that is no limit, which sets none.
SetLimit(pol, limit, val) == IF limit = NULL THEN pol ELSE [pol EXCEPT ![limit] = val]

\* parse_policies(): the last line for a limit is the one that counts.  Of a
\* blank line, sscanf() makes a keyword, the end of the line, that is no limit.
ParsePolicies ==
  /\ Record("PluginPolicy")
  /\ IF file[pos].kind = "blank" THEN UNCHANGED policy
     ELSE \E v \in ValuesOf(file[pos].val) : policy' = SetLimit(policy, file[pos].limit, v)
  /\ GoesOn /\ Works /\ UNCHANGED <<prms, mounttab, fptab, numfilesys>>

\* The policy of the table, or the new one of calloc().
PolicyOf(name, tab) == IF Known(name, tab) THEN tab[name] ELSE NoPolicy

\* The words parse_filerpolicies() works with.  Of a blank line sscanf() makes
\* none: name, keyword and value are all what was on the stack, NULL for a name
\* that no filer or volume has.
FilerWords(l) ==
  IF l.kind = "blank" THEN [name : Names \cup {NULL}, limit : Limits \cup {NULL}, val : Junk]
  ELSE [name : {l.name}, limit : {l.limit}, val : ValuesOf(l.val)]

\* parse_filerpolicies(): as parse_policies(), but for a filer or volume, which
\* gets its entry even from a keyword that is no limit.  Its result is not looked
\* at: without memory for the entry the line is lost.  (An entry under a name
\* that nothing has is never looked up, and left out.)
ParseFilerPolicies ==
  /\ Record("FilerPolicy")
  /\ GoesOn
  /\ UNCHANGED <<prms, policy, mounttab, numfilesys>>
  /\ \E r \in FilerWords(file[pos]) :
       \/ /\ fptab' = IF r.name = NULL THEN fptab
                      ELSE With(fptab, r.name, SetLimit(PolicyOf(r.name, fptab), r.limit, r.val))
          /\ Works
       \/ ~Known(r.name, fptab) /\ Fails("filerpol") /\ UNCHANGED fptab

\* The section, or the file, is at its end.
MistakenAtEnd ==            \* the end of the file forgotten
  /\ status = "reading" /\ pos <= Len(file)
  /\ found /\ file[pos] = EndOf(Tag)
AtEnd ==
  /\ status = "reading"
  /\ pos > Len(file) \/ (found /\ file[pos] = EndOf(Tag))

\* rewind(), but for the second pass after which the hash tables are made.
MistakenRewind == pos
Rewind == 1

EndOfPass ==
  /\ AtEnd
  /\ IF Passes[pass] = "FilerPolicy"
       THEN \* the return to sched_init()
            /\ \/ status' = "off" /\ Fails("handler")
               \/ status' = "registered" /\ Works
            /\ UNCHANGED <<file, pass, found, pos, line, tables>>
     ELSE \/ /\ pass' = pass + 1 /\ found' = FALSE /\ pos' = Rewind
             /\ Works /\ UNCHANGED <<status, file, line, tables>>
          \/ /\ Passes[pass] = "Count" /\ Fails("hash_mk")        \* init()
             /\ status' = "off"
             /\ UNCHANGED <<file, pass, found, pos, line, tables>>

\* fopen() fails.
NoFile ==
  /\ status = "reading" /\ pass = 1 /\ pos = 1 /\ ~found
  /\ status' = "off" /\ Fails("open")
  /\ UNCHANGED <<file, pass, found, pos, line, tables>>

Next ==
  \/ NoFile \/ SeekBegin \/ Comment
  \/ ParseParams \/ CountRecord \/ ParseFilesys \/ ParsePolicies \/ ParseFilerPolicies
  \/ EndOfPass

Spec == Init /\ [][Next]_vars
FairSpec == Spec /\ WF_vars(Next)
-----------------------------------------------------------------------------
CTypeOK ==
  /\ status \in {"reading", "registered", "off"}
  /\ file \in Files /\ pass \in DOMAIN Passes /\ found \in BOOLEAN
  /\ pos \in 1 .. Len(file) + 1
  /\ line \in [name : Parameters \cup {NULL}, val : Values \cup {"yes", NULL}]
  /\ prms \in [Parameters -> Values \cup {"yes", NULL}]
  /\ policy \in [Limits -> Nat]
  /\ DOMAIN mounttab \subseteq Names
  /\ \A n \in DOMAIN mounttab : mounttab[n] \in Seq([filer : Names, vol : Names])
  /\ DOMAIN fptab \subseteq Names /\ \A n \in DOMAIN fptab : fptab[n] \in [Limits -> Nat]
  /\ numfilesys \in Nat /\ failed \subseteq Faults

\* The lines of the first section of a kind, comments and all, wherever in the
\* file it is.
SectionLines(s) ==
  {i \in DOMAIN file : \E b \in 1 .. i - 1 :
     /\ file[b] = BeginOf(s) /\ \A k \in 1 .. b - 1 : file[k] # BeginOf(s)
     /\ \A k \in b .. i : file[k] # EndOf(s)}

\* Those of the lines that are about a parameter, a limit, ...
ParamLines(lines, p)    == {i \in lines : file[i].kind = "Parameters" /\ file[i].name = p}
MapLines(lines, n)      == {i \in lines : file[i].kind = "ExportNames" /\ file[i].name = n}
PolicyLines(lines, l)   == {i \in lines : file[i].kind = "PluginPolicy" /\ file[i].limit = l}
FilerLines(lines, n, l) ==
  {i \in lines : file[i].kind = "FilerPolicy" /\ file[i].name = n /\ file[i].limit = l}

IsLast(i, at)  == \A k \in at : k <= i
IsFirst(i, at) == \A k \in at : i <= k

\* The tables say what the lines say: the last line for a parameter or a limit
\* and the first one for a storage map, with every volume in the list, and
\* nothing that no line says.  Lines and volume words that are left incomplete are
\* not judged, nor is what a blank line of the FilerPolicy section, read as it may
\* be, puts in the place of the lines before it; and a limit is missing from
\* fptab, or the first line for a storage map from mounttab, only if there was no
\* memory for an entry.
ParamsAs(lines) ==
  /\ \A p \in Parameters \ {"Debug"} :
       LET at == ParamLines(lines, p) IN
         /\ at = {} => prms[p] = NULL
         /\ \A i \in at : IsLast(i, at) /\ file[i].val # NULL => prms[p] = file[i].val
  /\ (\E i \in ParamLines(lines, "Debug") : file[i].val = "yes") => prms["Debug"] = "yes"

MountAs(n, i) ==
  /\ Len(mounttab[n]) = Len(file[i].words)
  /\ \A w \in DOMAIN file[i].words :
       /\ mounttab[n][w].filer = file[i].words[w].filer
       /\ file[i].words[w].vol # NULL => mounttab[n][w].vol = file[i].words[w].vol

MountsAs(lines) ==
  \A n \in Names :
    LET at == MapLines(lines, n) IN
      IF n \in DOMAIN mounttab
        THEN \E i \in at : (IsFirst(i, at) \/ "entry" \in failed) /\ MountAs(n, i)
        ELSE at = {} \/ "entry" \in failed

PolicyAs(lines) ==
  \A l \in Limits :
    LET at == PolicyLines(lines, l) IN
      /\ at = {} => policy[l] = 0
      /\ \A i \in at : IsLast(i, at) /\ file[i].val # NULL => policy[l] = file[i].val

NoBlank(lines) == \A i \in lines : file[i].kind # "blank"

FilerPolicyAs(lines) ==
  \A n \in Names, l \in Limits :
    LET at == FilerLines(lines, n, l)
        used == PolicyOf(n, fptab)[l] IN
      /\ at = {} /\ NoBlank(lines) => used = 0
      /\ \A i \in at : IsLast(i, at) /\ file[i].val # NULL /\ NoBlank({k \in lines : k > i}) =>
           used = file[i].val \/ (used = 0 /\ "filerpol" \in failed)

\* The administrator's file, read as a document, is what the scheduler works
\* with once the plugin is registered, whatever the order of the sections
\* (read_conf() rewinds the file between its passes) and wherever the comments
\* are.
ConfAsWritten ==
  status = "registered" =>
    /\ ParamsAs(SectionLines("Parameters"))
    /\ MountsAs(SectionLines("ExportNames"))
    /\ PolicyAs(SectionLines("PluginPolicy"))
    /\ FilerPolicyAs(SectionLines("FilerPolicy"))

\* The plugin turns itself off only for a line of the ExportNames section
\* without a storage map (blank lines are), or because a step it cannot do
\* without failed; nothing in the other sections can turn it off.
OffOnlyForCause ==
  status = "off" =>
    \/ failed \cap {"open", "hash_mk", "stormap", "handler"} # {}
    \/ \E i \in SectionLines("ExportNames") :
         file[i].kind = "blank" \/ (file[i].kind = "ExportNames" /\ file[i].words = << >>)

\* Why: the place in the file, before the section of the pass or inside it ...
InSection(s) ==
  \E b \in 1 .. pos - 1 :
    /\ file[b] = BeginOf(s) /\ \A k \in 1 .. b - 1 : file[k] # BeginOf(s)
    /\ \A k \in b .. pos - 1 : file[k] # EndOf(s)
InPlace == IF found THEN InSection(Tag) ELSE \A k \in 1 .. pos - 1 : file[k] # BeginOf(Tag)

\* ... the lines that its pass has dealt with, all of them in the end ...
PassOf(s) == CHOOSE p \in DOMAIN Passes : Passes[p] = s
Seen(s) == {i \in SectionLines(s) : PassOf(s) < pass \/ (PassOf(s) = pass /\ i < pos)}
AllSeen == status = "registered" => \A s \in Sections : Seen(s) = SectionLines(s)

\* ... and what the tables say of these, the parameter a blank line repeats
\* included.
LineRepeats ==
  line.name = NULL \/ line.name = "Debug" \/ prms[line.name] = line.val

ConfInv ==
  /\ CTypeOK /\ InPlace /\ AllSeen /\ LineRepeats
  /\ ParamsAs(Seen("Parameters")) /\ MountsAs(Seen("ExportNames"))
  /\ PolicyAs(Seen("PluginPolicy")) /\ FilerPolicyAs(Seen("FilerPolicy"))
  /\ OffOnlyForCause
=============================================================================
