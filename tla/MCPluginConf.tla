---------------------------- MODULE MCPluginConf ----------------------------
(***************************************************************************)
(* PluginConf with all files made of one of a few bodies per section, in   *)
(* three orders, with a second ExportNames section or none, and files in   *)
(* which sections are missing; and files with a blank line in FilerPolicy. *)
(***************************************************************************)
EXTENDS PluginConf

Comm       == [kind |-> "comment"]
Blank      == [kind |-> "blank"]
Par(p, v)  == [kind |-> "Parameters", name |-> p, val |-> v]
W(f, v)    == [filer |-> f, vol |-> v]
Exp(n, ws) == [kind |-> "ExportNames", name |-> n, words |-> ws]
Pol(l, v)  == [kind |-> "PluginPolicy", limit |-> l, val |-> v]
Fpol(n, l, v) == [kind |-> "FilerPolicy", name |-> n, limit |-> l, val |-> v]

ParametersBodies ==
  { <<Comm, Par("Debug", "yes"), Par("XMLReread", "60"), Blank, Par("XMLReread", "30")>>,
    <<Blank, Par("XMLReread", "60"), Par(NULL, "no"), Blank, Par("DryRunMode", NULL),
      Par("Debug", "no")>> }
ExportNamesBodies ==
  { << >>,
    <<Exp("m1", <<W("f1", "v1"), W("f2", "v2")>>), Comm, Exp("m2", <<W("f2", "v2")>>)>>,
    <<Exp("m1", <<W("f1", "v1")>>), Exp("m1", <<W("f2", "v2")>>), Exp("m2", <<W("f1", NULL)>>)>>,
    <<Exp("m1", <<W("f1", "v1"), W("f2", NULL)>>), Blank, Exp("m2", <<W("f2", "v2")>>)>>,
    <<Comm, Exp("m2", << >>)>> }
PluginPolicyBodies ==
  { << >>,
    <<Pol("maxdiskbusy", 50), Blank, Pol("maxnedomain", 75), Pol(NULL, 10),
      Pol("minsize", NULL), Pol("maxdiskbusy", 0)>> }
FilerPolicyBodies ==
  { << >>,
    <<Fpol("f1", "maxdiskbusy", 50), Comm, Fpol("v1", "minsize", 1),
      Fpol("f1", "maxavgvollat", 10), Fpol("v1", NULL, 10), Fpol("f2", "mininodes", NULL),
      Fpol("f1", "maxdiskbusy", 20)>> }

\* A blank line among the lines about filers, of which the code makes anything.
BlankBodies ==
  { <<Fpol("v1", "minsize", 1), Fpol("f1", "maxdiskbusy", 50), Blank,
      Fpol("f1", "maxdiskbusy", 20)>> }

SectionText(s, body) == <<BeginOf(s)>> \o body \o <<EndOf(s)>>

FilesOf(parameters, exports, policies, filers) ==
  UNION { LET P == SectionText("Parameters", p)
              X == SectionText("ExportNames", x)
              G == SectionText("PluginPolicy", g)
              F == SectionText("FilerPolicy", q)
              Other == SectionText("ExportNames", <<Exp("m3", <<W("f1", "v1")>>)>>) IN
            { <<Comm>> \o X \o <<Blank>> \o G \o F \o P, P \o F \o G \o X,
              G \o X \o P \o Other \o F, F \o P }
          : p \in parameters, x \in exports, g \in policies, q \in filers }

MCFiles ==
       FilesOf(ParametersBodies, ExportNamesBodies, PluginPolicyBodies, FilerPolicyBodies)
  \cup FilesOf({<<Par("XMLReread", "60")>>}, {<<Exp("m1", <<W("f1", "v1")>>)>>},
              PluginPolicyBodies, BlankBodies)
-----------------------------------------------------------------------------
\* read_conf() comes to an end whatever is in the file and whatever sections it
\* lacks: the scheduler, which waits for sched_init(), starts.
ReadConfEnds == <>(status # "reading")
=============================================================================
