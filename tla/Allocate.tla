------------------------------ MODULE Allocate ------------------------------
(***************************************************************************)
(* The handler of the scheduler plugin, allocate() of libntap.c, on top of *)
(* FilerLoad: which jobs it looks at, how it walks the storage maps a job  *)
(* names, and what it decides.                                             *)
(*                                                                         *)
(* The scheduler (mbschd, external) calls allocate() for one job at a time *)
(* in every scheduling session as long as the job waits.  It starts a job  *)
(* whose decision is DISPATCH or NONE (the plugin does not object) and     *)
(* keeps one whose decision is PENDJOB.                                    *)
(*                                                                         *)
(* Definitions called Mistaken... are not used: each is a plausible error  *)
(* in the definition below it, to show that the properties detect it.      *)
(***************************************************************************)
EXTENDS FilerLoad

CONSTANTS
  Jobs,         \* job ids
  Request,      \* job -> what it asks for, see RequestType
  DryRunMode    \* prms.dryrun

\* A job comes with the scheduler's own decision on it, and possibly with an
\* external resource requirement: msg[1] of "-extsched".  Of that string two
\* things matter: whether "-n" occurs anywhere in it, and the space-separated
\* tokens between "[" and "]" after "filer", NULL when getmount() finds none.
RequestType ==
  [type : {"DISPATCH", "OTHER"}, extsched : BOOLEAN, dashn : BOOLEAN,
   mounts : Seq(FsTags) \cup {NULL}]

Decisions == {"DISPATCH", "NONE", "PENDJOB"}

ASSUME RequestAssumption ==
  /\ Request \in [Jobs -> RequestType]
  /\ DryRunMode \in BOOLEAN
  /\ NULL \notin Jobs \cup Decisions

VARIABLES
  waiting,      \* jobs the scheduler has not started
  job,          \* the job allocate() is called for, or NULL
  mounts,       \* the tokens it has not taken yet
  answers,      \* history: the results of filer_load_ok() in this call
  decision      \* what it returns, or NULL

schedVars == <<waiting, job, mounts, answers, decision>>
avars == <<vars, schedVars>>

AInit ==
  /\ Init
  /\ waiting = Jobs
  /\ job = NULL /\ mounts = << >> /\ answers = << >> /\ decision = NULL

\* The call is a dry run: nothing it finds may influence the job.
DryRun == Request[job].dashn \/ DryRunMode

\* Entry, down to the first token.  Jobs the scheduler does not mean to start,
\* jobs without a requirement or without storage maps are none of the
\* plugin's business, and nothing can be said without the counter directory.
Begin(j) ==
  /\ job = NULL /\ pc = "idle"
  /\ j \in waiting
  /\ job' = j /\ answers' = << >>
  /\ LET r == Request[j] IN
       IF r.type # "DISPATCH" \/ ~r.extsched \/ r.mounts = NULL
         THEN mounts' = << >> /\ decision' = "NONE"
         ELSE \/ mounts' = r.mounts /\ UNCHANGED decision
              \/ mounts' = << >> /\ decision' = "NONE"      \* check_dirctr() fails
  /\ UNCHANGED <<vars, waiting>>

\* The loop's condition: take a token and ask for its load.
NextMount ==
  /\ job # NULL /\ decision = NULL /\ mounts # << >>
  /\ Call(Head(mounts))
  /\ mounts' = Tail(mounts)
  /\ UNCHANGED <<waiting, job, answers, decision>>

\* The switch in the loop's body, NULL for going on to the next token.
MistakenVerdictOf(answer) ==      \* a dry run forgotten
  CASE answer = -1 -> "NONE" [] answer = 1 -> "PENDJOB" [] answer = 0 -> NULL
MistakenUnknownOf(answer) ==      \* the return for unknown mounts forgotten
  IF answer = 1 THEN (IF DryRun THEN "NONE" ELSE "PENDJOB") ELSE NULL
VerdictOf(answer) ==
  CASE answer = -1 -> "NONE"
    [] answer = 1  -> IF DryRun THEN "NONE" ELSE "PENDJOB"
    [] answer = 0  -> NULL

\* The loop's body: the result of filer_load_ok().
TakeAnswer ==
  /\ Done
  /\ answers' = Append(answers, cc)
  /\ decision' = VerdictOf(cc)
  /\ UNCHANGED <<waiting, job, mounts>>

\* All tokens were fine.
NoMoreMounts ==
  /\ job # NULL /\ decision = NULL /\ pc = "idle" /\ mounts = << >>
  /\ decision' = IF DryRun THEN "NONE" ELSE "DISPATCH"
  /\ UNCHANGED <<vars, waiting, job, mounts, answers>>

\* The call is over.
MistakenLeave == job' = NULL /\ mounts' = << >> /\ UNCHANGED <<answers, decision>>
Leave == job' = NULL /\ mounts' = << >> /\ answers' = << >> /\ decision' = NULL

\* The scheduler takes the decision.  A job it did not mean to start anyway
\* goes on waiting.
Decide ==
  /\ decision # NULL
  /\ waiting' = IF decision = "PENDJOB" \/ Request[job].type # "DISPATCH"
                  THEN waiting ELSE waiting \ {job}
  /\ Leave
  /\ UNCHANGED vars

Plugin == NextMount \/ TakeAnswer \/ NoMoreMounts \/ Decide \/ (Step /\ UNCHANGED schedVars)

ANext ==
  \/ \E j \in Jobs : Begin(j)
  \/ Plugin
  \/ Tick /\ UNCHANGED schedVars
  \/ Monitor /\ UNCHANGED schedVars

ASpec == AInit /\ [][ANext]_avars

\* The scheduler runs sessions for ever, and each session reaches every
\* waiting job; a call that began is carried through; the clock runs.
AFairSpec ==
  /\ ASpec
  /\ WF_avars(Plugin)
  /\ \A j \in Jobs : SF_avars(Begin(j))
  /\ WF_avars(Tick /\ UNCHANGED schedVars)

ATypeOK ==
  /\ TypeOK
  /\ waiting \subseteq Jobs
  /\ job \in Jobs \cup {NULL}
  /\ mounts \in Seq(FsTags)
  /\ answers \in Seq({-1, 0, 1})
  /\ decision \in Decisions \cup {NULL}
  /\ job = NULL => decision = NULL
-----------------------------------------------------------------------------
(***************************************************************************)
(* Properties.                                                             *)
(***************************************************************************)
\* In a dry run the plugin never touches a job: it returns neither DISPATCH
\* nor PENDJOB, wherever in the loop the run ends (libntap.c, allocate()).
DryRunNeverActs == decision # NULL /\ DryRun => decision = "NONE"

\* DISPATCH stands for a complete inspection: one answer per storage map the
\* job names, each of them "within the thresholds"; PENDJOB for an inspection
\* that stopped at the first map over them, with none unknown before it.
DecisionJustified ==
  /\ decision = "DISPATCH" =>
       /\ Len(answers) = Len(Request[job].mounts)
       /\ \A i \in DOMAIN answers : answers[i] = 0
  /\ decision = "PENDJOB" =>
       /\ answers # << >> /\ answers[Len(answers)] = 1
       /\ \A i \in 1 .. Len(answers) - 1 : answers[i] = 0

\* Why: what allocate() knows of the tokens between its steps.  While the loop
\* runs it has taken one token per answer, and one more when filer_load_ok() is
\* at work; it got there because the job is the plugin's business, and goes on
\* because every answer was 0.
Inspecting(taken) ==
  /\ job # NULL /\ decision = NULL
  /\ Request[job].mounts # NULL
  /\ Len(answers) + Len(mounts) + taken = Len(Request[job].mounts)
  /\ \A i \in DOMAIN answers : answers[i] = 0

AInv ==
  /\ ATypeOK
  /\ pc # "idle" => Inspecting(1)
  /\ pc = "idle" /\ job # NULL /\ decision = NULL => Inspecting(0)
  /\ decision # NULL => pc = "idle"
  /\ DryRunNeverActs /\ DecisionJustified
=============================================================================
