--------------------------- MODULE AllocateProofs ---------------------------
(***************************************************************************)
(* Theorems about Allocate for every set of jobs, requests, storage maps   *)
(* and filers: allocate() uses filer_load_ok() as FilerLoad lets it, and   *)
(* its decisions rest on the inspections they should.                      *)
(***************************************************************************)
EXTENDS Allocate, FilerLoadProofs

\* A turn of filer_load_ok() neither begins nor ends a call.
LEMMA StepInCall ==
  ASSUME TypeOK, Step
  PROVE  pc # "idle" /\ pc' # "idle"
  <1>1. ExpireNext => pc # "idle" /\ pc' # "idle"
    BY DEF ExpireNext, Undefined
  <1>2. ExpireDone \/ CheckCached \/ CheckDone \/ EndOfFile \/ ParseError
          => pc # "idle" /\ pc' # "idle"
    BY DEF ExpireDone, CheckCached, CheckDone, EndOfFile, ParseError, Return
  <1>3. OpenDocument => pc # "idle" /\ pc' # "idle"
    BY DEF OpenDocument, Return
  <1>4. Compare => pc # "idle" /\ pc' # "idle"
    BY DEF Compare, Undefined, Return
  <1>5. ASSUME ParseLine PROVE pc # "idle" /\ pc' # "idle"
    <2>1. pc = "parse"
      BY <1>5 DEF ParseLine
    <2>2. PICK el, text : ProcessElement(el, text)
      BY <1>5 DEF ParseLine
    <2>3. pc' = pc \/ pc' = "return" \/ pc' = "undefined"
      BY <2>2 DEF ProcessElement, NewFiler, DomainValue, NewVolume, AggrDiskBusy,
                  VolumeCounter, InstallFiler, InstallVolume, NoElement, Return, Undefined
    <2> QED BY <2>1, <2>3
  <1> QED BY <1>1, <1>2, <1>3, <1>4, <1>5 DEF Step

\* Outside of the calls the plugin makes nothing moves pc.
LEMMA EnvironmentKeepsPc ==
  ASSUME Tick \/ Monitor
  PROVE  pc' = pc
  <1>1. Tick => pc' = pc
    BY DEF Tick, callVars
  <1>2. ASSUME NEW f \in Filers,
               Publish(f) \/ OpenForWrite(f) \/ WriteLines(f) \/ WriteFails(f)
        PROVE  pc' = pc
    BY <1>2 DEF Publish, OpenForWrite, WriteLines, WriteFails, callVars
  <1> QED BY <1>1, <1>2 DEF Monitor

\* The tokens of a job are storage maps.
LEMMA RequestTyped ==
  ASSUME NEW j \in Jobs
  PROVE  /\ Request[j].mounts \in Seq(FsTags) \cup {NULL}
         /\ Request[j].dashn \in BOOLEAN
  BY RequestAssumption DEF RequestType

\* Every step of the scheduler and the plugin is one of filer_load_ok()'s, or
\* leaves its state alone.
LEMMA StepRefines ==
  ASSUME ATypeOK, [ANext]_avars
  PROVE  [Next]_vars
  <1>1. ASSUME NEW j \in Jobs, Begin(j) PROVE [Next]_vars
    BY <1>1 DEF Begin
  <1>2. CASE NextMount
    <2>1. Head(mounts) \in FsTags
      BY <1>2 DEF NextMount, ATypeOK
    <2> QED BY <1>2, <2>1 DEF NextMount, Next
  <1>3. CASE TakeAnswer
    BY <1>3 DEF TakeAnswer, Next
  <1>4. CASE NoMoreMounts \/ Decide
    BY <1>4 DEF NoMoreMounts, Decide
  <1>5. CASE Step \/ Tick \/ Monitor
    BY <1>5 DEF Next
  <1>6. CASE UNCHANGED avars
    BY <1>6 DEF avars
  <1> QED BY <1>1, <1>2, <1>3, <1>4, <1>5, <1>6 DEF ANext, Plugin

LEMMA NoDecision == NULL \notin {"DISPATCH", "NONE", "PENDJOB"}
  BY RequestAssumption DEF Decisions

LEMMA AInvInit == AInit => AInv
  <1> SUFFICES ASSUME AInit PROVE AInv
    OBVIOUS
  <1>1. TypeOK
    BY TypeInit DEF AInit
  <1>2. ATypeOK
    BY <1>1 DEF AInit, ATypeOK
  <1>3. pc = "idle"
    BY DEF AInit, Init
  <1>4. DryRunNeverActs /\ DecisionJustified
    BY NoDecision DEF AInit, DryRunNeverActs, DecisionJustified
  <1> QED BY <1>2, <1>3, <1>4 DEF AInit, AInv

\* A step of filer_load_ok(), the clock or the monitor, between which allocate()
\* does nothing.
LEMMA AInvElsewhere ==
  ASSUME AInv, TypeOK', UNCHANGED schedVars, pc' = pc \/ (pc # "idle" /\ pc' # "idle")
  PROVE  AInv'
  <1>1. ATypeOK'
    BY DEF AInv, ATypeOK, schedVars
  <1>2. (DryRunNeverActs /\ DecisionJustified)'
    BY DEF AInv, DryRunNeverActs, DecisionJustified, DryRun, schedVars
  <1>3. /\ (pc # "idle" => Inspecting(1))'
        /\ (pc = "idle" /\ job # NULL /\ decision = NULL => Inspecting(0))'
        /\ (decision # NULL => pc = "idle")'
    BY DEF AInv, Inspecting, schedVars
  <1> QED BY <1>1, <1>2, <1>3 DEF AInv

LEMMA AInvBegin ==
  ASSUME AInv, TypeOK', NEW j \in Jobs, Begin(j)
  PROVE  AInv'
  <1>1. pc = "idle" /\ pc' = "idle" /\ job' = j /\ j # NULL /\ answers' = << >> /\ decision = NULL
        /\ waiting' = waiting
    BY RequestAssumption DEF Begin, AInv, ATypeOK, vars, callVars
  <1>2. \/ decision' = "NONE" /\ mounts' = << >>
        \/ decision' = NULL /\ mounts' = Request[j].mounts /\ Request[j].mounts # NULL
    BY <1>1 DEF Begin
  <1>3. ATypeOK'
    <2>1. << >> \in Seq(FsTags)
      OBVIOUS
    <2>2. Request[j].mounts # NULL => Request[j].mounts \in Seq(FsTags)
      BY RequestTyped
    <2>3. mounts' \in Seq(FsTags)
      BY <1>2, <2>1, <2>2
    <2>4. answers' \in Seq({-1, 0, 1}) /\ decision' \in Decisions \cup {NULL}
      BY <1>1, <1>2 DEF Decisions
    <2> QED BY <1>1, <2>3, <2>4 DEF AInv, ATypeOK
  <1>4. decision' = NULL => Inspecting(0)'
    <2> SUFFICES ASSUME decision' = NULL PROVE Inspecting(0)'
      OBVIOUS
    <2>1. mounts' = Request[j].mounts /\ Request[j].mounts # NULL /\ mounts' \in Seq(FsTags)
      BY <1>2, RequestTyped, NoDecision
    <2>2. Len(answers') = 0 /\ DOMAIN answers' = {} /\ Len(mounts') \in Nat
      BY <1>1, <2>1
    <2> QED BY <1>1, <2>1, <2>2 DEF Inspecting
  <1>5. (DryRunNeverActs /\ DecisionJustified)'
    BY <1>1, <1>2, NoDecision DEF DryRunNeverActs, DecisionJustified
  <1> QED BY <1>1, <1>3, <1>4, <1>5 DEF AInv

LEMMA AInvNextMount ==
  ASSUME AInv, TypeOK', NextMount
  PROVE  AInv'
  <1>1. /\ pc = "idle" /\ pc' # "idle" /\ mounts # << >> /\ mounts' = Tail(mounts)
        /\ job' = job /\ answers' = answers /\ decision' = decision /\ waiting' = waiting
        /\ decision = NULL /\ job # NULL
    BY DEF NextMount, Call, Return
  <1>2. mounts \in Seq(FsTags) /\ answers \in Seq({-1, 0, 1})
    BY DEF AInv, ATypeOK
  <1>3. mounts' \in Seq(FsTags) /\ Len(mounts') = Len(mounts) - 1
    BY <1>1, <1>2
  <1>4. ATypeOK'
    BY <1>1, <1>3 DEF AInv, ATypeOK
  <1>5. Inspecting(0)
    BY <1>1 DEF AInv
  <1>6. Inspecting(1)'
    BY <1>1, <1>2, <1>3, <1>5 DEF Inspecting
  <1>7. (DryRunNeverActs /\ DecisionJustified)'
    BY <1>1, NoDecision DEF DryRunNeverActs, DecisionJustified
  <1> QED BY <1>1, <1>4, <1>6, <1>7 DEF AInv

\* What the switch makes of an answer.
LEMMA VerdictTyped ==
  ASSUME NEW answer \in {-1, 0, 1}
  PROVE  /\ answer = -1 => VerdictOf(answer) = "NONE"
         /\ answer = 0 => VerdictOf(answer) = NULL
         /\ answer = 1 => VerdictOf(answer) = IF DryRun THEN "NONE" ELSE "PENDJOB"
  BY DEF VerdictOf

LEMMA AInvTakeAnswer ==
  ASSUME AInv, TypeOK', TakeAnswer
  PROVE  AInv'
  <1> DEFINE all == Append(answers, cc)
  <1>1. /\ pc = "return" /\ pc' = "idle" /\ answers' = all /\ decision' = VerdictOf(cc)
        /\ job' = job /\ mounts' = mounts /\ waiting' = waiting
    BY DEF TakeAnswer, Done
  <1>2. Inspecting(1)
    BY <1>1 DEF AInv
  <1>3. cc \in {-1, 0, 1} /\ answers \in Seq({-1, 0, 1}) /\ mounts \in Seq(FsTags)
    BY DEF AInv, ATypeOK, TypeOK, CallOK
  <1>4. /\ all \in Seq({-1, 0, 1}) /\ all # << >>
        /\ Len(all) = Len(answers) + 1 /\ all[Len(all)] = cc
        /\ DOMAIN all = 1 .. Len(answers) + 1
        /\ \A i \in DOMAIN answers : all[i] = answers[i]
        /\ DOMAIN answers = 1 .. Len(answers) /\ Len(answers) \in Nat
    BY <1>3
  <1> HIDE DEF all
  <1>5. \A i \in 1 .. Len(all) - 1 : all[i] = 0
    BY <1>2, <1>4 DEF Inspecting
  <1>6. decision' \in Decisions \cup {NULL} /\ job' # NULL
    BY <1>1, <1>2, <1>3, VerdictTyped DEF Decisions, Inspecting
  <1>7. ATypeOK'
    BY <1>1, <1>4, <1>6 DEF AInv, ATypeOK
  <1>8. decision' = NULL => Inspecting(0)'
    <2> SUFFICES ASSUME decision' = NULL PROVE Inspecting(0)'
      OBVIOUS
    <2>1. cc = 0
      BY <1>1, <1>3, VerdictTyped, NoDecision
    <2>2. \A i \in DOMAIN all : all[i] = 0
      BY <2>1, <1>4, <1>5
    <2>3. Len(all) + Len(mounts) + 0 = Len(Request[job].mounts)
      BY <1>2, <1>3, <1>4 DEF Inspecting
    <2> QED BY <1>1, <1>2, <2>2, <2>3 DEF Inspecting
  <1>9. DryRunNeverActs'
    BY <1>1, <1>3, VerdictTyped, NoDecision DEF DryRunNeverActs, DryRun
  <1>10. DecisionJustified'
    <2>1. decision' # "DISPATCH"
      BY <1>1, <1>3, VerdictTyped, NoDecision
    <2>2. decision' = "PENDJOB" => cc = 1
      BY <1>1, <1>3, VerdictTyped, NoDecision
    <2> QED BY <1>1, <1>4, <1>5, <2>1, <2>2 DEF DecisionJustified
  <1> QED BY <1>1, <1>7, <1>8, <1>9, <1>10 DEF AInv

LEMMA AInvNoMoreMounts ==
  ASSUME AInv, TypeOK', NoMoreMounts
  PROVE  AInv'
  <1>1. /\ pc = "idle" /\ pc' = "idle" /\ mounts = << >> /\ job # NULL /\ decision = NULL
        /\ job' = job /\ mounts' = mounts /\ answers' = answers /\ waiting' = waiting
        /\ decision' = IF DryRun THEN "NONE" ELSE "DISPATCH"
    BY DEF NoMoreMounts, vars, callVars
  <1>2. Inspecting(0)
    BY <1>1 DEF AInv
  <1>3. Len(answers) \in Nat /\ Len(mounts) = 0
    BY <1>1 DEF AInv, ATypeOK
  <1>4. ATypeOK'
    BY <1>1 DEF AInv, ATypeOK, Decisions
  <1>5. DryRunNeverActs'
    BY <1>1 DEF DryRunNeverActs, DryRun
  <1>6. DecisionJustified'
    BY <1>1, <1>2, <1>3 DEF DecisionJustified, Inspecting
  <1> QED BY <1>1, <1>4, <1>5, <1>6, NoDecision DEF AInv

LEMMA AInvDecide ==
  ASSUME AInv, TypeOK', Decide
  PROVE  AInv'
  <1>1. /\ pc = "idle" /\ pc' = pc
        /\ job' = NULL /\ mounts' = << >> /\ answers' = << >> /\ decision' = NULL
    BY DEF Decide, Leave, AInv, vars, callVars
  <1>2. ATypeOK'
    BY <1>1 DEF Decide, AInv, ATypeOK
  <1> QED BY <1>1, <1>2, NoDecision DEF AInv, DryRunNeverActs, DecisionJustified

LEMMA AInvNext ==
  ASSUME AInv, [ANext]_avars
  PROVE  AInv'
  <1>1. TypeOK /\ TypeOK'
    BY StepRefines, TypeNext DEF AInv, ATypeOK
  <1>2. ASSUME NEW j \in Jobs, Begin(j) PROVE AInv'
    BY <1>1, <1>2, AInvBegin
  <1>3. CASE NextMount \/ TakeAnswer \/ NoMoreMounts \/ Decide
    BY <1>1, <1>3, AInvNextMount, AInvTakeAnswer, AInvNoMoreMounts, AInvDecide
  <1>4. CASE Step /\ UNCHANGED schedVars
    BY <1>1, <1>4, StepInCall, AInvElsewhere
  <1>5. CASE (Tick \/ Monitor) /\ UNCHANGED schedVars
    BY <1>1, <1>5, EnvironmentKeepsPc, AInvElsewhere
  <1>6. CASE UNCHANGED avars
    BY <1>1, <1>6, AInvElsewhere DEF avars, vars, callVars
  <1> QED BY <1>2, <1>3, <1>4, <1>5, <1>6 DEF ANext, Plugin

\* What allocate() has asked and been told agrees with its place in the walk over
\* the storage maps, for any jobs, storage maps and documents and whatever
\* filer_load_ok() answers when.
THEOREM AllocateInductive == ASpec => []AInv
  BY AInvInit, AInvNext, PTL DEF ASpec

\* A dry run never touches a job.
THEOREM DryRunsNeverAct == ASpec => []DryRunNeverActs
  <1>1. AInv => DryRunNeverActs
    BY DEF AInv
  <1> QED BY <1>1, AllocateInductive, PTL

\* DISPATCH stands for a complete inspection all of whose answers are "within the
\* thresholds", and PENDJOB for one that ended at the first map over them.
THEOREM AllocateCorrect == ASpec => []DecisionJustified
  <1>1. AInv => DecisionJustified
    BY DEF AInv
  <1> QED BY <1>1, AllocateInductive, PTL

\* The handler is a legal user of filer_load_ok(): with allocate() and the
\* scheduler around it FilerLoad behaves as it does on its own, so that what is
\* proved of Spec holds of ASpec.
THEOREM AllocateImplementsFilerLoad == ASpec => Spec
  <1>1. AInit => Init
    BY DEF AInit
  <1>2. AInv => ATypeOK
    BY DEF AInv
  <1> QED BY <1>1, <1>2, AInvInit, AInvNext, StepRefines, PTL DEF ASpec, Spec

\* In particular no decision on a job rests on counters that were read more than
\* XMLReread before its storage map was looked up.
THEOREM DecisionsRestOnFreshCounters ==
  ASSUME "entry" \notin Faults
  PROVE  ASpec => []FreshWhenCompared
  BY AllocateImplementsFilerLoad, FreshnessCorrect

\* In particular, if the monitor publishes documents whole between calls and no
\* allocation fails, a decision on a job rests on verdicts that agree with the
\* tables, and on tables that hold what the documents say.
THEOREM DecisionsRestOnDocuments ==
  ASSUME Faults = {}, EnoughMemory, DomainsFit, NamesApart, VolumesNamedOnce
  PROVE  ASpec => [](AnswerMatchesTables /\ TablesMirrorDocument)
  <1>1. Spec => []AnswerMatchesTables
    BY AnswersCorrect
  <1>2. Spec => []TablesMirrorDocument
    BY TablesMirror
  <1> QED BY <1>1, <1>2, AllocateImplementsFilerLoad, PTL
=============================================================================
