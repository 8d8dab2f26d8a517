---------------------------- MODULE ToolFlowProofs --------------------------
(***************************************************************************)
(* The scripts around the hardware: what the records of the ASIC flow say  *)
(* is true for any sources, manifests, locks and evidence, however often   *)
(* make fails or is killed; and a single runner of a build output never    *)
(* publishes an incomplete executable, whatever fails, is interrupted or   *)
(* loses power, and however many files there are.                          *)
(***************************************************************************)
EXTENDS AsicFlow, BuildPublication, SequenceTheorems, TLAPS

-----------------------------------------------------------------------------
(* The audit.                                                              *)

\* Of the values of a required key, the audit sees the last one, a number.
LEMMA MetricsAreNumbers ==
    ASSUME NEW e \in EvidenceForm, AuditPasses(e), NEW key \in RequiredMetrics
    PROVE  /\ e.metrics # Missing /\ e.metrics.readable
           /\ e.metrics.pairs \in Seq([key : STRING, value : Value])
           /\ Coalesces(e.metrics.pairs)
           /\ \E i \in DOMAIN e.metrics.pairs :
                 LET last == e.metrics.pairs[i]
                 IN  /\ last.key = key /\ last.value.kind = "number"
                     /\ \A j \in DOMAIN e.metrics.pairs :
                           e.metrics.pairs[j].key = key => j <= i
                     /\ <<key, last.value.value>> \in FiniteNumbers(e.metrics)
<1>1. PICK v \in FiniteNumbers(e.metrics) : v[1] = key
  BY DEF AuditPasses, MetricsPass
<1>2. e.metrics # Missing /\ e.metrics.readable /\ Coalesces(e.metrics.pairs)
  BY <1>1 DEF FiniteNumbers
<1>3. e.metrics.pairs \in Seq([key : STRING, value : Value])
  BY <1>2 DEF EvidenceForm, MetricsFile
<1>4. PICK i \in DOMAIN e.metrics.pairs :
          /\ e.metrics.pairs[i].value.kind = "number"
          /\ \A j \in DOMAIN e.metrics.pairs :
                e.metrics.pairs[j].key = e.metrics.pairs[i].key => j <= i
          /\ v = <<e.metrics.pairs[i].key, e.metrics.pairs[i].value.value>>
  BY <1>1, <1>2 DEF FiniteNumbers
<1>5. e.metrics.pairs[i].key = key
  BY <1>1, <1>4
<1> QED BY <1>1, <1>2, <1>3, <1>4, <1>5

\* Every value of a required key is the number the audit sees, or a bool equal to it.
LEMMA ValuesAgree ==
    ASSUME NEW e \in EvidenceForm, AuditPasses(e), NEW key \in RequiredMetrics
    PROVE  \E n \in Int : /\ <<key, n>> \in FiniteNumbers(e.metrics)
                          /\ \E v \in Values(e, key) : v.kind = "number"
                          /\ \A v \in Values(e, key) :
                                v.kind \in {"number", "bool"} /\ v.value = n
<1> DEFINE pairs == e.metrics.pairs
<1>1. /\ Coalesces(pairs) /\ pairs \in Seq([key : STRING, value : Value])
  BY MetricsAreNumbers
<1>2. PICK i \in DOMAIN pairs :
          /\ pairs[i].key = key /\ pairs[i].value.kind = "number"
          /\ \A j \in DOMAIN pairs : pairs[j].key = key => j <= i
          /\ <<key, pairs[i].value.value>> \in FiniteNumbers(e.metrics)
  BY MetricsAreNumbers
<1>3. \A j \in DOMAIN pairs : pairs[j].value \in Value /\ j \in Nat
  <2> DEFINE Pair == [key : STRING, value : Value]
  <2>1. pairs \in Seq(Pair)
    BY <1>1
  <2> HIDE DEF pairs, Pair
  <2>2. \A j \in DOMAIN pairs : pairs[j] \in Pair /\ j \in Nat
    BY <2>1
  <2> QED BY <2>2 DEF Pair
<1>4. ASSUME NEW j \in DOMAIN pairs, pairs[j].key = key
      PROVE  /\ pairs[j].value.kind \in {"number", "bool"}
             /\ pairs[j].value.value = pairs[i].value.value
  <2>1. CASE j = i
    BY <1>2, <2>1
  <2>2. CASE j < i
    <3>1. PythonEqual(pairs[j].value, pairs[i].value)
      BY <1>1, <1>2, <1>4, <2>2 DEF Coalesces
    <3>2. pairs[j].value.kind \in Kind
      BY <1>3 DEF Value
    <3> QED BY <1>2, <3>1, <3>2 DEF PythonEqual, Kind
  <2> QED BY <1>2, <1>3, <1>4, <2>1, <2>2
<1> DEFINE n == pairs[i].value.value
<1>5. n \in Int
  BY <1>2, <1>3 DEF Value
<1>6. Values(e, key) = {pairs[j].value : j \in {m \in DOMAIN pairs : pairs[m].key = key}}
  BY DEF Values
<1> HIDE DEF n
<1>7. \A v \in Values(e, key) : v.kind \in {"number", "bool"} /\ v.value = n
  BY <1>4, <1>6 DEF n
<1>8. \E v \in Values(e, key) : v.kind = "number"
  BY <1>2, <1>6
<1> QED BY <1>2, <1>5, <1>7, <1>8 DEF n

\* Evidence that the audit lets pass agrees with itself in every part, stale parts and
\* every value of a repeated key included: all that check_logs.py ensures, since it sees
\* the kind of the last value only.
THEOREM AuditedEvidence == \A e \in EvidenceForm : AuditPasses(e) => Consistent(e)
<1> SUFFICES ASSUME NEW e \in EvidenceForm, AuditPasses(e) PROVE Consistent(e)
  OBVIOUS
<1>1. /\ e # Missing /\ e.diagnosed_logs = {} /\ ReportsPass(e.reports)
      /\ MetricsPass(FiniteNumbers(e.metrics))
      /\ FinalReportPasses(e.final_report, FiniteNumbers(e.metrics))
  BY DEF AuditPasses
<1>2. \A family \in RequiredEmptyReportFamilies :
          e.reports[family].canonical = "EMPTY" /\ "FULL" \notin e.reports[family].shards
  <2> TAKE family \in RequiredEmptyReportFamilies
  <2> DEFINE c == e.reports[family].canonical
             s == e.reports[family].shards
  <2>1. {c} \cup s = {"EMPTY"}
    BY <1>1 DEF ReportsPass
  <2> HIDE DEF c, s
  <2>2. c = "EMPTY" /\ "FULL" \notin s
    BY <2>1
  <2> QED BY <2>2 DEF c, s
<1>3. e.metrics # Missing /\ e.metrics.readable
  BY RequirementAssumption, MetricsAreNumbers
<1>4. e.final_report # Missing /\ e.final_report \in FinalReport
  BY <1>1 DEF FinalReportPasses, EvidenceForm
<1>5. ASSUME NEW key \in RequiredMetrics
      PROVE  /\ \E v \in Values(e, key) : v.kind = "number"
             /\ \A v \in Values(e, key) :
                   /\ v.kind \in {"number", "bool"}
                   /\ key \in RequiredZeroMetrics => v.value = 0
                   /\ key \in RequiredNonnegativeMetrics => v.value >= 0
                   /\ key \in RequiredPositiveMetrics => v.value > 0
             /\ \A v, u \in Values(e, key) : v.value = u.value
  <2>1. PICK n \in Int : /\ <<key, n>> \in FiniteNumbers(e.metrics)
                         /\ \E v \in Values(e, key) : v.kind = "number"
                         /\ \A v \in Values(e, key) :
                                v.kind \in {"number", "bool"} /\ v.value = n
    BY ValuesAgree
  <2>2. /\ key \in RequiredZeroMetrics => n = 0
        /\ key \in RequiredNonnegativeMetrics => n >= 0
        /\ key \in RequiredPositiveMetrics => n > 0
    BY <1>1, <2>1 DEF MetricsPass
  <2> QED BY <2>1, <2>2
<1>6. ASSUME NEW label \in DOMAIN FinalReportMetrics
      PROVE  /\ Len(e.final_report.counts[label]) = 1
             /\ \A v \in Values(e, FinalReportMetrics[label]) :
                   v.value = e.final_report.counts[label][1]
  <2>1. FinalReportMetrics[label] \in RequiredMetrics
        /\ FinalReportMetrics[label] \in RequiredZeroMetrics
    BY RequirementAssumption DEF RequiredMetrics
  <2>2. \A v \in Values(e, FinalReportMetrics[label]) : v.value = 0
    BY <1>5, <2>1
  <2> QED BY <1>1, <2>2 DEF FinalReportPasses
<1>7. /\ Len(e.final_report.worst_slack) = 1
      /\ e.final_report.worst_slack[1].kind = "number"
      /\ e.final_report.worst_slack[1].value >= 0
  BY <1>1 DEF FinalReportPasses
<1> QED BY <1>1, <1>2, <1>3, <1>4, <1>5, <1>6, <1>7 DEF Consistent

-----------------------------------------------------------------------------
(* The flow.                                                               *)

FileName == DOMAIN NoFiles

\* The files and the recipe have their parts.
Formed ==
    /\ files = [f \in FileName |-> files[f]]
    /\ make = [step |-> make.step, proof |-> make.proof, steady |-> make.steady,
               candidate |-> make.candidate, reference |-> make.reference,
               summary |-> make.summary]

\* A record is of one run of Yosys that passed every gate, whatever is on disk by now.
QorPassed(r) ==
    /\ r.netlist = r.log.build /\ r.stat.build = r.log.build
    /\ r.log.warnings = 0 /\ r.log.abc_combinational = 1
    /\ target = "SEQUENTIAL" => r.stat.cells >= MinimumCells
    /\ r.steady => r.netlist = [sources |-> r.sources, image |-> r.image]

EquivalencePassed(r) ==
    /\ r.proof_log.netlist = r.netlist
    /\ r.proof_log.warnings = 0 /\ r.proof_log.success_markers = 1
    /\ r.steady => /\ r.proof_log.build = [sources |-> r.reference, image |-> r.image]
                   /\ r.proof_log.miter = r.miter
                   /\ r.netlist = [sources |-> r.candidate, image |-> r.image]

RecordsPassed ==
    /\ Whole("qor") => QorPassed(files["qor"])
    /\ Whole("equivalence") => EquivalencePassed(files["equivalence"])
    /\ At("QOR_WRITE") => QorPassed(make.summary)
    /\ At("EQUIVALENCE_WRITE") => EquivalencePassed(make.summary)

\* The files of a recipe under way are those it has written and checked itself.
WorkInProgress ==
    /\ make.step \in {"NETLIST", "SEQUENTIAL", "WARNINGS", "QOR"} =>
          files["stat"].build = files["log"].build
    /\ make.step \in {"SEQUENTIAL", "WARNINGS", "QOR"} =>
          files["netlist"] = files["log"].build
    /\ make.step \in {"WARNINGS", "QOR"} /\ target = "SEQUENTIAL" =>
          files["stat"].cells >= MinimumCells
    /\ At("QOR") => files["log"].warnings = 0 /\ files["log"].abc_combinational = 1
    /\ make.step \in {"PROOF_WARNINGS", "EQUIVALENCE"} =>
          files["proof_log"].netlist = files["netlist"]
    /\ At("EQUIVALENCE") => files["proof_log"].warnings = 0

\* While nothing has been edited, they are made from what the tree holds.
SteadyWork ==
    make.steady /\ ~At("IDLE") =>
        /\ make.candidate = SourceNames(tree.candidate)
        /\ make.reference = SourceNames(tree.reference)
        /\ make.step \in {"STATISTICS", "NETLIST", "SEQUENTIAL", "WARNINGS", "QOR"} =>
              files["log"].build = Build(SourceNames(tree.candidate))
        /\ make.step \in {"QOR_WRITE", "PROVE", "PROOF_WARNINGS", "EQUIVALENCE"} =>
              files["netlist"] = Build(SourceNames(tree.candidate))
        /\ make.step \in {"PROOF_WARNINGS", "EQUIVALENCE"} =>
              /\ files["proof_log"].build = Build(SourceNames(tree.reference))
              /\ files["proof_log"].miter = tree.content[Miter]

\* What passes in a place-and-route build directory is evidence that is consistent.
EvidenceAudited ==
    /\ files["evidence"] \in EvidenceForm \cup {Missing}
    /\ target = "PHYSICAL" => make.step \in {"IDLE", "PREPARE", "REPLACE", "FLOW", "AUDIT"}
    /\ outcome = "PASSED" => At("IDLE")
    /\ AuditedEvidenceIsConsistent

FlowInvariant == Formed /\ RecordsPassed /\ WorkInProgress /\ SteadyWork /\ EvidenceAudited

\* What the helpers of the actions do to the recipe and the files.
LEMMA GotoStep ==
    ASSUME Formed, NEW step, Goto(step)
    PROVE  /\ make'.step = step /\ make'.proof = make.proof /\ make'.steady = make.steady
           /\ make'.candidate = make.candidate /\ make'.reference = make.reference
           /\ make'.summary = make.summary
           /\ make' = [step |-> make'.step, proof |-> make'.proof, steady |-> make'.steady,
                       candidate |-> make'.candidate, reference |-> make'.reference,
                       summary |-> make'.summary]
           /\ outcome' = outcome
BY DEF Formed, Goto

LEMMA WriteStep ==
    ASSUME Formed, NEW file \in FileName, NEW contents, Write(file, contents)
    PROVE  /\ files'[file] = contents
           /\ \A f \in FileName : f # file => files'[f] = files[f]
           /\ files' = [f \in FileName |-> files'[f]]
<1>1. DOMAIN files = FileName
  BY DEF Formed
<1> QED BY <1>1 DEF Write

LEMMA FileNames ==
    {"log", "stat", "netlist", "qor", "proof_log", "equivalence", "technology", "evidence"}
        = FileName
BY DEF FileName, NoFiles

\* A recipe that ends leaves records that passed, and consistent evidence if it
\* passes.
Ended(how) ==
    /\ End(how) /\ UNCHANGED <<target, tree>>
    /\ files' = [f \in FileName |-> files'[f]]
    /\ Whole("qor")' => QorPassed(files'["qor"])
    /\ Whole("equivalence")' => EquivalencePassed(files'["equivalence"])
    /\ files'["evidence"] \in EvidenceForm \cup {Missing}
    /\ target = "PHYSICAL" /\ how = "PASSED" => Consistent(files'["evidence"])

\* It asks nothing else of the files it leaves.
LEMMA EndKeepsInvariant ==
    ASSUME FlowInvariant, NEW how, Ended(how)
    PROVE  FlowInvariant'
<1> USE DEF Ended
<1>1. make' = Idle /\ make'.step = "IDLE" /\ outcome' = how
  BY Zenon DEF End, Idle
<1>2. make' = [step |-> make'.step, proof |-> make'.proof, steady |-> make'.steady,
               candidate |-> make'.candidate, reference |-> make'.reference,
               summary |-> make'.summary]
  BY <1>1, Zenon DEF Idle
<1>3. Formed'
  BY <1>2 DEF Formed
<1>4. RecordsPassed' /\ WorkInProgress' /\ SteadyWork'
  <2>1. target' = target /\ ~At("QOR_WRITE")' /\ ~At("EQUIVALENCE_WRITE")'
    BY <1>1 DEF At
  <2>2. RecordsPassed'
    BY <2>1, Zenon DEF RecordsPassed, QorPassed, EquivalencePassed
  <2> QED BY <1>1, <2>2 DEF WorkInProgress, SteadyWork, At
<1>5. EvidenceAudited'
  BY <1>1 DEF EvidenceAudited, At, AuditedEvidenceIsConsistent
<1> QED BY <1>3, <1>4, <1>5 DEF FlowInvariant

\* The records before a step, as after it where it leaves them.
LEMMA RecordsStay ==
    ASSUME FlowInvariant
    PROVE  /\ files = [f \in FileName |-> files[f]]
           /\ files["evidence"] \in EvidenceForm \cup {Missing}
           /\ files'["qor"] = files["qor"] =>
                 (Whole("qor")' => QorPassed(files'["qor"]))
           /\ files'["equivalence"] = files["equivalence"] =>
                 (Whole("equivalence")' => EquivalencePassed(files'["equivalence"]))
<1>1. Formed /\ RecordsPassed /\ EvidenceAudited
  BY DEF FlowInvariant
<1> QED
  BY <1>1, Zenon DEF Formed, RecordsPassed, EvidenceAudited, Whole

\* One that fails or is killed before it writes keeps what was there.
LEMMA FailureKeepsInvariant ==
    ASSUME FlowInvariant, NEW how \in {"FAILED", "KILLED"}, End(how),
           UNCHANGED <<target, tree, files>>
    PROVE  FlowInvariant'
<1>1. Ended(how)
  BY RecordsStay, Zenon DEF Ended
<1> QED BY <1>1, EndKeepsInvariant, Zenon

\* Without an edit the sources a manifest names, and what a tool makes of them, are as before.
LEMMA TreeStays ==
    ASSUME UNCHANGED tree
    PROVE  /\ SourceNames(tree.candidate)' = SourceNames(tree.candidate)
           /\ SourceNames(tree.reference)' = SourceNames(tree.reference)
           /\ Build(SourceNames(tree.candidate))' = Build(SourceNames(tree.candidate))
           /\ Build(SourceNames(tree.reference))' = Build(SourceNames(tree.reference))
           /\ tree'.content[Miter] = tree.content[Miter]
BY ZenonT(60) DEF SourceNames, Build, Contents, ManifestValid, SourceAccepted

\* A recipe that goes on, but not to the writing of a record.
LEMMA AdvanceKeepsInvariant ==
    ASSUME FlowInvariant, ~At("IDLE"), UNCHANGED <<target, tree>>,
           NEW step, step \notin {"IDLE", "QOR_WRITE", "EQUIVALENCE_WRITE"}, Goto(step),
           files' = [f \in FileName |-> files'[f]],
           files'["qor"] = files["qor"], files'["equivalence"] = files["equivalence"],
           files'["evidence"] \in EvidenceForm \cup {Missing},
           target = "PHYSICAL" => step \in {"REPLACE", "FLOW", "AUDIT"},
           WorkInProgress', SteadyWork'
    PROVE  FlowInvariant'
<1>1. /\ make'.step = step
      /\ make' = [step |-> make'.step, proof |-> make'.proof, steady |-> make'.steady,
                  candidate |-> make'.candidate, reference |-> make'.reference,
                  summary |-> make'.summary]
      /\ outcome' = outcome
  BY GotoStep DEF FlowInvariant
<1>2. Formed'
  BY <1>1 DEF Formed
<1>3. RecordsPassed'
  BY <1>1 DEF FlowInvariant, RecordsPassed, At, Whole, QorPassed, EquivalencePassed
<1>4. EvidenceAudited'
  BY <1>1 DEF FlowInvariant, EvidenceAudited, At, AuditedEvidenceIsConsistent
<1> QED BY <1>2, <1>3, <1>4 DEF FlowInvariant

\* The gates: a recipe that passes one knows that its files do.
LEMMA GatesKeepInvariant ==
    ASSUME FlowInvariant,
           CheckManifests \/ CheckSequential \/ CheckWarnings \/ CheckProofWarnings
    PROVE  FlowInvariant'
<1>1. UNCHANGED <<target, tree, files>> /\ ~At("IDLE") /\ Formed
  BY DEF CheckManifests, CheckSequential, CheckWarnings, CheckProofWarnings, At, FlowInvariant
<1>2. files' = [f \in FileName |-> files'[f]] /\ files'["evidence"] \in EvidenceForm \cup {Missing}
  BY <1>1 DEF FlowInvariant, Formed, EvidenceAudited
<1>3. CASE End("FAILED")
  BY <1>1, <1>3, FailureKeepsInvariant
<1>4. ASSUME NEW step \in {"SYNTHESIZE", "WARNINGS", "QOR", "EQUIVALENCE"}, Goto(step),
             target # "PHYSICAL", WorkInProgress', SteadyWork'
      PROVE  FlowInvariant'
  BY <1>1, <1>2, <1>4, AdvanceKeepsInvariant
<1>5. target # "PHYSICAL"
  BY DEF CheckManifests, CheckSequential, CheckWarnings, CheckProofWarnings, At, FlowInvariant,
         EvidenceAudited
<1>6. CASE CheckManifests /\ Goto("SYNTHESIZE")
  <2>1. make'.step = "SYNTHESIZE" /\ WorkInProgress'
    BY <1>1, <1>6, GotoStep DEF WorkInProgress, At
  <2>2. SteadyWork'
    BY <1>1, <1>6, <2>1, GotoStep, TreeStays DEF SteadyWork, FlowInvariant, At
  <2> QED BY <1>4, <1>5, <1>6, <2>1, <2>2
<1>7. CASE CheckSequential /\ Goto("WARNINGS")
  <2>1. make'.step = "WARNINGS" /\ WorkInProgress'
    BY <1>1, <1>7, GotoStep
    DEF WorkInProgress, At, CheckSequential, Proceed, StateRetained, FlowInvariant, End, Goto, Idle
  <2>2. SteadyWork'
    BY <1>1, <1>7, <2>1, GotoStep, TreeStays DEF SteadyWork, FlowInvariant, At, CheckSequential
  <2> QED BY <1>4, <1>5, <1>7, <2>1, <2>2
<1>8. CASE CheckWarnings /\ Goto("QOR")
  <2>1. make'.step = "QOR" /\ WorkInProgress'
    BY <1>1, <1>8, GotoStep
    DEF WorkInProgress, At, CheckWarnings, Proceed, LogAccepted, FlowInvariant, End, Idle
  <2>2. SteadyWork'
    BY <1>1, <1>8, <2>1, GotoStep, TreeStays DEF SteadyWork, FlowInvariant, At, CheckWarnings
  <2> QED BY <1>4, <1>5, <1>8, <2>1, <2>2
<1>9. CASE CheckProofWarnings /\ Goto("EQUIVALENCE")
  <2>1. make'.step = "EQUIVALENCE" /\ WorkInProgress'
    BY <1>1, <1>9, GotoStep
    DEF WorkInProgress, At, CheckProofWarnings, Proceed, LogAccepted, FlowInvariant, End, Idle
  <2>2. SteadyWork'
    BY <1>1, <1>9, <2>1, GotoStep, TreeStays
    DEF SteadyWork, FlowInvariant, At, CheckProofWarnings
  <2> QED BY <1>4, <1>5, <1>9, <2>1, <2>2
<1> QED BY <1>3, <1>6, <1>7, <1>8, <1>9
        DEF CheckManifests, CheckSequential, CheckWarnings, CheckProofWarnings, Proceed

\* An edit under a recipe ends what can be said of its sources; one between two recipes
\* touches neither files nor records.
LEMMA EditKeepsInvariant ==
    ASSUME FlowInvariant, Edit
    PROVE  FlowInvariant'
<1> DEFINE steady == At("IDLE")
<1>1. make' = [make EXCEPT !.steady = steady] /\ UNCHANGED <<target, files, outcome>>
  BY Zenon DEF Edit
<1> HIDE DEF steady
<1>2. /\ make'.step = make.step /\ make'.steady = steady /\ make'.summary = make.summary
      /\ make' = [step |-> make'.step, proof |-> make'.proof, steady |-> make'.steady,
                  candidate |-> make'.candidate, reference |-> make'.reference,
                  summary |-> make'.summary]
  BY <1>1 DEF FlowInvariant, Formed
<1>3. Formed'
  BY <1>1, <1>2 DEF FlowInvariant, Formed
<1>4. RecordsPassed' /\ WorkInProgress' /\ EvidenceAudited'
  BY <1>1, <1>2 DEF FlowInvariant, RecordsPassed, WorkInProgress, EvidenceAudited, At, Whole,
                    QorPassed, EquivalencePassed, AuditedEvidenceIsConsistent
<1>5. SteadyWork'
  BY <1>2 DEF SteadyWork, At, steady
<1> QED BY <1>3, <1>4, <1>5 DEF FlowInvariant

LEMMA StartKeepsInvariant ==
    ASSUME FlowInvariant, Start
    PROVE  FlowInvariant'
<1>1. PICK proof \in BOOLEAN :
          make' = [Idle EXCEPT !.step = IF target = "PHYSICAL" THEN "PREPARE" ELSE "MANIFESTS",
                               !.proof = proof,
                               !.candidate = SourceNames(tree.candidate),
                               !.reference = SourceNames(tree.reference)]
  BY Zenon DEF Start
<1>2. UNCHANGED <<target, tree, files>> /\ outcome' = Missing
  BY DEF Start
<1>3. /\ make'.step = IF target = "PHYSICAL" THEN "PREPARE" ELSE "MANIFESTS"
      /\ make'.candidate = SourceNames(tree.candidate)
      /\ make'.reference = SourceNames(tree.reference)
      /\ make' = [step |-> make'.step, proof |-> make'.proof, steady |-> make'.steady,
                  candidate |-> make'.candidate, reference |-> make'.reference,
                  summary |-> make'.summary]
  BY <1>1, Zenon DEF Idle
<1>4. Formed' /\ RecordsPassed' /\ WorkInProgress'
  BY <1>2, <1>3 DEF FlowInvariant, Formed, RecordsPassed, WorkInProgress, At, Whole, QorPassed,
                    EquivalencePassed
<1>5. SteadyWork'
  BY <1>2, <1>3, TreeStays DEF SteadyWork
<1>6. EvidenceAudited'
  BY <1>2, <1>3, MissingAssumption
  DEF FlowInvariant, EvidenceAudited, At, AuditedEvidenceIsConsistent
<1> QED BY <1>4, <1>5, <1>6 DEF FlowInvariant

\* A tool that fails, and a kill, leave records as they are.
LEMMA KillKeepsInvariant ==
    ASSUME FlowInvariant, Kill \/ ToolFails
    PROVE  FlowInvariant'
<1>1. UNCHANGED <<target, tree>> /\ Formed
  BY DEF Kill, ToolFails, FlowInvariant
<1>2. CASE UNCHANGED files
  BY <1>1, <1>2, FailureKeepsInvariant DEF Kill, ToolFails
<1>3. ASSUME NEW file \in {"netlist", "stat"}, Write(file, Torn), End("FAILED")
      PROVE  FlowInvariant'
  <2>1. /\ files' = [f \in FileName |-> files'[f]]
        /\ \A f \in {"qor", "equivalence", "evidence"} : files'[f] = files[f]
    BY <1>1, <1>3, WriteStep, FileNames
  <2>2. Ended("FAILED")
    BY <1>1, <1>3, <2>1, RecordsStay, Zenon DEF Ended
  <2> QED BY <2>2, EndKeepsInvariant, Zenon
<1> QED BY <1>1, <1>2, <1>3 DEF Kill, ToolFails

\* Yosys leaves the log, the statistics and the netlist of one run.
LEMMA SynthesisKeepsInvariant ==
    ASSUME FlowInvariant, Synthesize \/ Statistics \/ WriteNetlist
    PROVE  FlowInvariant'
<1>1. /\ UNCHANGED <<target, tree>> /\ ~At("IDLE") /\ Formed /\ target # "PHYSICAL"
      /\ files["evidence"] \in EvidenceForm \cup {Missing}
  BY DEF Synthesize, Statistics, WriteNetlist, At, FlowInvariant, EvidenceAudited
<1>2. ASSUME NEW file \in {"log", "stat", "netlist"}, NEW contents, Write(file, contents),
             NEW step \in {"STATISTICS", "NETLIST", "SEQUENTIAL", "WARNINGS"}, Goto(step),
             WorkInProgress', SteadyWork'
      PROVE  FlowInvariant'
  <2>1. /\ files' = [f \in FileName |-> files'[f]]
        /\ \A f \in {"qor", "equivalence", "evidence"} : files'[f] = files[f]
    BY <1>1, <1>2, WriteStep, FileNames
  <2> QED BY <1>1, <1>2, <2>1, AdvanceKeepsInvariant
<1>3. ASSUME Synthesize PROVE FlowInvariant'
  <2>1. CASE End("FAILED") /\ UNCHANGED files
    BY <1>1, <2>1, FailureKeepsInvariant
  <2>2. CASE \E w, n \in Count : /\ Write("log", [build |-> Build(make.candidate),
                                                  warnings |-> w, abc_combinational |-> n])
                                 /\ Goto("STATISTICS")
    <3>1. PICK w, n \in Count : /\ Write("log", [build |-> Build(make.candidate),
                                                 warnings |-> w, abc_combinational |-> n])
                                /\ Goto("STATISTICS")
      BY <2>2
    <3>2. /\ make'.step = "STATISTICS" /\ make'.steady = make.steady
          /\ make'.candidate = make.candidate /\ make'.reference = make.reference
          /\ files'["log"].build = Build(make.candidate)
      BY <1>1, <3>1, GotoStep, WriteStep, FileNames
    <3>3. WorkInProgress'
      BY <3>2 DEF WorkInProgress, At
    <3>4. SteadyWork'
      BY <1>1, <3>2, TreeStays DEF SteadyWork, FlowInvariant
    <3> QED BY <1>2, <3>1, <3>3, <3>4
  <2> QED BY <1>3, <2>1, <2>2 DEF Synthesize
<1>4. ASSUME Statistics PROVE FlowInvariant'
  <2>1. PICK n \in Count \cup {Missing} :
            Write("stat", [build |-> files["log"].build, cells |-> n])
    BY <1>4 DEF Statistics
  <2>2. At("STATISTICS") /\ Goto("NETLIST")
    BY <1>4 DEF Statistics
  <2>3. /\ make'.step = "NETLIST" /\ make'.steady = make.steady
        /\ make'.candidate = make.candidate /\ make'.reference = make.reference
        /\ files'["log"] = files["log"] /\ files'["stat"].build = files["log"].build
    BY <1>1, <2>1, <2>2, GotoStep, WriteStep, FileNames
  <2>4. WorkInProgress'
    BY <2>3 DEF WorkInProgress, At
  <2>5. SteadyWork'
    BY <1>1, <2>2, <2>3, TreeStays DEF SteadyWork, FlowInvariant, At
  <2> QED BY <1>2, <2>1, <2>2, <2>4, <2>5
<1>5. ASSUME WriteNetlist PROVE FlowInvariant'
  <2> DEFINE step == IF target = "SEQUENTIAL" THEN "SEQUENTIAL" ELSE "WARNINGS"
  <2>1. At("NETLIST") /\ Goto(step) /\ Write("netlist", files["log"].build)
    BY <1>5 DEF WriteNetlist
  <2>2. /\ make'.step = step /\ make'.steady = make.steady
        /\ make'.candidate = make.candidate /\ make'.reference = make.reference
        /\ files'["log"] = files["log"] /\ files'["stat"] = files["stat"]
        /\ files'["netlist"] = files["log"].build
    BY <1>1, <2>1, GotoStep, WriteStep, FileNames
  <2>3. WorkInProgress'
    BY <1>1, <2>1, <2>2 DEF WorkInProgress, At, FlowInvariant
  <2>4. SteadyWork'
    BY <1>1, <2>1, <2>2, TreeStays DEF SteadyWork, FlowInvariant, At
  <2> QED BY <1>2, <2>1, <2>3, <2>4
<1> QED BY <1>3, <1>4, <1>5

\* Opening a record: its contents wait to be written, and have passed.
LEMMA OpenKeepsInvariant ==
    ASSUME FlowInvariant, ~At("IDLE"), target # "PHYSICAL", UNCHANGED <<target, tree>>,
           NEW file \in {"qor", "equivalence"}, NEW ok, NEW summary,
           NEW step, step = (IF file = "qor" THEN "QOR_WRITE" ELSE "EQUIVALENCE_WRITE"),
           OpenRecord(file, ok, summary, step),
           ok => IF file = "qor"
                 THEN /\ QorPassed(summary)
                      /\ make.steady => files["netlist"] = Build(SourceNames(tree.candidate))
                 ELSE EquivalencePassed(summary)
    PROVE  FlowInvariant'
<1>1. CASE ~ok
  BY <1>1, FailureKeepsInvariant DEF OpenRecord
<1>2. CASE ok
  <2>1. /\ Write(file, Torn) /\ UNCHANGED outcome
        /\ make' = [make EXCEPT !.step = step, !.summary = summary]
    BY <1>2, Zenon DEF OpenRecord
  <2>2. /\ make'.step = step /\ make'.summary = summary /\ make'.steady = make.steady
        /\ make'.candidate = make.candidate /\ make'.reference = make.reference
        /\ make' = [step |-> make'.step, proof |-> make'.proof, steady |-> make'.steady,
                    candidate |-> make'.candidate, reference |-> make'.reference,
                    summary |-> make'.summary]
    BY <2>1 DEF FlowInvariant, Formed
  <2>3. /\ files'[file] = Torn /\ files' = [f \in FileName |-> files'[f]]
        /\ \A f \in FileName : f # file => files'[f] = files[f]
        /\ "qor" \in FileName /\ "equivalence" \in FileName /\ "netlist" \in FileName
        /\ "evidence" \in FileName
    BY <2>1, WriteStep, FileNames DEF FlowInvariant
  <2>4. Formed' /\ WorkInProgress'
    BY <2>2, <2>3 DEF Formed, WorkInProgress, At
  <2>5. RecordsPassed'
    BY <1>2, <2>2, <2>3
    DEF FlowInvariant, RecordsPassed, At, Whole, QorPassed, EquivalencePassed
  <2>6. SteadyWork'
    BY <1>2, <2>2, <2>3, TreeStays DEF FlowInvariant, SteadyWork, At
  <2>7. EvidenceAudited'
    BY <2>1, <2>2, <2>3 DEF FlowInvariant, EvidenceAudited, At, AuditedEvidenceIsConsistent
  <2> QED BY <2>4, <2>5, <2>6, <2>7 DEF FlowInvariant
<1> QED BY <1>1, <1>2

\* The hashes that a summary takes now are of what the recipe's own files were made from.
LEMMA SummariesKeepInvariant ==
    ASSUME FlowInvariant, SummarizeQor \/ SummarizeEquivalence
    PROVE  FlowInvariant'
<1>1. ~At("IDLE") /\ target # "PHYSICAL" /\ UNCHANGED <<target, tree>>
  BY DEF SummarizeQor, SummarizeEquivalence, At, FlowInvariant, EvidenceAudited
<1>2. ASSUME SummarizeQor PROVE FlowInvariant'
  <2> DEFINE ok == /\ files["stat"].cells # Missing
                   /\ tree.lock.readable /\ ManifestValid(tree.candidate)
             summary == [steady |-> make.steady, image |-> tree.lock.image,
                         manifest |-> tree.candidate,
                         sources |-> Contents(SourceNames(tree.candidate)),
                         netlist |-> files["netlist"], stat |-> files["stat"],
                         log |-> files["log"]]
  <2>1. At("QOR") /\ OpenRecord("qor", ok, summary, "QOR_WRITE")
    BY <1>2, Zenon DEF SummarizeQor
  <2>2. make.steady => files["netlist"] = Build(SourceNames(tree.candidate))
    BY <2>1 DEF FlowInvariant, WorkInProgress, SteadyWork, At
  <2>3. QorPassed(summary)
    BY <2>1, <2>2 DEF QorPassed, FlowInvariant, WorkInProgress, At, Build
  <2> HIDE DEF ok, summary
  <2> QED BY <1>1, <2>1, <2>2, <2>3, OpenKeepsInvariant
<1>3. ASSUME SummarizeEquivalence PROVE FlowInvariant'
  <2> DEFINE ok == /\ files["proof_log"].success_markers = 1
                   /\ tree.lock.readable
                   /\ ManifestValid(tree.candidate) /\ ManifestValid(tree.reference)
                   /\ tree.content[Miter] # Missing
             summary == [steady |-> make.steady, image |-> tree.lock.image,
                         candidate |-> Contents(SourceNames(tree.candidate)),
                         reference |-> Contents(SourceNames(tree.reference)),
                         miter |-> tree.content[Miter], netlist |-> files["netlist"],
                         proof_log |-> files["proof_log"]]
  <2>1. At("EQUIVALENCE") /\ OpenRecord("equivalence", ok, summary, "EQUIVALENCE_WRITE")
    BY <1>3, Zenon DEF SummarizeEquivalence
  <2>2. ok => EquivalencePassed(summary)
    BY <2>1 DEF EquivalencePassed, FlowInvariant, WorkInProgress, SteadyWork, At, Build
  <2> HIDE DEF ok, summary
  <2> QED BY <1>1, <2>1, <2>2, OpenKeepsInvariant
<1> QED BY <1>2, <1>3

\* Writing a record, after which the proof follows or the recipe has passed.
LEMMA RecordsKeepInvariant ==
    ASSUME FlowInvariant, WriteQor \/ WriteEquivalence
    PROVE  FlowInvariant'
<1>1. /\ UNCHANGED <<target, tree>> /\ ~At("IDLE") /\ Formed /\ target # "PHYSICAL"
      /\ files["evidence"] \in EvidenceForm \cup {Missing}
  BY DEF WriteQor, WriteEquivalence, At, FlowInvariant, EvidenceAudited
<1>2. ASSUME NEW file \in {"qor", "equivalence"}, Write(file, make.summary)
      PROVE  /\ files' = [f \in FileName |-> files'[f]] /\ files'[file] = make.summary
             /\ \A f \in {"qor", "equivalence", "netlist", "evidence"} :
                   f # file => files'[f] = files[f]
  BY <1>1, <1>2, WriteStep, FileNames
<1>3. CASE WriteEquivalence
  <2>1. /\ At("EQUIVALENCE_WRITE") /\ End("PASSED")
        /\ Write("equivalence", make.summary)
    BY <1>3 DEF WriteEquivalence
  <2>2. EquivalencePassed(make.summary)
    BY <2>1 DEF FlowInvariant, RecordsPassed
  <2>3. files'["equivalence"] = make.summary /\ files'["qor"] = files["qor"]
        /\ files'["evidence"] = files["evidence"] /\ files' = [f \in FileName |-> files'[f]]
    BY <1>2, <2>1
  <2>4. Ended("PASSED")
    BY <1>1, <2>1, <2>2, <2>3, RecordsStay, Zenon DEF Ended
  <2> QED BY <2>4, EndKeepsInvariant, Zenon
<1>4. CASE WriteQor
  <2>1. At("QOR_WRITE") /\ Write("qor", make.summary)
    BY <1>4 DEF WriteQor
  <2>2. CASE End("PASSED")
    <3>1. QorPassed(make.summary)
      BY <2>1 DEF FlowInvariant, RecordsPassed
    <3>2. files'["qor"] = make.summary /\ files'["equivalence"] = files["equivalence"]
          /\ files'["evidence"] = files["evidence"] /\ files' = [f \in FileName |-> files'[f]]
      BY <1>2, <2>1
    <3>3. Ended("PASSED")
      BY <1>1, <2>1, <2>2, <3>1, <3>2, RecordsStay, Zenon DEF Ended
    <3> QED BY <3>3, EndKeepsInvariant, Zenon
  <2>3. CASE Goto("PROVE")
    <3>1. /\ make'.step = "PROVE" /\ make'.steady = make.steady /\ outcome' = outcome
          /\ make'.candidate = make.candidate /\ make'.reference = make.reference
          /\ make' = [step |-> make'.step, proof |-> make'.proof, steady |-> make'.steady,
                      candidate |-> make'.candidate, reference |-> make'.reference,
                      summary |-> make'.summary]
      BY <1>1, <2>3, GotoStep
    <3>2. Formed' /\ WorkInProgress'
      BY <1>2, <2>1, <3>1 DEF Formed, WorkInProgress, At
    <3>3. RecordsPassed'
      BY <1>1, <1>2, <2>1, <3>1
      DEF FlowInvariant, RecordsPassed, At, Whole, QorPassed, EquivalencePassed
    <3>4. SteadyWork'
      BY <1>1, <1>2, <2>1, <3>1, TreeStays DEF FlowInvariant, SteadyWork, At
    <3>5. EvidenceAudited'
      BY <1>1, <1>2, <2>1, <3>1
      DEF FlowInvariant, EvidenceAudited, At, AuditedEvidenceIsConsistent
    <3> QED BY <3>2, <3>3, <3>4, <3>5 DEF FlowInvariant
  <2> QED BY <1>4, <2>2, <2>3 DEF WriteQor
<1> QED BY <1>3, <1>4

LEMMA ProveKeepsInvariant ==
    ASSUME FlowInvariant, Prove
    PROVE  FlowInvariant'
<1>1. /\ UNCHANGED <<target, tree>> /\ At("PROVE") /\ Formed /\ target # "PHYSICAL"
      /\ files["evidence"] \in EvidenceForm \cup {Missing}
  BY DEF Prove, At, FlowInvariant, EvidenceAudited
<1>2. CASE End("FAILED") /\ UNCHANGED files
  BY <1>1, <1>2, FailureKeepsInvariant
<1>3. CASE \E w, n \in Count :
              /\ Write("proof_log", [build |-> Build(make.reference),
                                     miter |-> tree.content[Miter],
                                     netlist |-> files["netlist"], warnings |-> w,
                                     abc_combinational |-> 0, success_markers |-> n])
              /\ Goto("PROOF_WARNINGS")
  <2>1. PICK w, n \in Count :
              /\ Write("proof_log", [build |-> Build(make.reference),
                                     miter |-> tree.content[Miter],
                                     netlist |-> files["netlist"], warnings |-> w,
                                     abc_combinational |-> 0, success_markers |-> n])
              /\ Goto("PROOF_WARNINGS")
    BY <1>3
  <2>2. /\ make'.step = "PROOF_WARNINGS" /\ make'.steady = make.steady
        /\ make'.candidate = make.candidate /\ make'.reference = make.reference
        /\ files'["proof_log"].build = Build(make.reference)
        /\ files'["proof_log"].miter = tree.content[Miter]
        /\ files'["proof_log"].netlist = files["netlist"]
        /\ files' = [f \in FileName |-> files'[f]]
        /\ \A f \in {"qor", "equivalence", "netlist", "evidence"} : files'[f] = files[f]
    BY <1>1, <2>1, GotoStep, WriteStep, FileNames
  <2>3. WorkInProgress'
    BY <2>2 DEF WorkInProgress, At
  <2>4. SteadyWork'
    BY <1>1, <2>2, TreeStays DEF SteadyWork, FlowInvariant, At
  <2> QED BY <1>1, <2>1, <2>2, <2>3, <2>4, AdvanceKeepsInvariant DEF At
<1> QED BY <1>2, <1>3 DEF Prove

\* Place and route, in a build directory of its own: what passes has been audited.
LEMMA PhysicalKeepsInvariant ==
    ASSUME FlowInvariant, Prepare \/ Replace \/ PlaceAndRoute \/ Audit
    PROVE  FlowInvariant'
<1>1. /\ UNCHANGED <<target, tree>> /\ ~At("IDLE") /\ Formed
      /\ files["evidence"] \in EvidenceForm \cup {Missing}
  BY DEF Prepare, Replace, PlaceAndRoute, Audit, At, FlowInvariant, EvidenceAudited
<1>2. ASSUME NEW step \in {"FLOW", "AUDIT"}, Goto(step),
             files' = [f \in FileName |-> files'[f]],
             files'["qor"] = files["qor"], files'["equivalence"] = files["equivalence"],
             files'["evidence"] \in EvidenceForm \cup {Missing},
             SteadyWork'
      PROVE  FlowInvariant'
  <2>1. make'.step = step /\ WorkInProgress'
    BY <1>1, <1>2, GotoStep DEF WorkInProgress, At
  <2> QED BY <1>1, <1>2, <2>1, AdvanceKeepsInvariant
<1>3. ASSUME Prepare PROVE FlowInvariant'
  <2>1. CASE End("FAILED") /\ UNCHANGED files
    BY <1>1, <2>1, FailureKeepsInvariant
  <2>2. CASE \E contents : /\ make' = [make EXCEPT !.step = "REPLACE", !.summary = contents]
                           /\ UNCHANGED <<files, outcome>>
    <3>1. PICK contents : /\ make' = [make EXCEPT !.step = "REPLACE", !.summary = contents]
                          /\ UNCHANGED <<files, outcome>>
      BY <2>2
    <3>2. /\ make'.step = "REPLACE" /\ make'.steady = make.steady
          /\ make'.candidate = make.candidate /\ make'.reference = make.reference
          /\ make' = [step |-> make'.step, proof |-> make'.proof, steady |-> make'.steady,
                      candidate |-> make'.candidate, reference |-> make'.reference,
                      summary |-> make'.summary]
      BY <1>1, <3>1 DEF Formed
    <3>3. Formed' /\ RecordsPassed' /\ WorkInProgress'
      BY <1>1, <3>1, <3>2 DEF FlowInvariant, Formed, RecordsPassed, WorkInProgress, At, Whole,
                              QorPassed, EquivalencePassed
    <3>4. SteadyWork'
      BY <1>1, <3>1, <3>2, TreeStays DEF FlowInvariant, SteadyWork, At
    <3>5. EvidenceAudited'
      BY <1>1, <3>1, <3>2 DEF FlowInvariant, EvidenceAudited, At, AuditedEvidenceIsConsistent
    <3> QED BY <3>3, <3>4, <3>5 DEF FlowInvariant
  <2> QED BY <1>3, <2>1, <2>2, Zenon DEF Prepare
<1>4. ASSUME Replace PROVE FlowInvariant'
  <2>1. CASE End("FAILED") /\ UNCHANGED files
    BY <1>1, <2>1, FailureKeepsInvariant
  <2>2. CASE Write("technology", make.summary) /\ Goto("FLOW")
    <3>1. /\ files' = [f \in FileName |-> files'[f]]
          /\ \A f \in {"qor", "equivalence", "evidence"} : files'[f] = files[f]
      BY <1>1, <2>2, WriteStep, FileNames
    <3>2. SteadyWork'
      <4>1. /\ make'.step = "FLOW" /\ make'.steady = make.steady
            /\ make'.candidate = make.candidate /\ make'.reference = make.reference
        BY <1>1, <2>2, GotoStep
      <4> QED BY <1>1, <4>1, TreeStays DEF FlowInvariant, SteadyWork, At
    <3> QED BY <1>1, <1>2, <2>2, <3>1, <3>2
  <2> QED BY <1>4, <2>1, <2>2 DEF Replace
<1>5. ASSUME PlaceAndRoute PROVE FlowInvariant'
  <2>1. CASE End("FAILED") /\ UNCHANGED files
    BY <1>1, <2>1, FailureKeepsInvariant
  <2>2. ASSUME NEW e \in Evidence, Write("evidence", e), Goto("AUDIT") \/ End("FAILED")
        PROVE  FlowInvariant'
    <3>1. /\ files' = [f \in FileName |-> files'[f]] /\ files'["evidence"] = e
          /\ \A f \in {"qor", "equivalence"} : files'[f] = files[f]
      BY <1>1, <2>2, WriteStep, FileNames
    <3>2. e \in EvidenceForm \cup {Missing}
      BY EvidenceAssumption
    <3>3. CASE End("FAILED")
      <4>1. Ended("FAILED")
        BY <1>1, <3>1, <3>2, <3>3, RecordsStay, Zenon DEF Ended
      <4> QED BY <4>1, EndKeepsInvariant, Zenon
    <3>4. CASE Goto("AUDIT")
      <4>1. /\ make'.step = "AUDIT" /\ make'.steady = make.steady
            /\ make'.candidate = make.candidate /\ make'.reference = make.reference
        BY <1>1, <3>4, GotoStep
      <4>2. SteadyWork'
        BY <1>1, <4>1, TreeStays DEF FlowInvariant, SteadyWork, At
      <4> QED BY <1>1, <1>2, <3>1, <3>2, <3>4, <4>2
    <3> QED BY <2>2, <3>3, <3>4
  <2> QED BY <1>5, <2>1, <2>2 DEF PlaceAndRoute
<1>6. ASSUME Audit PROVE FlowInvariant'
  <2> DEFINE how == IF AuditPasses(files["evidence"]) THEN "PASSED" ELSE "FAILED"
  <2>1. End(how) /\ UNCHANGED files
    BY <1>6 DEF Audit
  <2>2. how = "PASSED" => Consistent(files["evidence"])
    <3>1. how = "PASSED" => AuditPasses(files["evidence"])
      OBVIOUS
    <3>2. AuditPasses(files["evidence"]) => files["evidence"] # Missing
      BY DEF AuditPasses
    <3> HIDE DEF how
    <3> QED BY <1>1, <3>1, <3>2, AuditedEvidence
  <2> HIDE DEF how
  <2>3. Ended(how)
    BY <1>1, <2>1, <2>2, RecordsStay, Zenon DEF Ended
  <2> QED BY <2>3, EndKeepsInvariant, Zenon
<1> QED BY <1>3, <1>4, <1>5, <1>6

LEMMA InitEstablishesInvariant == Init => FlowInvariant
<1> SUFFICES ASSUME Init PROVE FlowInvariant
  OBVIOUS
<1>1. /\ make.step = "IDLE" /\ outcome = Missing
      /\ make = [step |-> make.step, proof |-> make.proof, steady |-> make.steady,
                 candidate |-> make.candidate, reference |-> make.reference,
                 summary |-> make.summary]
  BY Zenon DEF Init, Idle
<1>2. files = [f \in FileName |-> files[f]] /\ \A f \in FileName : files[f] = Missing
  BY DEF Init, FileName, NoFiles
<1> QED BY <1>1, <1>2, FileNames, MissingAssumption
        DEF FlowInvariant, Formed, RecordsPassed, WorkInProgress, SteadyWork, EvidenceAudited,
            AuditedEvidenceIsConsistent, Whole, At

LEMMA NextKeepsInvariant == FlowInvariant /\ [Next]_vars => FlowInvariant'
<1> SUFFICES ASSUME FlowInvariant, [Next]_vars PROVE FlowInvariant'
  OBVIOUS
<1>1. CASE Edit \/ Start \/ Kill \/ ToolFails
  BY <1>1, EditKeepsInvariant, StartKeepsInvariant, KillKeepsInvariant
<1>2. CASE CheckManifests \/ CheckSequential \/ CheckWarnings \/ CheckProofWarnings
  BY <1>2, GatesKeepInvariant
<1>3. CASE Synthesize \/ Statistics \/ WriteNetlist
  BY <1>3, SynthesisKeepsInvariant
<1>4. CASE SummarizeQor \/ WriteQor \/ SummarizeEquivalence \/ WriteEquivalence
  BY <1>4, SummariesKeepInvariant, RecordsKeepInvariant
<1>5. CASE Prove
  BY <1>5, ProveKeepsInvariant
<1>6. CASE Prepare \/ Replace \/ PlaceAndRoute \/ Audit
  BY <1>6, PhysicalKeepsInvariant
<1>7. CASE UNCHANGED vars
  <2>1. UNCHANGED <<target, tree, make, files, outcome>>
    BY <1>7 DEF vars
  <2>2. (Formed /\ RecordsPassed /\ WorkInProgress /\ EvidenceAudited)'
    BY <2>1 DEF FlowInvariant, Formed, RecordsPassed, WorkInProgress, EvidenceAudited,
                AuditedEvidenceIsConsistent, Whole, QorPassed, EquivalencePassed, At
  <2>3. SteadyWork'
    BY <2>1, TreeStays DEF FlowInvariant, SteadyWork, At
  <2> QED BY <2>2, <2>3 DEF FlowInvariant
<1> QED BY <1>1, <1>2, <1>3, <1>4, <1>5, <1>6, <1>7 DEF Next

-----------------------------------------------------------------------------
(* The theorems.                                                           *)

\* What each step of a recipe leaves is its own or of a run that passed, whatever is
\* edited, fails or is killed meanwhile.
THEOREM InvariantHolds == Spec => []FlowInvariant
BY InitEstablishesInvariant, NextKeepsInvariant, PTL DEF Spec

\* Records whose hashes are those of the files on disk are of one run of Yosys that passed
\* every gate, whatever earlier recipes have left there.
THEOREM RecordsAreOfPassedRuns == Spec => []CurrentRecordsPassed
<1>1. FlowInvariant => CurrentRecordsPassed
  <2> SUFFICES ASSUME FlowInvariant PROVE CurrentRecordsPassed
    OBVIOUS
  <2>1. QorCurrent => /\ QorPassed(files["qor"])
                      /\ files["qor"].netlist = files["netlist"]
                      /\ files["qor"].stat = files["stat"]
                      /\ files["qor"].log = files["log"]
    BY DEF FlowInvariant, RecordsPassed, QorCurrent, Current
  <2>2. EquivalenceCurrent => /\ EquivalencePassed(files["equivalence"])
                              /\ files["equivalence"].netlist = files["netlist"]
                              /\ files["equivalence"].proof_log = files["proof_log"]
    BY DEF FlowInvariant, RecordsPassed, EquivalenceCurrent, Current
  <2> QED BY <2>1, <2>2 DEF CurrentRecordsPassed, QorPassed, EquivalencePassed
<1> QED BY <1>1, InvariantHolds, PTL

\* Records name what their outputs were made from, unless something was edited meanwhile.
THEOREM SteadyRecordsReproduce == Spec => []SteadyRecordsAreReproducible
<1>1. FlowInvariant => SteadyRecordsAreReproducible
  BY DEF FlowInvariant, RecordsPassed, SteadyRecordsAreReproducible, QorPassed,
         EquivalencePassed, QorNamesInputs, EquivalenceNamesInputs
<1> QED BY <1>1, InvariantHolds, PTL

\* A flow that passes leaves evidence that agrees with itself in every part.
THEOREM PassedEvidenceIsConsistent == Spec => []AuditedEvidenceIsConsistent
<1>1. FlowInvariant => AuditedEvidenceIsConsistent
  BY DEF FlowInvariant, EvidenceAudited
<1> QED BY <1>1, InvariantHolds, PTL

-----------------------------------------------------------------------------
(* The form of what is read and left, and what a make that passes leaves:  *)
(* a second invariant, which rests on the files of the first.              *)

Tree == [content : [File -> Content \cup {Missing}], candidate : Manifest,
         reference : Manifest, lock : Lock, real_build : BOOLEAN]

\* The units of a technology file that has been corrected.
Corrected == {units \in Units : units.reader_dbu = units.dbu}

FilesFormed(left) ==
    /\ left["log"] \in Log \cup {Missing}
    /\ left["stat"] \in Stat \cup {Missing, Torn}
    /\ left["netlist"] \in BuildRecord \cup {Missing, Torn}
    /\ left["qor"] \in Qor \cup {Missing, Torn}
    /\ left["proof_log"] \in ProofLog \cup {Missing}
    /\ left["equivalence"] \in Equivalence \cup {Missing, Torn}
    /\ left["technology"] \in Corrected \cup {Missing}

\* What a recipe reads at a step is whole, whatever an earlier recipe has left torn.
WorkFormed(step, summary, left) ==
    /\ step \in {"STATISTICS", "NETLIST", "SEQUENTIAL", "WARNINGS", "QOR"} =>
          left["log"] \in Log
    /\ step \in {"NETLIST", "SEQUENTIAL", "WARNINGS", "QOR"} => left["stat"] \in Stat
    /\ step \in {"SEQUENTIAL", "WARNINGS", "QOR", "QOR_WRITE", "PROVE", "PROOF_WARNINGS",
                 "EQUIVALENCE"} =>
          left["netlist"] \in BuildRecord
    /\ step \in {"PROOF_WARNINGS", "EQUIVALENCE"} => left["proof_log"] \in ProofLog
    /\ step = "QOR_WRITE" => summary \in Qor
    /\ step = "EQUIVALENCE_WRITE" => summary \in Equivalence
    /\ step = "REPLACE" => summary \in Corrected

\* A record that is to be written is of the files on disk, and the proof touches none of
\* the files that the record of the synthesis is of.
RecordsKept(step, summary, left) ==
    /\ step = "QOR_WRITE" =>
          \A f \in {"netlist", "stat", "log"} : summary[f] = left[f]
    /\ step \in {"PROVE", "PROOF_WARNINGS", "EQUIVALENCE", "EQUIVALENCE_WRITE"} =>
          /\ left["qor"] \in Qor
          /\ \A f \in {"netlist", "stat", "log"} : left["qor"][f] = left[f]
    /\ step = "EQUIVALENCE_WRITE" =>
          \A f \in {"netlist", "proof_log"} : summary[f] = left[f]

RecipeFormed ==
    /\ target \in Target
    /\ outcome \in {Missing, "PASSED", "FAILED", "KILLED"}
    /\ tree \in Tree
    /\ make.steady \in BOOLEAN
    /\ make.candidate \in Seq(File) /\ make.reference \in Seq(File)
    /\ target # "PHYSICAL" => make.step \notin {"PREPARE", "REPLACE", "FLOW", "AUDIT"}

KeptAt(step, summary, left) ==
    WorkFormed(step, summary, left) /\ RecordsKept(step, summary, left)

RecordInvariant ==
    /\ RecipeFormed
    /\ FilesFormed(files)
    /\ KeptAt(make.step, make.summary, files)

\* The sources that a valid manifest names are files that are there.
LEMMA SourceNamesFormed ==
    ASSUME tree \in Tree, NEW lines \in Manifest
    PROVE  /\ SourceNames(lines) \in Seq(File)
           /\ ManifestValid(lines) => Readable(SourceNames(lines))
<1>1. lines \in Seq(Line)
  BY ManifestAssumption
<1>2. CASE ~ManifestValid(lines)
  BY <1>2 DEF SourceNames
<1>3. CASE ManifestValid(lines)
  <2>1. lines # <<>> /\ \A i \in DOMAIN lines : SourceAccepted(lines[i])
    BY <1>3 DEF ManifestValid
  <2>2. PICK n \in Nat : lines \in [1 .. n -> Line]
    BY <1>1, SeqDef
  <2>3. DOMAIN lines = 1 .. n /\ n # 0
    BY <2>1, <2>2
  <2>4. \A i \in 1 .. n : lines[i].file \in File /\ tree.content[lines[i].file] # Missing
    <3> TAKE i \in 1 .. n
    <3>1. lines[i] \in [portable : BOOLEAN, file : File \cup {Missing}]
      BY <2>2, LineAssumption
    <3>2. SourceAccepted(lines[i])
      BY <2>1, <2>3
    <3> QED BY <3>1, <3>2 DEF SourceAccepted
  <2>5. SourceNames(lines) = [i \in 1 .. n |-> lines[i].file]
    BY <1>3, <2>3 DEF SourceNames
  <2>6. SourceNames(lines) \in Seq(File)
    BY <2>4, <2>5
  <2>7. Len(SourceNames(lines)) = n /\ DOMAIN SourceNames(lines) = 1 .. n
    BY <2>5
  <2> QED BY <2>3, <2>4, <2>5, <2>6, <2>7 DEF Readable
<1> QED BY <1>2, <1>3

\* What a tool reads of sources that are there, in the locked image.
LEMMA BuildFormed ==
    ASSUME tree \in Tree, NEW sources \in Seq(File), Readable(sources)
    PROVE  /\ Contents(sources) \in Seq(File \X Content) \ {<<>>}
           /\ tree.lock.readable =>
                 tree.lock.image \in Image /\ Build(sources) \in BuildRecord
<1>1. PICK n \in Nat : sources \in [1 .. n -> File]
  BY SeqDef
<1>2. DOMAIN sources = 1 .. n /\ n # 0
  BY <1>1 DEF Readable
<1>3. \A i \in 1 .. n : tree.content[sources[i]] \in Content
  BY <1>1, <1>2 DEF Readable, Tree
<1>4. Contents(sources) = [i \in 1 .. n |-> <<sources[i], tree.content[sources[i]]>>]
  BY <1>2 DEF Contents
<1>5. Contents(sources) \in Seq(File \X Content)
  BY <1>1, <1>3, <1>4
<1>6. Len(Contents(sources)) = n
  BY <1>4
<1>7. tree.lock.readable => tree.lock.image \in Image
  BY LockAssumption DEF Tree
<1> QED BY <1>2, <1>5, <1>6, <1>7 DEF Build, BuildRecord

\* A recipe that ends asks nothing of the files but their form.
LEMMA EndKeepsRecords ==
    ASSUME RecordInvariant, NEW how \in {"PASSED", "FAILED", "KILLED"}, End(how),
           UNCHANGED <<target, tree>>, FilesFormed(files')
    PROVE  RecordInvariant'
<1>1. /\ make'.step = "IDLE" /\ make'.steady \in BOOLEAN /\ outcome' = how
      /\ make'.candidate = <<>> /\ make'.reference = <<>>
  BY DEF End, Idle
<1>2. RecipeFormed'
  BY <1>1 DEF RecordInvariant, RecipeFormed
<1>3. KeptAt(make'.step, make'.summary, files')
  BY <1>1 DEF KeptAt, WorkFormed, RecordsKept
<1> QED BY <1>2, <1>3 DEF RecordInvariant

\* One that goes on has what it reads at its next step.
LEMMA AdvanceKeepsRecords ==
    ASSUME FlowInvariant, RecordInvariant, NEW step, Goto(step), UNCHANGED <<target, tree>>,
           target # "PHYSICAL" => step \notin {"PREPARE", "REPLACE", "FLOW", "AUDIT"},
           FilesFormed(files'), KeptAt(step, make.summary, files')
    PROVE  RecordInvariant'
<1>1. /\ make'.step = step /\ make'.steady = make.steady /\ make'.summary = make.summary
      /\ make'.candidate = make.candidate /\ make'.reference = make.reference
      /\ outcome' = outcome
  BY GotoStep DEF FlowInvariant
<1>2. RecipeFormed'
  BY <1>1 DEF RecordInvariant, RecipeFormed
<1> QED BY <1>1, <1>2 DEF RecordInvariant

\* An edit leaves a tree; what a recipe has read and written is as it was.
LEMMA EditKeepsRecords ==
    ASSUME FlowInvariant, RecordInvariant, Edit
    PROVE  RecordInvariant'
<1> DEFINE steady == At("IDLE")
<1>1. make' = [make EXCEPT !.steady = steady] /\ UNCHANGED <<target, files, outcome>>
  BY Zenon DEF Edit
<1>2. steady \in BOOLEAN
  BY DEF At
<1> HIDE DEF steady
<1>3. /\ make'.step = make.step /\ make'.steady = steady /\ make'.summary = make.summary
      /\ make'.candidate = make.candidate /\ make'.reference = make.reference
  BY <1>1 DEF FlowInvariant, Formed
<1>4. tree' \in Tree
  <2>1. tree \in Tree
    BY DEF RecordInvariant, RecipeFormed
  <2>2. CASE \E f \in File, c \in Content \cup {Missing} : tree' = [tree EXCEPT !.content[f] = c]
    BY <2>1, <2>2 DEF Tree
  <2>3. CASE \E m \in Manifest : \/ tree' = [tree EXCEPT !.candidate = m]
                                 \/ tree' = [tree EXCEPT !.reference = m]
    BY <2>1, <2>3 DEF Tree
  <2>4. CASE \E l \in Lock : tree' = [tree EXCEPT !.lock = l]
    BY <2>1, <2>4 DEF Tree
  <2> QED BY <2>2, <2>3, <2>4, Zenon DEF Edit
<1>5. RecipeFormed'
  BY <1>1, <1>2, <1>3, <1>4 DEF RecordInvariant, RecipeFormed
<1> QED BY <1>1, <1>3, <1>5 DEF RecordInvariant

\* The sources that make expands are files of the repository.
LEMMA StartKeepsRecords ==
    ASSUME RecordInvariant, Start
    PROVE  RecordInvariant'
<1>1. PICK proof \in BOOLEAN :
          make' = [Idle EXCEPT !.step = IF target = "PHYSICAL" THEN "PREPARE" ELSE "MANIFESTS",
                               !.proof = proof,
                               !.candidate = SourceNames(tree.candidate),
                               !.reference = SourceNames(tree.reference)]
  BY Zenon DEF Start
<1>2. UNCHANGED <<target, tree, files>> /\ outcome' = Missing
  BY DEF Start
<1>3. /\ make'.step = (IF target = "PHYSICAL" THEN "PREPARE" ELSE "MANIFESTS")
      /\ make'.candidate = SourceNames(tree.candidate)
      /\ make'.reference = SourceNames(tree.reference)
      /\ make'.steady = TRUE
  BY <1>1, Zenon DEF Idle
<1>4. tree \in Tree /\ tree.candidate \in Manifest /\ tree.reference \in Manifest
  BY DEF RecordInvariant, RecipeFormed, Tree
<1>5. SourceNames(tree.candidate) \in Seq(File) /\ SourceNames(tree.reference) \in Seq(File)
  BY <1>4, SourceNamesFormed
<1>6. RecipeFormed'
  BY <1>2, <1>3, <1>5 DEF RecordInvariant, RecipeFormed
<1>7. KeptAt(make'.step, make'.summary, files')
  BY <1>3 DEF KeptAt, WorkFormed, RecordsKept
<1> QED BY <1>2, <1>6, <1>7 DEF RecordInvariant

\* What a kill or an error of a tool leaves torn is one of the files that may be.
LEMMA KillKeepsRecords ==
    ASSUME FlowInvariant, RecordInvariant, Kill \/ ToolFails
    PROVE  RecordInvariant'
<1>1. UNCHANGED <<target, tree>> /\ Formed /\ FilesFormed(files)
  BY DEF Kill, ToolFails, FlowInvariant, RecordInvariant
<1>2. CASE UNCHANGED files
  BY <1>1, <1>2, EndKeepsRecords DEF Kill, ToolFails
<1>3. ASSUME NEW file \in {"netlist", "stat"}, Write(file, Torn), End("FAILED")
      PROVE  RecordInvariant'
  <2>1. /\ files'[file] = Torn
        /\ \A f \in FileName : f # file => files'[f] = files[f]
    BY <1>1, <1>3, WriteStep, FileNames
  <2>2. FilesFormed(files')
    BY <1>1, <2>1, FileNames DEF FilesFormed
  <2> QED BY <1>1, <1>3, <2>2, EndKeepsRecords
<1> QED BY <1>1, <1>2, <1>3 DEF Kill, ToolFails

\* A gate reads the files of its step and leaves them.
LEMMA GatesKeepRecords ==
    ASSUME FlowInvariant, RecordInvariant,
           CheckManifests \/ CheckSequential \/ CheckWarnings \/ CheckProofWarnings
    PROVE  RecordInvariant'
<1>1. UNCHANGED <<target, tree, files>> /\ FilesFormed(files')
  BY DEF CheckManifests, CheckSequential, CheckWarnings, CheckProofWarnings, RecordInvariant
<1>2. KeptAt(make.step, make.summary, files)
  BY DEF RecordInvariant
<1>3. CASE End("FAILED")
  BY <1>1, <1>3, EndKeepsRecords
<1>4. ASSUME NEW step \in {"SYNTHESIZE", "WARNINGS", "QOR", "EQUIVALENCE"}, Goto(step),
             KeptAt(step, make.summary, files)
      PROVE  RecordInvariant'
  BY <1>1, <1>4, AdvanceKeepsRecords
<1>5. CASE CheckManifests /\ Goto("SYNTHESIZE")
  <2>1. KeptAt("SYNTHESIZE", make.summary, files)
    BY DEF KeptAt, WorkFormed, RecordsKept
  <2> QED BY <1>4, <1>5, <2>1
<1>6. CASE CheckSequential /\ Goto("WARNINGS")
  <2>1. KeptAt("WARNINGS", make.summary, files)
    BY <1>2, <1>6 DEF CheckSequential, At, KeptAt, WorkFormed, RecordsKept
  <2> QED BY <1>4, <1>6, <2>1
<1>7. CASE CheckWarnings /\ Goto("QOR")
  <2>1. KeptAt("QOR", make.summary, files)
    BY <1>2, <1>7 DEF CheckWarnings, At, KeptAt, WorkFormed, RecordsKept
  <2> QED BY <1>4, <1>7, <2>1
<1>8. CASE CheckProofWarnings /\ Goto("EQUIVALENCE")
  <2>1. KeptAt("EQUIVALENCE", make.summary, files)
    BY <1>2, <1>8 DEF CheckProofWarnings, At, KeptAt, WorkFormed, RecordsKept
  <2> QED BY <1>4, <1>8, <2>1
<1> QED BY <1>3, <1>5, <1>6, <1>7, <1>8
        DEF CheckManifests, CheckSequential, CheckWarnings, CheckProofWarnings, Proceed

\* Yosys writes the files of one run in the order in which the later steps read them.
LEMMA SynthesisKeepsRecords ==
    ASSUME FlowInvariant, RecordInvariant, Synthesize \/ Statistics \/ WriteNetlist
    PROVE  RecordInvariant'
<1>1. /\ UNCHANGED <<target, tree>> /\ Formed /\ FilesFormed(files) /\ RecipeFormed
      /\ KeptAt(make.step, make.summary, files)
  BY DEF Synthesize, Statistics, WriteNetlist, FlowInvariant, RecordInvariant
<1>2. ASSUME NEW file \in {"log", "stat", "netlist"}, NEW contents, Write(file, contents),
             file = "log" => contents \in Log, file = "stat" => contents \in Stat,
             file = "netlist" => contents \in BuildRecord,
             NEW step \in {"STATISTICS", "NETLIST", "SEQUENTIAL", "WARNINGS"}, Goto(step),
             KeptAt(step, make.summary, files')
      PROVE  RecordInvariant'
  <2>1. /\ files'[file] = contents
        /\ \A f \in FileName : f # file => files'[f] = files[f]
    BY <1>1, <1>2, WriteStep, FileNames
  <2>2. FilesFormed(files')
    BY <1>1, <1>2, <2>1, FileNames DEF FilesFormed
  <2> QED BY <1>1, <1>2, <2>2, AdvanceKeepsRecords
<1>3. ASSUME Synthesize PROVE RecordInvariant'
  <2>1. CASE End("FAILED") /\ UNCHANGED files
    BY <1>1, <2>1, EndKeepsRecords
  <2>2. CASE /\ ContainerRuns /\ Readable(make.candidate)
             /\ \E w, n \in Count : /\ Write("log", [build |-> Build(make.candidate),
                                                     warnings |-> w, abc_combinational |-> n])
                                    /\ Goto("STATISTICS")
    <3>1. PICK w, n \in Count : /\ Write("log", [build |-> Build(make.candidate),
                                                 warnings |-> w, abc_combinational |-> n])
                                /\ Goto("STATISTICS")
      BY <2>2
    <3>2. Build(make.candidate) \in BuildRecord
      BY <1>1, <2>2, BuildFormed DEF RecipeFormed, ContainerRuns, LockedImage
    <3> DEFINE log == [build |-> Build(make.candidate), warnings |-> w,
                       abc_combinational |-> n]
    <3>3. log \in Log
      BY <3>2 DEF Log
    <3>4. files'["log"] = log
      BY <1>1, <3>1, WriteStep, FileNames
    <3> HIDE DEF log
    <3>5. KeptAt("STATISTICS", make.summary, files')
      BY <3>3, <3>4 DEF KeptAt, WorkFormed, RecordsKept
    <3> QED BY <1>2, <3>1, <3>3, <3>5 DEF log
  <2> QED BY <1>3, <2>1, <2>2 DEF Synthesize
<1>4. ASSUME Statistics PROVE RecordInvariant'
  <2>1. PICK n \in Count \cup {Missing} :
            Write("stat", [build |-> files["log"].build, cells |-> n])
    BY <1>4 DEF Statistics
  <2>2. At("STATISTICS") /\ Goto("NETLIST")
    BY <1>4 DEF Statistics
  <2> DEFINE stat == [build |-> files["log"].build, cells |-> n]
  <2>3. stat \in Stat /\ files["log"] \in Log
    BY <1>1, <2>2 DEF KeptAt, WorkFormed, At, Log, Stat
  <2>4. files'["log"] = files["log"] /\ files'["stat"] = stat
    BY <1>1, <2>1, WriteStep, FileNames
  <2> HIDE DEF stat
  <2>5. KeptAt("NETLIST", make.summary, files')
    BY <2>3, <2>4 DEF KeptAt, WorkFormed, RecordsKept
  <2> QED BY <1>2, <2>1, <2>2, <2>3, <2>5 DEF stat
<1>5. ASSUME WriteNetlist PROVE RecordInvariant'
  <2> DEFINE step == IF target = "SEQUENTIAL" THEN "SEQUENTIAL" ELSE "WARNINGS"
  <2>1. At("NETLIST") /\ Goto(step) /\ Write("netlist", files["log"].build)
    BY <1>5 DEF WriteNetlist
  <2>2. files["log"] \in Log /\ files["stat"] \in Stat /\ files["log"].build \in BuildRecord
    BY <1>1, <2>1 DEF KeptAt, WorkFormed, At, Log
  <2>3. /\ files'["log"] = files["log"] /\ files'["stat"] = files["stat"]
        /\ files'["netlist"] = files["log"].build
    BY <1>1, <2>1, WriteStep, FileNames
  <2>4. step \in {"SEQUENTIAL", "WARNINGS"}
    OBVIOUS
  <2> HIDE DEF step
  <2>5. KeptAt(step, make.summary, files')
    BY <2>2, <2>3, <2>4 DEF KeptAt, WorkFormed, RecordsKept
  <2> QED BY <1>2, <2>1, <2>2, <2>4, <2>5
<1> QED BY <1>3, <1>4, <1>5

\* A record is opened for a summary that is formed and of the files on disk.
LEMMA OpenKeepsRecords ==
    ASSUME FlowInvariant, RecordInvariant, UNCHANGED <<target, tree>>,
           NEW file \in {"qor", "equivalence"}, NEW ok, NEW summary,
           NEW step, step = (IF file = "qor" THEN "QOR_WRITE" ELSE "EQUIVALENCE_WRITE"),
           OpenRecord(file, ok, summary, step),
           ok => \A left : /\ FilesFormed(left)
                           /\ \A f \in FileName : f # file => left[f] = files[f]
                           => KeptAt(step, summary, left)
    PROVE  RecordInvariant'
<1>1. Formed /\ RecipeFormed /\ FilesFormed(files)
  BY DEF FlowInvariant, RecordInvariant
<1>2. CASE ~ok
  BY <1>1, <1>2, EndKeepsRecords DEF OpenRecord
<1>3. CASE ok
  <2>1. /\ Write(file, Torn) /\ UNCHANGED outcome
        /\ make' = [make EXCEPT !.step = step, !.summary = summary]
    BY <1>3, Zenon DEF OpenRecord
  <2>2. /\ make'.step = step /\ make'.summary = summary /\ make'.steady = make.steady
        /\ make'.candidate = make.candidate /\ make'.reference = make.reference
    BY <1>1, <2>1 DEF Formed
  <2>3. files'[file] = Torn /\ \A f \in FileName : f # file => files'[f] = files[f]
    BY <1>1, <2>1, WriteStep, FileNames
  <2>4. FilesFormed(files')
    BY <1>1, <2>3, FileNames DEF FilesFormed
  <2>5. RecipeFormed'
    BY <1>1, <2>1, <2>2 DEF RecipeFormed
  <2> QED BY <1>3, <2>2, <2>3, <2>4, <2>5 DEF RecordInvariant
<1> QED BY <1>2, <1>3

\* The sources of a summary come of manifests that are valid, so that none is missing.
LEMMA SummariesKeepRecords ==
    ASSUME FlowInvariant, RecordInvariant, SummarizeQor \/ SummarizeEquivalence
    PROVE  RecordInvariant'
<1>1. /\ UNCHANGED <<target, tree>> /\ tree \in Tree /\ make.steady \in BOOLEAN
      /\ tree.candidate \in Manifest /\ tree.reference \in Manifest
      /\ KeptAt(make.step, make.summary, files)
  BY DEF SummarizeQor, SummarizeEquivalence, RecordInvariant, RecipeFormed, Tree
<1>2. ASSUME NEW lines \in Manifest, ManifestValid(lines), tree.lock.readable
      PROVE  /\ Contents(SourceNames(lines)) \in Seq(File \X Content) \ {<<>>}
             /\ tree.lock.image \in Image
  BY <1>1, <1>2, SourceNamesFormed, BuildFormed
<1>3. ASSUME SummarizeQor PROVE RecordInvariant'
  <2> DEFINE ok == /\ files["stat"].cells # Missing
                   /\ tree.lock.readable /\ ManifestValid(tree.candidate)
             sources == Contents(SourceNames(tree.candidate))
             image == tree.lock.image
             summary == [steady |-> make.steady, image |-> image,
                         manifest |-> tree.candidate, sources |-> sources,
                         netlist |-> files["netlist"], stat |-> files["stat"],
                         log |-> files["log"]]
  <2>1. At("QOR") /\ OpenRecord("qor", ok, summary, "QOR_WRITE")
    BY <1>3, Zenon DEF SummarizeQor
  <2>2. ok => sources \in Seq(File \X Content) \ {<<>>} /\ image \in Image
    BY <1>1, <1>2
  <2>3. files["netlist"] \in BuildRecord /\ files["stat"] \in Stat /\ files["log"] \in Log
    BY <1>1, <2>1 DEF KeptAt, WorkFormed, At
  <2> HIDE DEF sources, image, ok
  <2>4. ok => summary \in Qor
    BY <1>1, <2>2, <2>3 DEF Qor
  <2>5. \A f \in {"netlist", "stat", "log"} : summary[f] = files[f]
    OBVIOUS
  <2> HIDE DEF summary
  <2>6. ASSUME ok, NEW left, \A f \in FileName : f # "qor" => left[f] = files[f]
        PROVE  KeptAt("QOR_WRITE", summary, left)
    BY <2>3, <2>4, <2>5, <2>6, FileNames DEF KeptAt, WorkFormed, RecordsKept
  <2> QED BY <1>1, <2>1, <2>6, OpenKeepsRecords
<1>4. ASSUME SummarizeEquivalence PROVE RecordInvariant'
  <2> DEFINE ok == /\ files["proof_log"].success_markers = 1
                   /\ tree.lock.readable
                   /\ ManifestValid(tree.candidate) /\ ManifestValid(tree.reference)
                   /\ tree.content[Miter] # Missing
             candidate == Contents(SourceNames(tree.candidate))
             reference == Contents(SourceNames(tree.reference))
             image == tree.lock.image
             miter == tree.content[Miter]
             summary == [steady |-> make.steady, image |-> image,
                         candidate |-> candidate, reference |-> reference,
                         miter |-> miter, netlist |-> files["netlist"],
                         proof_log |-> files["proof_log"]]
  <2>1. At("EQUIVALENCE") /\ OpenRecord("equivalence", ok, summary, "EQUIVALENCE_WRITE")
    BY <1>4, Zenon DEF SummarizeEquivalence
  <2>2. ok => /\ candidate \in Seq(File \X Content) \ {<<>>} /\ image \in Image
              /\ reference \in Seq(File \X Content) \ {<<>>}
    BY <1>1, <1>2
  <2>3. ok => miter \in Content
    BY <1>1, FileAssumption DEF Tree
  <2>4. files["netlist"] \in BuildRecord /\ files["proof_log"] \in ProofLog
    BY <1>1, <2>1 DEF KeptAt, WorkFormed, At
  <2>5. files["qor"] \in Qor /\ \A f \in {"netlist", "stat", "log"} : files["qor"][f] = files[f]
    BY <1>1, <2>1 DEF KeptAt, RecordsKept, At
  <2> HIDE DEF candidate, reference, image, miter, ok
  <2>6. ok => summary \in Equivalence
    BY <1>1, <2>2, <2>3, <2>4 DEF Equivalence
  <2>7. \A f \in {"netlist", "proof_log"} : summary[f] = files[f]
    OBVIOUS
  <2> HIDE DEF summary
  <2>8. ASSUME ok, NEW left, \A f \in FileName : f # "equivalence" => left[f] = files[f]
        PROVE  KeptAt("EQUIVALENCE_WRITE", summary, left)
    BY <2>5, <2>6, <2>7, <2>8, FileNames DEF KeptAt, WorkFormed, RecordsKept
  <2> QED BY <1>1, <2>1, <2>8, OpenKeepsRecords
<1> QED BY <1>3, <1>4

\* A record that is written is whole and of the files on disk; where the recipe has passed,
\* all its records are.
LEMMA RecordsKeepRecords ==
    ASSUME FlowInvariant, RecordInvariant, WriteQor \/ WriteEquivalence
    PROVE  /\ RecordInvariant'
           /\ QorCurrent'
           /\ WriteEquivalence => EquivalenceCurrent'
<1>1. /\ UNCHANGED <<target, tree>> /\ Formed /\ RecipeFormed /\ FilesFormed(files)
      /\ KeptAt(make.step, make.summary, files)
  BY DEF WriteQor, WriteEquivalence, FlowInvariant, RecordInvariant
<1>2. ASSUME NEW file \in {"qor", "equivalence"}, Write(file, make.summary)
      PROVE  /\ files'[file] = make.summary
             /\ \A f \in FileName : f # file => files'[f] = files[f]
  BY <1>1, <1>2, WriteStep, FileNames
<1>3. CASE WriteEquivalence
  <2>1. /\ At("EQUIVALENCE_WRITE") /\ End("PASSED")
        /\ Write("equivalence", make.summary)
    BY <1>3 DEF WriteEquivalence
  <2>2. /\ make.summary \in Equivalence /\ files["qor"] \in Qor
        /\ \A f \in {"netlist", "stat", "log"} : files["qor"][f] = files[f]
        /\ \A f \in {"netlist", "proof_log"} : make.summary[f] = files[f]
    BY <1>1, <2>1 DEF KeptAt, WorkFormed, RecordsKept, At
  <2>3. /\ files'["equivalence"] = make.summary
        /\ \A f \in FileName : f # "equivalence" => files'[f] = files[f]
    BY <1>2, <2>1
  <2>4. FilesFormed(files')
    BY <1>1, <2>2, <2>3, FileNames DEF FilesFormed
  <2>5. QorCurrent' /\ EquivalenceCurrent'
    BY <2>2, <2>3, FileNames, MarkAssumption
    DEF QorCurrent, EquivalenceCurrent, Current, Whole
  <2> QED BY <1>1, <2>1, <2>4, <2>5, EndKeepsRecords
<1>4. CASE WriteQor
  <2>1. At("QOR_WRITE") /\ Write("qor", make.summary)
    BY <1>4 DEF WriteQor
  <2>2. /\ make.summary \in Qor /\ files["netlist"] \in BuildRecord
        /\ \A f \in {"netlist", "stat", "log"} : make.summary[f] = files[f]
    BY <1>1, <2>1 DEF KeptAt, WorkFormed, RecordsKept, At
  <2>3. /\ files'["qor"] = make.summary
        /\ \A f \in FileName : f # "qor" => files'[f] = files[f]
    BY <1>2, <2>1
  <2>4. FilesFormed(files')
    BY <1>1, <2>2, <2>3, FileNames DEF FilesFormed
  <2>5. QorCurrent'
    BY <2>2, <2>3, FileNames, MarkAssumption DEF QorCurrent, Current, Whole
  <2>6. ASSUME End("PASSED") PROVE RecordInvariant'
    BY <1>1, <2>4, <2>6, EndKeepsRecords
  <2>7. ASSUME Goto("PROVE") PROVE RecordInvariant'
    <3>1. KeptAt("PROVE", make.summary, files')
      BY <2>2, <2>3, FileNames DEF KeptAt, WorkFormed, RecordsKept
    <3> QED BY <1>1, <2>4, <2>7, <3>1, AdvanceKeepsRecords
  <2>8. RecordInvariant'
    BY <1>4, <2>6, <2>7 DEF WriteQor
  <2>9. ~WriteEquivalence
    BY <2>1 DEF WriteEquivalence, At
  <2> QED BY <2>5, <2>8, <2>9
<1> QED BY <1>3, <1>4

\* The proof writes its log alone.
LEMMA ProveKeepsRecords ==
    ASSUME FlowInvariant, RecordInvariant, Prove
    PROVE  RecordInvariant'
<1>1. /\ UNCHANGED <<target, tree>> /\ At("PROVE") /\ Formed /\ RecipeFormed
      /\ FilesFormed(files) /\ KeptAt(make.step, make.summary, files)
  BY DEF Prove, FlowInvariant, RecordInvariant
<1>2. CASE End("FAILED") /\ UNCHANGED files
  BY <1>1, <1>2, EndKeepsRecords
<1>3. CASE /\ ContainerRuns /\ Readable(make.reference) /\ tree.content[Miter] # Missing
           /\ \E w, n \in Count :
              /\ Write("proof_log", [build |-> Build(make.reference),
                                     miter |-> tree.content[Miter],
                                     netlist |-> files["netlist"], warnings |-> w,
                                     abc_combinational |-> 0, success_markers |-> n])
              /\ Goto("PROOF_WARNINGS")
  <2>1. PICK w, n \in Count :
              /\ Write("proof_log", [build |-> Build(make.reference),
                                     miter |-> tree.content[Miter],
                                     netlist |-> files["netlist"], warnings |-> w,
                                     abc_combinational |-> 0, success_markers |-> n])
              /\ Goto("PROOF_WARNINGS")
    BY <1>3
  <2> DEFINE build == Build(make.reference)
             miter == tree.content[Miter]
             log == [build |-> build, miter |-> miter, netlist |-> files["netlist"],
                     warnings |-> w, abc_combinational |-> 0, success_markers |-> n]
  <2>2. build \in BuildRecord
    BY <1>1, <1>3, BuildFormed DEF RecipeFormed, ContainerRuns, LockedImage
  <2>3. miter \in Content
    BY <1>1, <1>3, FileAssumption DEF RecipeFormed, Tree
  <2>4. /\ files["netlist"] \in BuildRecord /\ files["qor"] \in Qor
        /\ \A f \in {"netlist", "stat", "log"} : files["qor"][f] = files[f]
    BY <1>1 DEF KeptAt, WorkFormed, RecordsKept, At
  <2>5. /\ files'["proof_log"] = log
        /\ \A f \in FileName : f # "proof_log" => files'[f] = files[f]
    BY <1>1, <2>1, WriteStep, FileNames
  <2> HIDE DEF build, miter
  <2>6. log \in ProofLog
    BY <2>2, <2>3, <2>4 DEF ProofLog
  <2> HIDE DEF log
  <2>7. FilesFormed(files')
    BY <1>1, <2>5, <2>6, FileNames DEF FilesFormed
  <2>8. KeptAt("PROOF_WARNINGS", make.summary, files')
    BY <2>4, <2>5, <2>6, FileNames DEF KeptAt, WorkFormed, RecordsKept
  <2> QED BY <1>1, <2>1, <2>7, <2>8, AdvanceKeepsRecords
<1> QED BY <1>2, <1>3 DEF Prove

\* The technology file takes its name when it is whole and its units agree.
LEMMA PhysicalKeepsRecords ==
    ASSUME FlowInvariant, RecordInvariant, Prepare \/ Replace \/ PlaceAndRoute \/ Audit
    PROVE  RecordInvariant'
<1>1. /\ UNCHANGED <<target, tree>> /\ Formed /\ RecipeFormed /\ FilesFormed(files)
      /\ KeptAt(make.step, make.summary, files) /\ target = "PHYSICAL"
  BY DEF Prepare, Replace, PlaceAndRoute, Audit, At, FlowInvariant, RecordInvariant,
         RecipeFormed
<1>2. ASSUME NEW step \in {"FLOW", "AUDIT"}, Goto(step), FilesFormed(files')
      PROVE  RecordInvariant'
  <2>1. KeptAt(step, make.summary, files')
    BY DEF KeptAt, WorkFormed, RecordsKept
  <2> QED BY <1>1, <1>2, <2>1, AdvanceKeepsRecords
<1>3. ASSUME Prepare PROVE RecordInvariant'
  <2> DEFINE pinned == Technology(tree.lock.image)
             contents == [pinned EXCEPT !.reader_dbu = "0.0005"]
  <2>1. CASE End("FAILED") /\ UNCHANGED files
    BY <1>1, <2>1, EndKeepsRecords
  <2>2. CASE /\ ContainerRuns /\ pinned.dbu = "0.0005"
             /\ make' = [make EXCEPT !.step = "REPLACE", !.summary = contents]
             /\ UNCHANGED <<files, outcome>>
    <3>1. tree.lock.image \in Image
      BY <1>1, <2>2, LockAssumption DEF RecipeFormed, Tree, ContainerRuns, LockedImage
    <3>2. pinned \in Units
      BY <3>1, TechnologyAssumption
    <3>3. contents \in Corrected
      <4> HIDE DEF pinned
      <4> QED BY <2>2, <3>2 DEF Corrected, Units
    <3> HIDE DEF contents
    <3>4. /\ make'.step = "REPLACE" /\ make'.steady = make.steady
          /\ make'.candidate = make.candidate /\ make'.reference = make.reference
          /\ make'.summary = contents
      BY <1>1, <2>2 DEF Formed
    <3>5. RecipeFormed'
      BY <1>1, <2>2, <3>4 DEF RecipeFormed
    <3>6. KeptAt(make'.step, make'.summary, files')
      BY <3>3, <3>4 DEF KeptAt, WorkFormed, RecordsKept
    <3> QED BY <1>1, <2>2, <3>5, <3>6 DEF RecordInvariant
  <2> QED BY <1>3, <2>1, <2>2, Zenon DEF Prepare
<1>4. ASSUME Replace PROVE RecordInvariant'
  <2>1. CASE End("FAILED") /\ UNCHANGED files
    BY <1>1, <2>1, EndKeepsRecords
  <2>2. CASE Write("technology", make.summary) /\ Goto("FLOW")
    <3>1. make.summary \in Corrected
      BY <1>1, <1>4 DEF Replace, At, KeptAt, WorkFormed
    <3>2. /\ files'["technology"] = make.summary
          /\ \A f \in FileName : f # "technology" => files'[f] = files[f]
      BY <1>1, <2>2, WriteStep, FileNames
    <3>3. FilesFormed(files')
      BY <1>1, <3>1, <3>2, FileNames DEF FilesFormed
    <3> QED BY <1>2, <2>2, <3>3
  <2> QED BY <1>4, <2>1, <2>2 DEF Replace
<1>5. ASSUME PlaceAndRoute PROVE RecordInvariant'
  <2>1. CASE End("FAILED") /\ UNCHANGED files
    BY <1>1, <2>1, EndKeepsRecords
  <2>2. ASSUME NEW e \in Evidence, Write("evidence", e), Goto("AUDIT") \/ End("FAILED")
        PROVE  RecordInvariant'
    <3>1. \A f \in FileName : f # "evidence" => files'[f] = files[f]
      BY <1>1, <2>2, WriteStep, FileNames
    <3>2. FilesFormed(files')
      BY <1>1, <3>1, FileNames DEF FilesFormed
    <3> QED BY <1>1, <1>2, <2>2, <3>2, EndKeepsRecords
  <2> QED BY <1>5, <2>1, <2>2 DEF PlaceAndRoute
<1>6. ASSUME Audit PROVE RecordInvariant'
  <2> DEFINE how == IF AuditPasses(files["evidence"]) THEN "PASSED" ELSE "FAILED"
  <2>1. End(how) /\ UNCHANGED files
    BY <1>6 DEF Audit
  <2>2. how \in {"PASSED", "FAILED", "KILLED"}
    OBVIOUS
  <2> HIDE DEF how
  <2> QED BY <1>1, <2>1, <2>2, EndKeepsRecords
<1> QED BY <1>3, <1>4, <1>5, <1>6

\* At first there are no files and nothing runs.
LEMMA InitEstablishesRecords == Init => RecordInvariant
<1> SUFFICES ASSUME Init PROVE RecordInvariant
  OBVIOUS
<1>1. /\ make.step = "IDLE" /\ make.steady \in BOOLEAN
      /\ make.candidate = <<>> /\ make.reference = <<>>
  BY Zenon DEF Init, Idle
<1>2. RecipeFormed
  <2>1. tree \in [content : [File -> Content], candidate : Manifest, reference : Manifest,
                  lock : Lock, real_build : BOOLEAN]
    BY DEF Init
  <2>2. tree \in Tree
    BY <2>1 DEF Tree
  <2>3. target \in Target /\ outcome = Missing
    BY DEF Init
  <2> QED BY <1>1, <2>2, <2>3 DEF RecipeFormed
<1>3. FilesFormed(files)
  BY DEF Init, NoFiles, FilesFormed
<1>4. KeptAt(make.step, make.summary, files)
  BY <1>1 DEF KeptAt, WorkFormed, RecordsKept
<1> QED BY <1>2, <1>3, <1>4 DEF RecordInvariant

\* Every step keeps what is read whole and what is recorded.
LEMMA NextKeepsRecords == FlowInvariant /\ RecordInvariant /\ [Next]_vars => RecordInvariant'
<1> SUFFICES ASSUME FlowInvariant, RecordInvariant, [Next]_vars PROVE RecordInvariant'
  OBVIOUS
<1>1. CASE Edit \/ Start \/ Kill \/ ToolFails
  BY <1>1, EditKeepsRecords, StartKeepsRecords, KillKeepsRecords
<1>2. CASE CheckManifests \/ CheckSequential \/ CheckWarnings \/ CheckProofWarnings
  BY <1>2, GatesKeepRecords
<1>3. CASE Synthesize \/ Statistics \/ WriteNetlist
  BY <1>3, SynthesisKeepsRecords
<1>4. CASE SummarizeQor \/ WriteQor \/ SummarizeEquivalence \/ WriteEquivalence
  BY <1>4, SummariesKeepRecords, RecordsKeepRecords
<1>5. CASE Prove
  BY <1>5, ProveKeepsRecords
<1>6. CASE Prepare \/ Replace \/ PlaceAndRoute \/ Audit
  BY <1>6, PhysicalKeepsRecords
<1>7. CASE UNCHANGED vars
  <2>1. UNCHANGED <<target, tree, make, files, outcome>>
    BY <1>7 DEF vars
  <2>2. RecipeFormed'
    BY <2>1 DEF RecordInvariant, RecipeFormed
  <2> QED BY <2>1, <2>2 DEF RecordInvariant
<1> QED BY <1>1, <1>2, <1>3, <1>4, <1>5, <1>6, <1>7 DEF Next

\* What a recipe reads is whole and what it has recorded is kept, whatever is edited, fails
\* or is killed.
THEOREM RecordInvariantHolds == Spec => []RecordInvariant
<1>1. Init => RecordInvariant
  BY InitEstablishesRecords
<1>2. FlowInvariant /\ RecordInvariant /\ [Next]_vars => RecordInvariant'
  BY NextKeepsRecords
<1> QED BY <1>1, <1>2, InvariantHolds, PTL DEF Spec

\* The files keep their form: no record names a source that is not there, or none.
THEOREM FlowIsTyped == Spec => []TypeOK
<1>1. RecordInvariant => TypeOK
  BY DEF RecordInvariant, RecipeFormed, FilesFormed, Corrected, TypeOK
<1> QED BY <1>1, RecordInvariantHolds, PTL

\* The flow never finds a technology file that is torn or whose units disagree, whatever
\* preparations have failed.
THEOREM TechnologyAgrees == Spec => []TechnologyUnitsAgree
<1>1. RecordInvariant => TechnologyUnitsAgree
  <2> SUFFICES ASSUME RecordInvariant, files["technology"] # Missing
               PROVE  /\ Whole("technology")
                      /\ files["technology"].reader_dbu = files["technology"].dbu
    BY DEF TechnologyUnitsAgree
  <2>1. files["technology"] \in Corrected
    BY DEF RecordInvariant, FilesFormed
  <2> QED BY <2>1, MarkAssumption DEF Corrected, Whole
<1> QED BY <1>1, RecordInvariantHolds, PTL

\* Only the steps that write the last record of a recipe let it pass, and an audit.
LEMMA PassingSteps ==
    ASSUME RecordInvariant, [Next]_vars, outcome' = "PASSED", outcome # "PASSED",
           target # "PHYSICAL"
    PROVE  (WriteQor /\ ~make.proof) \/ WriteEquivalence
<1>1. ~(UNCHANGED outcome) /\ ~End("FAILED") /\ ~End("KILLED")
  BY DEF End
<1>2. ~Edit /\ ~Start /\ ~Kill /\ ~ToolFails /\ ~UNCHANGED vars
  BY <1>1, MissingAssumption DEF Edit, Start, Kill, ToolFails, vars
<1>3. /\ ~CheckManifests /\ ~CheckSequential /\ ~CheckWarnings /\ ~CheckProofWarnings
      /\ ~Synthesize /\ ~Statistics /\ ~WriteNetlist /\ ~Prove
  BY <1>1, Zenon
  DEF CheckManifests, CheckSequential, CheckWarnings, CheckProofWarnings, Synthesize,
      Statistics, WriteNetlist, Prove, Proceed, Goto
<1>4. ~SummarizeQor /\ ~SummarizeEquivalence
  BY <1>1, Zenon DEF SummarizeQor, SummarizeEquivalence, OpenRecord
<1>5. ~Prepare /\ ~Replace /\ ~PlaceAndRoute /\ ~Audit
  BY DEF Prepare, Replace, PlaceAndRoute, Audit, At, RecordInvariant, RecipeFormed
<1>6. WriteQor => ~make.proof
  BY <1>1, Zenon DEF WriteQor, Goto
<1> QED BY <1>2, <1>3, <1>4, <1>5, <1>6 DEF Next

\* A make that passes leaves whole records of the files on disk, whatever it found there.
THEOREM PassedMakesAreRecorded == Spec => PassedIsRecorded
<1>1. ASSUME FlowInvariant, RecordInvariant, [Next]_vars, outcome' = "PASSED",
             outcome # "PASSED", target # "PHYSICAL"
      PROVE  QorCurrent' /\ (make.proof => EquivalenceCurrent')
  <2>1. (WriteQor /\ ~make.proof) \/ WriteEquivalence
    BY <1>1, PassingSteps
  <2>2. QorCurrent' /\ (WriteEquivalence => EquivalenceCurrent')
    BY <1>1, <2>1, RecordsKeepRecords
  <2> QED BY <2>1, <2>2
<1>2. FlowInvariant /\ RecordInvariant /\ [Next]_vars =>
          [outcome' = "PASSED" /\ outcome # "PASSED" /\ target # "PHYSICAL" =>
              QorCurrent' /\ (make.proof => EquivalenceCurrent')]_vars
  BY <1>1
<1> QED BY <1>2, InvariantHolds, RecordInvariantHolds, PTL DEF Spec, PassedIsRecorded

-----------------------------------------------------------------------------
(* The publication of an executable by a single runner.                    *)

\* Every action keeps the variables within their types, for any number of runners.
LEMMA TypeIsInductive ==
    ASSUME PublicationTypeOK, [PublicationNext]_publication_vars
    PROVE  PublicationTypeOK'
<1>1. ASSUME NEW r \in Runner, StartRunner(r) PROVE PublicationTypeOK'
  BY <1>1 DEF PublicationTypeOK, StartRunner, StepTo, Step
<1>2. ASSUME NEW r \in Runner, CreatePending(r) PROVE PublicationTypeOK'
  BY <1>2 DEF PublicationTypeOK, CreatePending, ExecutableContent
<1>3. ASSUME NEW r \in Runner, CommandSucceeds(r) PROVE PublicationTypeOK'
  BY <1>3 DEF PublicationTypeOK, CommandSucceeds, StepTo, Step, ExecutableContent
<1>4. ASSUME NEW r \in Runner, CommandFails(r) PROVE PublicationTypeOK'
  BY <1>4 DEF PublicationTypeOK, CommandFails, Leave, StepTo, Step, Outcome, disk
<1>5. ASSUME NEW r \in Runner, Validate(r) PROVE PublicationTypeOK'
  BY <1>5 DEF PublicationTypeOK, Validate, Leave, StepTo, Step, Outcome, disk
<1>6. ASSUME NEW r \in Runner, SynchronizeFile(r) PROVE PublicationTypeOK'
  BY <1>6 DEF PublicationTypeOK, SynchronizeFile, StepTo, Step
<1>7. ASSUME NEW r \in Runner, ReplaceOutput(r) PROVE PublicationTypeOK'
  BY <1>7 DEF PublicationTypeOK, ReplaceOutput, StepTo, Step
<1>8. ASSUME NEW r \in Runner, SynchronizeDirectory(r) PROVE PublicationTypeOK'
  BY <1>8 DEF PublicationTypeOK, SynchronizeDirectory, Leave, StepTo, Step, Outcome
<1>9. ASSUME NEW r \in Runner, StepFails(r) PROVE PublicationTypeOK'
  BY <1>9 DEF PublicationTypeOK, StepFails, Leave, StepTo, Step, Outcome, disk
<1>10. ASSUME NEW r \in Runner, Interrupt(r) PROVE PublicationTypeOK'
  BY <1>10 DEF PublicationTypeOK, Interrupt, Leave, StepTo, Step, Outcome, disk
<1>11. ASSUME NEW r \in Runner, Cleanup(r) PROVE PublicationTypeOK'
  BY <1>11 DEF PublicationTypeOK, Cleanup, StepTo, Step
<1>12. ASSUME NEW r \in Runner, KillRunner(r) PROVE PublicationTypeOK'
  BY <1>12 DEF PublicationTypeOK, KillRunner, StepTo, Step, Outcome, disk
<1>13. ASSUME PowerLoss PROVE PublicationTypeOK'
  BY <1>13 DEF PublicationTypeOK, PowerLoss, Step
<1>14. ASSUME UNCHANGED publication_vars PROVE PublicationTypeOK'
  BY <1>14 DEF PublicationTypeOK, publication_vars, disk
<1> QED
  BY <1>1, <1>2, <1>3, <1>4, <1>5, <1>6, <1>7, <1>8, <1>9, <1>10, <1>11, <1>12, <1>13,
     <1>14 DEF PublicationNext, Run

\* A single runner keeps its own pending file, and what it may publish, whole.
LEMMA FilesAreInductive ==
    ASSUME NEW r, Runner = {r}, PublicationInvariant, [PublicationNext]_publication_vars
    PROVE  DurableIsComplete' /\ PendingIsOwn(r)' /\ ValidatedIsComplete(r)'
<1> USE NoneAssumption DEF PublicationInvariant, DurableIsComplete, PendingIsOwn,
          ValidatedIsComplete
<1>1. PublicationTypeOK /\ PublicationInvariant /\ r \in Runner
  BY DEF PublicationInvariant
<1>2. CASE StartRunner(r)
  BY <1>1, <1>2 DEF PublicationTypeOK, StartRunner, StepTo
<1>3. CASE CreatePending(r)
  BY <1>1, <1>3 DEF PublicationTypeOK, CreatePending, InUse
<1>4. CASE CommandSucceeds(r)
  BY <1>1, <1>4 DEF PublicationTypeOK, CommandSucceeds, StepTo
<1>5. CASE CommandFails(r)
  BY <1>1, <1>5 DEF PublicationTypeOK, CommandFails, Leave, StepTo, disk
<1>6. CASE Validate(r)
  BY <1>1, <1>6 DEF PublicationTypeOK, Validate, Validates, Leave, StepTo, disk
<1>7. CASE SynchronizeFile(r)
  BY <1>1, <1>7 DEF PublicationTypeOK, SynchronizeFile, StepTo
<1>8. CASE ReplaceOutput(r)
  BY <1>1, <1>8 DEF PublicationTypeOK, ReplaceOutput, StepTo
<1>9. CASE SynchronizeDirectory(r)
  BY <1>1, <1>9 DEF PublicationTypeOK, SynchronizeDirectory, Leave, StepTo
<1>10. CASE StepFails(r)
  BY <1>1, <1>10 DEF PublicationTypeOK, StepFails, Leave, StepTo, disk
<1>11. CASE Interrupt(r)
  BY <1>1, <1>11 DEF PublicationTypeOK, Interrupt, Leave, StepTo, disk
<1>12. CASE Cleanup(r)
  BY <1>1, <1>12 DEF PublicationTypeOK, Cleanup, StepTo
<1>13. CASE KillRunner(r)
  BY <1>1, <1>13 DEF PublicationTypeOK, KillRunner, StepTo, disk
<1>14. CASE PowerLoss
  BY <1>1, <1>14 DEF PublicationTypeOK, PowerLoss
<1>15. CASE UNCHANGED publication_vars
  BY <1>1, <1>15 DEF publication_vars, disk
<1> QED
  BY <1>2, <1>3, <1>4, <1>5, <1>6, <1>7, <1>8, <1>9, <1>10, <1>11, <1>12, <1>13, <1>14,
     <1>15 DEF PublicationNext, Run

\* A single runner's outcome says what became of the executable.
LEMMA OutcomeIsInductive ==
    ASSUME NEW r, Runner = {r}, PublicationInvariant, [PublicationNext]_publication_vars
    PROVE  OutcomeIsEarned(r)'
<1> USE NoneAssumption DEF PublicationInvariant, PendingIsOwn, ValidatedIsComplete,
          OutcomeIsEarned, Outcome
<1>1. PublicationTypeOK /\ PublicationInvariant /\ r \in Runner
  BY DEF PublicationInvariant
<1>2. CASE StartRunner(r)
  BY <1>1, <1>2 DEF PublicationTypeOK, StartRunner, StepTo
<1>3. CASE CreatePending(r)
  BY <1>1, <1>3 DEF PublicationTypeOK, CreatePending, InUse
<1>4. CASE CommandSucceeds(r)
  BY <1>1, <1>4 DEF PublicationTypeOK, CommandSucceeds, StepTo
<1>5. CASE CommandFails(r)
  BY <1>1, <1>5 DEF PublicationTypeOK, CommandFails, Leave, StepTo, disk
<1>6. CASE Validate(r)
  BY <1>1, <1>6 DEF PublicationTypeOK, Validate, Validates, Leave, StepTo, disk
<1>7. CASE SynchronizeFile(r)
  BY <1>1, <1>7 DEF PublicationTypeOK, SynchronizeFile, StepTo
<1>8. CASE ReplaceOutput(r)
  BY <1>1, <1>8 DEF PublicationTypeOK, ReplaceOutput, StepTo, DurableIsComplete
<1>9. CASE SynchronizeDirectory(r)
  BY <1>1, <1>9 DEF PublicationTypeOK, SynchronizeDirectory, Leave, StepTo
<1>10. CASE StepFails(r)
  BY <1>1, <1>10 DEF PublicationTypeOK, StepFails, Leave, StepTo, disk
<1>11. CASE Interrupt(r)
  BY <1>1, <1>11 DEF PublicationTypeOK, Interrupt, Leave, StepTo, disk
<1>12. CASE Cleanup(r)
  BY <1>1, <1>12 DEF PublicationTypeOK, Cleanup, StepTo
<1>13. CASE KillRunner(r)
  BY <1>1, <1>13 DEF PublicationTypeOK, KillRunner, StepTo, disk
<1>14. CASE PowerLoss
  BY <1>1, <1>14 DEF PublicationTypeOK, PowerLoss
<1>15. CASE UNCHANGED publication_vars
  BY <1>1, <1>15 DEF publication_vars, disk
<1> QED
  BY <1>2, <1>3, <1>4, <1>5, <1>6, <1>7, <1>8, <1>9, <1>10, <1>11, <1>12, <1>13, <1>14,
     <1>15 DEF PublicationNext, Run

\* An executable of an earlier build satisfies the invariant.
LEMMA InitIsInductive == PublicationInit => PublicationInvariant
  BY NoneAssumption DEF PublicationInit, PublicationTypeOK, PublicationInvariant,
     DurableIsComplete, PendingIsOwn, ValidatedIsComplete, OutcomeIsEarned,
     ExecutableContent, Step, Outcome

\* A single runner's states all satisfy the invariant: durable entries are whole, the
\* pending file is the run's own, and until its rename a run leaves the executable alone.
THEOREM PublicationIsInvariant ==
    ASSUME NEW r, Runner = {r}
    PROVE  PublicationSpec => []PublicationInvariant
<1>1. PublicationInvariant /\ [PublicationNext]_publication_vars => PublicationInvariant'
  BY TypeIsInductive, FilesAreInductive, OutcomeIsInductive DEF PublicationInvariant
<1> QED
  BY InitIsInductive, <1>1, PTL DEF PublicationSpec

\* The published executable is always a whole one when no two runs of an output
\* overlap, whatever call fails, wherever a run is interrupted or killed, and wherever
\* power is lost: lines 69-85 of run_verilator_build.py.
THEOREM OneRunnerPublishesComplete ==
    ASSUME NEW r, Runner = {r}
    PROVE  PublicationSpec => []OutputIsComplete
<1>1. PublicationInvariant => OutputIsComplete
  BY DEF PublicationInvariant, DurableIsComplete, OutputIsComplete
<1> QED
  BY PublicationIsInvariant, <1>1, PTL

\* Exit status zero means that the new executable survives any later power loss:
\* lines 78-80 and 87 of run_verilator_build.py.
THEOREM OneRunnerSucceedsDurably ==
    ASSUME NEW r, Runner = {r}
    PROVE  PublicationSpec => []SuccessIsDurable
<1>1. PublicationInvariant => SuccessIsDurable
  BY DEF PublicationInvariant, OutcomeIsEarned, SuccessIsDurable
<1> QED
  BY PublicationIsInvariant, <1>1, PTL

\* An error or interrupt up to the rename leaves the previous executable and nothing a
\* power loss could bring in its place, one after it a whole and synchronized new one:
\* lines 74-83 of run_verilator_build.py.
THEOREM OneRunnerFailsSafely ==
    ASSUME NEW r, Runner = {r}
    PROVE  PublicationSpec => FailureKeepsOutput
<1>1. ASSUME PublicationInvariant, PublicationNext PROVE StopsSafely
  <2> USE NoneAssumption DEF StopsSafely, Stopped, Outcome
  <2>1. /\ PublicationTypeOK /\ DurableIsComplete /\ OutcomeIsEarned(r)
        /\ r \in Runner /\ PublicationInvariant
    BY <1>1 DEF PublicationInvariant
  <2>2. CASE PowerLoss
    BY <2>1, <2>2 DEF PowerLoss
  <2>3. CASE CommandFails(r) \/ StepFails(r) \/ Interrupt(r) \/ KillRunner(r) \/ Validate(r)
    <3>1. disk' = disk /\ pc[r] # "IDLE"
      BY <2>3 DEF CommandFails, StepFails, Interrupt, KillRunner, Validate
    <3>2. pc[r] \in {"BUILD", "VALIDATE", "SYNCHRONIZE", "REPLACE", "SYNCHRONIZE_DIRECTORY",
                     "CLEANUP"}
      BY <2>1, <3>1 DEF PublicationTypeOK, Step
    <3>3. CASE pc[r] = "CLEANUP"
      BY <2>1, <3>3 DEF OutcomeIsEarned
    <3>4. CASE pc[r] = "SYNCHRONIZE_DIRECTORY"
      BY <2>1, <3>1, <3>4 DEF disk, OutcomeIsEarned, DurableIsComplete
    <3>5. CASE pc[r] \in {"BUILD", "VALIDATE", "SYNCHRONIZE", "REPLACE"}
      BY <2>1, <3>1, <3>5 DEF disk, OutcomeIsEarned
    <3> QED BY <3>2, <3>3, <3>4, <3>5
  <2>4. CASE \/ CreatePending(r) \/ CommandSucceeds(r) \/ SynchronizeFile(r)
            \/ ReplaceOutput(r) \/ Cleanup(r)
    BY <2>4 DEF CreatePending, CommandSucceeds, SynchronizeFile, ReplaceOutput, Cleanup
  <2>5. CASE StartRunner(r) \/ SynchronizeDirectory(r)
    BY <2>1, <2>5 DEF PublicationTypeOK, StartRunner, SynchronizeDirectory, Leave
  <2> QED BY <1>1, <2>2, <2>3, <2>4, <2>5 DEF PublicationNext, Run
<1>2. PublicationInvariant /\ [PublicationNext]_publication_vars
          => [StopsSafely]_publication_vars
  BY <1>1
<1>3. PublicationSpec => []PublicationInvariant
  BY PublicationIsInvariant
<1> QED
  BY <1>2, <1>3, PTL DEF PublicationSpec, FailureKeepsOutput
=============================================================================
