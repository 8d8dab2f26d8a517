---------------------------- MODULE PhysicalAudit ---------------------------
(***************************************************************************)
(* asic/physical/check_logs.py: the audit of what a place-and-route flow   *)
(* has left behind.  Evidence is what the audit sees of the log and report *)
(* directories: the logs that hold a diagnostic, the report families, the  *)
(* pairs of the final metrics file and the lines of the final report.      *)
(***************************************************************************)
EXTENDS Integers, Sequences

CONSTANTS
    RequiredEmptyReportFamilies,  \* reports that must exist and be empty
    RequiredZeroMetrics,
    RequiredNonnegativeMetrics,
    RequiredPositiveMetrics,
    FinalReportMetrics,           \* the metric each label of the final report repeats
    Missing                       \* a file that is not there

RequiredMetrics ==
    RequiredZeroMetrics \cup RequiredNonnegativeMetrics \cup RequiredPositiveMetrics

\* What a JSON value is to Python: a bool is an int, and NaN equals nothing.
Kind == {"number", "bool", "infinity", "nan", "other"}
PythonEqual(v, u) ==
    /\ "nan" \notin {v.kind, u.kind}
    /\ v.kind = u.kind \/ {v.kind, u.kind} = {"number", "bool"}
    /\ v.value = u.value

\* FINAL_REPORT_METRICS and REQUIRED_ZERO_METRICS, lines 16-33.
ASSUME RequirementAssumption ==
    /\ \A label \in DOMAIN FinalReportMetrics :
          FinalReportMetrics[label] \in RequiredZeroMetrics
    /\ RequiredMetrics # {}

\* The form of the evidence, whatever the flow has left: an empty report is "EMPTY".
Value == [kind : Kind, value : Int]
Report == [canonical : {Missing, "EMPTY", "FULL"}, shards : SUBSET {"EMPTY", "FULL"}]
MetricsFile == [readable : BOOLEAN, pairs : Seq([key : STRING, value : Value])]
FinalReport == [worst_slack : Seq(Value), counts : [DOMAIN FinalReportMetrics -> Seq(Int)]]
EvidenceForm ==
    [diagnosed_logs : SUBSET STRING, reports : [RequiredEmptyReportFamilies -> Report],
     metrics : MetricsFile \cup {Missing}, final_report : FinalReport \cup {Missing}]

-----------------------------------------------------------------------------
(* The audit.                                                              *)

\* report_failures, lines 51-65: a family is its canonical report and its shards, each
\* of them empty or not.
ReportsPass(reports) ==
    \A family \in RequiredEmptyReportFamilies :
        /\ reports[family].canonical # Missing
        /\ {reports[family].canonical} \cup reports[family].shards = {"EMPTY"}

\* Defect: the last of several values counts.
CoalesceLast(pairs) == TRUE

\* _coalesce_identical_json_keys, lines 68-77, raises on a required key whose value is
\* not the one before.
Coalesces(pairs) ==
    \A i, j \in DOMAIN pairs :
        i < j /\ pairs[i].key = pairs[j].key /\ pairs[i].key \in RequiredMetrics
        => PythonEqual(pairs[i].value, pairs[j].value)

\* The value of a key is the last one the file gives; lines 96-105 and _finite_number,
\* lines 80-90: a metrics file that fails to load has none, as has one without the key
\* or with something that is no finite number.
FiniteNumbers(metrics) ==
    IF metrics = Missing \/ ~metrics.readable \/ ~Coalesces(metrics.pairs) THEN {}
    ELSE LET pairs == metrics.pairs
             last == {i \in DOMAIN pairs :
                          \A j \in DOMAIN pairs : pairs[j].key = pairs[i].key => j <= i}
         IN  {<<pairs[i].key, pairs[i].value.value>> :
                  i \in {n \in last : pairs[n].value.kind = "number"}}

\* Lines 107-123.
MetricsPass(values) ==
    /\ \A key \in RequiredMetrics : \E v \in values : v[1] = key
    /\ \A v \in values : /\ v[1] \in RequiredZeroMetrics => v[2] = 0
                         /\ v[1] \in RequiredNonnegativeMetrics => v[2] >= 0
                         /\ v[1] \in RequiredPositiveMetrics => v[2] > 0

\* Lines 125-155: the final report gives the worst slack once, and each count once, zero
\* and equal to its metric.
FinalReportPasses(report, values) ==
    /\ report # Missing
    /\ Len(report.worst_slack) = 1
    /\ report.worst_slack[1].kind = "number" /\ report.worst_slack[1].value >= 0
    /\ \A label \in DOMAIN FinalReportMetrics :
          LET counts == report.counts[label]
          IN  /\ Len(counts) = 1
              /\ counts[1] = 0
              /\ \A v \in values : v[1] = FinalReportMetrics[label] => v[2] = counts[1]

\* main, lines 158-181; reported_diagnostics, lines 38-48, finds the logs that hold a
\* diagnostic.
AuditPasses(evidence) ==
    /\ evidence # Missing
    /\ evidence.diagnosed_logs = {}
    /\ ReportsPass(evidence.reports)
    /\ MetricsPass(FiniteNumbers(evidence.metrics))
    /\ FinalReportPasses(evidence.final_report, FiniteNumbers(evidence.metrics))

-----------------------------------------------------------------------------
(* What the audit is for.                                                  *)

\* Every value the file gives for a key, whichever of them a reader takes.
Values(evidence, key) ==
    {evidence.metrics.pairs[i].value : i \in {n \in DOMAIN evidence.metrics.pairs :
                                                 evidence.metrics.pairs[n].key = key}}

\* No part of the evidence is missing, non-finite or at odds with another, stale shards
\* and overridden values included; true and false count as the 1 and 0 that Python
\* takes them for.
Consistent(evidence) ==
    /\ evidence # Missing
    /\ evidence.diagnosed_logs = {}
    /\ \A family \in RequiredEmptyReportFamilies :
          LET r == evidence.reports[family]
          IN  r.canonical = "EMPTY" /\ "FULL" \notin r.shards
    /\ evidence.metrics # Missing /\ evidence.metrics.readable
    /\ evidence.final_report # Missing
    /\ \A key \in RequiredMetrics :
          LET values == Values(evidence, key)
          IN  /\ \E v \in values : v.kind = "number"
              /\ \A v \in values :
                    /\ v.kind \in {"number", "bool"}
                    /\ key \in RequiredZeroMetrics => v.value = 0
                    /\ key \in RequiredNonnegativeMetrics => v.value >= 0
                    /\ key \in RequiredPositiveMetrics => v.value > 0
              /\ \A v, u \in values : v.value = u.value
    /\ \A label \in DOMAIN FinalReportMetrics :
          /\ Len(evidence.final_report.counts[label]) = 1
          /\ \A v \in Values(evidence, FinalReportMetrics[label]) :
                v.value = evidence.final_report.counts[label][1]
    /\ Len(evidence.final_report.worst_slack) = 1
    /\ evidence.final_report.worst_slack[1].kind = "number"
    /\ evidence.final_report.worst_slack[1].value >= 0

\* "Missing, malformed, non-finite, conflicting duplicate, or contradictory required
\* evidence is fatal" (asic/physical/README.md): nor is any value of a required metric
\* something else than a number, as _finite_number demands of the one it looks at.
Clean(evidence) ==
    /\ Consistent(evidence)
    /\ \A key \in RequiredMetrics : \A v \in Values(evidence, key) : v.kind = "number"
=============================================================================
