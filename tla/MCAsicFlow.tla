----------------------------- MODULE MCAsicFlow -----------------------------
(***************************************************************************)
(* A design of one source and its reference, two images, and two makes     *)
(* with an edit under each.                                                *)
(***************************************************************************)
EXTENDS AsicFlow

CONSTANTS a, b, m, c1, c2, i1, i2, MaxMakes

VARIABLE makes  \* makes started

MCFile == {a, b, m}
MCContent == {c1, c2}
Source(file) == [portable |-> TRUE, file |-> file]
Foreign == [portable |-> FALSE, file |-> b]
MCLine == {Source(a), Source(b), Source(Missing), Foreign}
MCManifest == {<<>>, <<Source(a)>>, <<Source(b)>>, <<Source(b), Source(a)>>,
               <<Source(b), Source(b)>>, <<Foreign>>, <<Source(Missing)>>}

Locked(image) ==
    [readable |-> TRUE, described |-> TRUE, immutable |-> TRUE, image |-> image]
MCLock == {Locked(i1), Locked(i2), [Locked(i2) EXCEPT !.immutable = FALSE],
           [Locked(i1) EXCEPT !.described = FALSE], [Locked(i1) EXCEPT !.readable = FALSE]}

\* The second image holds a technology file that is not the expected one.
MCTechnology(image) ==
    [dbu |-> "0.0005", reader_dbu |-> IF image = i1 THEN "0.0001" ELSE "0.0005"]

Base == [content |-> [f \in File |-> c1], candidate |-> <<Source(b)>>,
         reference |-> <<Source(a)>>, lock |-> Locked(i1), real_build |-> TRUE]

\* What one edit makes of it.
MCTree ==
    {Base}
    \cup {[Base EXCEPT !.content[f] = c] : f \in File, c \in {c2, Missing}}
    \cup {[Base EXCEPT !.candidate = lines] : lines \in Manifest \ {<<Source(a)>>}}
    \cup {[Base EXCEPT !.reference = <<Foreign>>]}
    \cup {[Base EXCEPT !.lock = l] : l \in Lock}

\* Of the repository, place and route depends on the lock; its own inputs are Evidence.
Matters(edited) == target = "PHYSICAL" => edited = [Base EXCEPT !.lock = edited.lock]

-----------------------------------------------------------------------------
(* The evidence: any one part of it as odd as it may be, and the values of *)
(* one metric with the counts of the report that repeats it.               *)

MCFinalReportMetrics == [setup_count |-> "setup"]

Given(kind, value) == [kind |-> kind, value |-> value]
Several == {Given("number", v) : v \in -1 .. 1}
           \cup {Given("bool", 0), Given("nan", 0), Given("other", 0)}
UpToTwo == {<<>>} \cup (Several \X Several)
           \cup {<<v>> : v \in Several \cup {Given("bool", 1), Given("infinity", 1)}}

Good(key) == IF key = "fmax" THEN Given("number", 1) ELSE Given("number", 0)

\* The metrics file with these values for one key.
Metrics(key, values) ==
    [readable |-> TRUE,
     pairs |-> [i \in DOMAIN values |-> [key |-> key, value |-> values[i]]]
               \o [i \in 1 .. 3 |->
                     LET other == <<"setup", "ws", "fmax", "tns">>
                         rest == SelectSeq(other, LAMBDA k : k # key)
                     IN  [key |-> rest[i], value |-> Good(rest[i])]]]

Reported(slack, counts) == [worst_slack |-> slack, counts |-> [setup_count |-> counts]]

SoundEvidence ==
    [diagnosed_logs |-> {},
     reports |-> [family \in {"drc"} |-> [canonical |-> "EMPTY", shards |-> {"EMPTY"}]],
     metrics |-> Metrics("setup", <<Good("setup")>>),
     final_report |-> Reported(<<Given("number", 0)>>, <<0>>)]

MCEvidence ==
    {[SoundEvidence EXCEPT !.diagnosed_logs = logs] : logs \in {{}, {"route"}}}
    \cup {[SoundEvidence EXCEPT !.reports["drc"] = r] :
              r \in Report}
    \cup {[SoundEvidence EXCEPT !.metrics = metrics] :
              metrics \in {Missing, [readable |-> FALSE, pairs |-> <<>>]}
                     \cup {Metrics(key, values) : key \in {"tns", "ws", "fmax"},
                                                  values \in UpToTwo}}
    \cup {[SoundEvidence EXCEPT !.metrics = Metrics("setup", values),
                                !.final_report = Reported(<<Given("number", 0)>>, counts)] :
              values \in UpToTwo, counts \in {<<>>, <<0>>, <<1>>, <<0, 0>>}}
    \cup {[SoundEvidence EXCEPT !.final_report = Reported(slack, <<0>>)] :
              slack \in UpToTwo}
    \cup {Missing, [SoundEvidence EXCEPT !.final_report = Missing]}

-----------------------------------------------------------------------------
MCInit == Init /\ tree \in {Base, [Base EXCEPT !.real_build = FALSE]} /\ makes = 0

\* The logs are odd in one respect.
OneOddity ==
    /\ files'["log"] # files["log"] =>
          files'["log"].warnings = 0 \/ files'["log"].abc_combinational = 1
    /\ files'["proof_log"] # files["proof_log"] =>
          files'["proof_log"].warnings = 0 \/ files'["proof_log"].success_markers = 1

\* Each make sees one edit, and MaxMakes of them run.
MCNext ==
    \/ /\ Next
       /\ tree' # tree => ~At("IDLE") /\ make.steady /\ tree' \in MCTree /\ Matters(tree')
       /\ OneOddity
       /\ IF At("IDLE") THEN makes < MaxMakes /\ makes' = makes + 1 ELSE UNCHANGED makes
    \/ makes = MaxMakes /\ At("IDLE") /\ UNCHANGED <<vars, makes>>

MCSpec == MCInit /\ [][MCNext]_<<vars, makes>>
=============================================================================
