------------------------------ MODULE AsicFlow ------------------------------
(***************************************************************************)
(* asic/Makefile and asic/physical/Makefile with the scripts their recipes *)
(* run: make reads the manifests, the container runs a tool, scripts judge *)
(* the files it leaves and write the records of what passed.  The sources, *)
(* the manifests and the tool lock may be edited while a recipe runs; make *)
(* may be killed; a failed or killed recipe leaves its files to the next.  *)
(* One make at a time works in a build directory.                          *)
(*                                                                         *)
(* A hash is modelled by the contents it is of.                            *)
(***************************************************************************)
EXTENDS PhysicalAudit

CONSTANTS
    File,         \* source files of the repository, and the miter
    Miter,        \* the miter of the equivalence proof
    Content,      \* what a source file may hold
    Line,         \* source lines a manifest may have
    Manifest,     \* sequences of lines a manifest may be
    Lock,         \* contents the tool lock may have
    Image,        \* container images
    Technology(_),\* the database units of the KLayout technology file in an image
    Count,        \* warnings, markers and cells a tool may leave
    MinimumCells, \* sequential cells a sequential target must retain
    Evidence,     \* what a place-and-route flow may leave
    Torn          \* a file whose writing was interrupted

Target == {"SEQUENTIAL", "COMBINATIONAL", "PHYSICAL"}

ASSUME FileAssumption == Miter \in File /\ Missing \notin Content
ASSUME LineAssumption == Line \subseteq [portable : BOOLEAN, file : File \cup {Missing}]
ASSUME ManifestAssumption == \A m \in Manifest : m \in Seq(Line)
ASSUME CountAssumption == Count \subseteq Nat /\ MinimumCells \in Nat \ {0}
\* A lock that can be read names an image.
ASSUME LockAssumption == \A lock \in Lock : lock.readable => lock.image \in Image
ASSUME EvidenceAssumption == Evidence \subseteq EvidenceForm \cup {Missing}
ASSUME MissingAssumption == Missing \notin {"PASSED", "FAILED", "KILLED"}

VARIABLES
    target,   \* what this build directory is for
    tree,     \* what is edited: sources, manifests, tool lock, the build directory's kind
    make,     \* the recipe under way
    files,    \* the files of the build directory
    outcome   \* how the last make ended

vars == <<target, tree, make, files, outcome>>

Idle == [step |-> "IDLE", proof |-> FALSE, steady |-> TRUE, candidate |-> <<>>,
         reference |-> <<>>, summary |-> Missing]

At(step) == make.step = step
Goto(step) == make' = [make EXCEPT !.step = step] /\ UNCHANGED outcome
End(how) == make' = Idle /\ outcome' = how
Proceed(ok, step) == IF ok THEN Goto(step) ELSE End("FAILED")
Write(file, contents) == files' = [files EXCEPT ![file] = contents]

-----------------------------------------------------------------------------
(* The scripts.                                                            *)

\* validated_source_names, lines 25-66: a portable name resolves to a file of the
\* repository that is there.  Comments and blank lines are left out.
SourceAccepted(line) ==
    line.portable /\ line.file # Missing /\ tree.content[line.file] # Missing

ManifestValid(lines) ==
    /\ lines # <<>>
    /\ \A i \in DOMAIN lines : SourceAccepted(lines[i])
    /\ \A i, j \in DOMAIN lines : i # j => lines[i].file # lines[j].file

\* What --print-sources prints: on an error nothing, and make does not see the error.
SourceNames(lines) ==
    IF ManifestValid(lines) THEN [i \in DOMAIN lines |-> lines[i].file] ELSE <<>>

\* hash_file of each source: its contents now.
Contents(sources) == [i \in DOMAIN sources |-> <<sources[i], tree.content[sources[i]]>>]

\* locked_image, lines 19-46: the lock has exactly the supported schema and metadata and
\* names an image by its digest.
LockedImage(lock) == lock.readable /\ lock.described /\ lock.immutable

\* run_asic_container.py, lines 49-94: the locked image runs in a real build directory.
ContainerRuns == LockedImage(tree.lock) /\ tree.real_build

\* Defect: any number of classified diagnostics is let through.
LogAcceptedAnyClassified(log, allow_one) == log.warnings = 0

\* check_yosys_log.py, lines 21-47: no warning but the classified one, which is either
\* not looked for or there exactly once.
LogAccepted(log, allow_one) ==
    log.warnings = 0 /\ log.abc_combinational = IF allow_one THEN 1 ELSE 0

\* check_yosys_sequential.py, lines 23-63: the statistics are of the top module.
StateRetained(stat) == stat.cells # Missing /\ stat.cells >= MinimumCells

-----------------------------------------------------------------------------
(* make and the edits beside it.                                           *)

NoFiles == [f \in {"log", "stat", "netlist", "qor", "proof_log", "equivalence",
                   "technology", "evidence"} |-> Missing]

Init ==
    /\ target \in Target
    /\ tree \in [content : [File -> Content], candidate : Manifest, reference : Manifest,
                 lock : Lock, real_build : BOOLEAN]
    /\ make = Idle
    /\ files = NoFiles
    /\ outcome = Missing

\* A file, a manifest or the lock is edited, under a running recipe too.
Edit ==
    /\ \/ \E f \in File, c \in Content \cup {Missing} :
             tree' = [tree EXCEPT !.content[f] = c]
       \/ \E m \in Manifest : \/ tree' = [tree EXCEPT !.candidate = m]
                              \/ tree' = [tree EXCEPT !.reference = m]
       \/ \E l \in Lock : tree' = [tree EXCEPT !.lock = l]
    /\ tree' # tree
    /\ make' = [make EXCEPT !.steady = At("IDLE")]
    /\ UNCHANGED <<target, files, outcome>>

\* Defect: the equivalence target does not depend on the synthesis.
StartProofAlone ==
    /\ At("IDLE")
    /\ \E proof \in (IF target = "COMBINATIONAL" THEN BOOLEAN ELSE {FALSE}) :
          make' = [Idle EXCEPT !.step = IF target = "PHYSICAL" THEN "PREPARE"
                                        ELSE IF proof /\ files["netlist"] # Missing
                                        THEN "PROVE" ELSE "MANIFESTS",
                               !.proof = proof,
                               !.candidate = SourceNames(tree.candidate),
                               !.reference = SourceNames(tree.reference)]
    /\ outcome' = Missing
    /\ UNCHANGED <<target, tree, files>>

\* make expands the source lists before it runs a recipe (asic/Makefile, line 9).
Start ==
    /\ At("IDLE")
    /\ \E proof \in (IF target = "COMBINATIONAL" THEN BOOLEAN ELSE {FALSE}) :
          make' = [Idle EXCEPT !.step = IF target = "PHYSICAL" THEN "PREPARE"
                                                               ELSE "MANIFESTS",
                               !.proof = proof,
                               !.candidate = SourceNames(tree.candidate),
                               !.reference = SourceNames(tree.reference)]
    /\ outcome' = Missing
    /\ UNCHANGED <<target, tree, files>>

\* manifest-check, asic/Makefile lines 49-57.
CheckManifests ==
    /\ At("MANIFESTS")
    /\ Proceed(ManifestValid(tree.candidate) /\ ManifestValid(tree.reference), "SYNTHESIZE")
    /\ UNCHANGED <<target, tree, files>>

\* make is interrupted, and what it runs with it.
Kill ==
    /\ ~At("IDLE")
    /\ End("KILLED")
    /\ UNCHANGED <<target, tree, files>>

-----------------------------------------------------------------------------
(* Synthesis and its record.                                               *)

\* What a run of Yosys is about: the files it reads and the image it is part of.
Build(sources) == [sources |-> Contents(sources), image |-> tree.lock.image]

Readable(sources) == sources # <<>> /\ \A i \in DOMAIN sources :
                                           tree.content[sources[i]] # Missing

\* Yosys reads the sources into a new log.
Synthesize ==
    /\ At("SYNTHESIZE")
    /\ IF ContainerRuns /\ Readable(make.candidate)
       THEN /\ \E w, n \in Count : Write("log", [build |-> Build(make.candidate),
                                                 warnings |-> w, abc_combinational |-> n])
            /\ Goto("STATISTICS")
       ELSE End("FAILED") /\ UNCHANGED files
    /\ UNCHANGED <<target, tree>>

Statistics ==
    /\ At("STATISTICS")
    /\ \E n \in Count \cup {Missing} :
          Write("stat", [build |-> files["log"].build, cells |-> n])
    /\ Goto("NETLIST")
    /\ UNCHANGED <<target, tree>>

WriteNetlist ==
    /\ At("NETLIST")
    /\ Write("netlist", files["log"].build)
    /\ Goto(IF target = "SEQUENTIAL" THEN "SEQUENTIAL" ELSE "WARNINGS")
    /\ UNCHANGED <<target, tree>>

\* A tool stops with an error; what it has not written yet is what an earlier run left.
ToolFails ==
    /\ make.step \in {"SYNTHESIZE", "STATISTICS", "NETLIST", "PROVE"}
    /\ End("FAILED")
    /\ \/ UNCHANGED files
       \/ At("NETLIST") /\ Write("netlist", Torn)
       \/ At("STATISTICS") /\ Write("stat", Torn)
    /\ UNCHANGED <<target, tree>>

CheckSequential ==
    /\ At("SEQUENTIAL")
    /\ Proceed(StateRetained(files["stat"]), "WARNINGS")
    /\ UNCHANGED <<target, tree, files>>

CheckWarnings ==
    /\ At("WARNINGS")
    /\ Proceed(LogAccepted(files["log"], TRUE), "QOR")
    /\ UNCHANGED <<target, tree, files>>

\* A record is opened for writing, which empties it, and then written.
OpenRecord(file, ok, summary, step) ==
    IF ok
    THEN /\ Write(file, Torn)
         /\ make' = [make EXCEPT !.step = step, !.summary = summary]
         /\ UNCHANGED outcome
    ELSE End("FAILED") /\ UNCHANGED files

\* Defect: the manifest is not validated again.
SummarizeQorUnvalidated ==
    /\ At("QOR")
    /\ OpenRecord("qor",
           files["stat"].cells # Missing /\ tree.lock.readable,
           [steady |-> make.steady, image |-> tree.lock.image, manifest |-> tree.candidate,
            sources |-> Contents(SourceNames(tree.candidate)),
            netlist |-> files["netlist"], stat |-> files["stat"], log |-> files["log"]],
           "QOR_WRITE")
    /\ UNCHANGED <<target, tree>>

\* summarize_yosys_stat.py, lines 42-80: the hashes are of what the tree and the build
\* directory hold now.
SummarizeQor ==
    /\ At("QOR")
    /\ OpenRecord("qor",
           /\ files["stat"].cells # Missing
           /\ tree.lock.readable /\ ManifestValid(tree.candidate),
           [steady |-> make.steady, image |-> tree.lock.image, manifest |-> tree.candidate,
            sources |-> Contents(SourceNames(tree.candidate)),
            netlist |-> files["netlist"], stat |-> files["stat"], log |-> files["log"]],
           "QOR_WRITE")
    /\ UNCHANGED <<target, tree>>

\* Defect: an error of the write is not seen.
WriteQorUnchecked ==
    /\ At("QOR_WRITE")
    /\ Write("qor", make.summary) \/ UNCHANGED files
    /\ IF make.proof THEN Goto("PROVE") ELSE End("PASSED")
    /\ UNCHANGED <<target, tree>>

WriteQor ==
    /\ At("QOR_WRITE")
    /\ Write("qor", make.summary)
    /\ IF make.proof THEN Goto("PROVE") ELSE End("PASSED")
    /\ UNCHANGED <<target, tree>>

-----------------------------------------------------------------------------
(* The equivalence proof and its record.                                   *)

\* The proof reads the reference's sources, the miter and the candidate's netlist.
Prove ==
    /\ At("PROVE")
    /\ IF ContainerRuns /\ Readable(make.reference) /\ tree.content[Miter] # Missing
       THEN /\ \E w, n \in Count :
                  Write("proof_log", [build |-> Build(make.reference),
                                      miter |-> tree.content[Miter],
                                      netlist |-> files["netlist"], warnings |-> w,
                                      abc_combinational |-> 0, success_markers |-> n])
            /\ Goto("PROOF_WARNINGS")
       ELSE End("FAILED") /\ UNCHANGED files
    /\ UNCHANGED <<target, tree>>

CheckProofWarnings ==
    /\ At("PROOF_WARNINGS")
    /\ Proceed(LogAccepted(files["proof_log"], FALSE), "EQUIVALENCE")
    /\ UNCHANGED <<target, tree, files>>

\* summarize_yosys_equivalence.py, lines 36-74.
SummarizeEquivalence ==
    /\ At("EQUIVALENCE")
    /\ OpenRecord("equivalence",
           /\ files["proof_log"].success_markers = 1
           /\ tree.lock.readable
           /\ ManifestValid(tree.candidate) /\ ManifestValid(tree.reference)
           /\ tree.content[Miter] # Missing,
           [steady |-> make.steady, image |-> tree.lock.image,
            candidate |-> Contents(SourceNames(tree.candidate)),
            reference |-> Contents(SourceNames(tree.reference)),
            miter |-> tree.content[Miter], netlist |-> files["netlist"],
            proof_log |-> files["proof_log"]],
           "EQUIVALENCE_WRITE")
    /\ UNCHANGED <<target, tree>>

WriteEquivalence ==
    /\ At("EQUIVALENCE_WRITE")
    /\ Write("equivalence", make.summary)
    /\ End("PASSED")
    /\ UNCHANGED <<target, tree>>

-----------------------------------------------------------------------------
(* Place and route, and its audit.                                         *)

\* Defect: the technology is written in place.
PrepareInPlace ==
    /\ At("PREPARE")
    /\ LET pinned == Technology(tree.lock.image)
       IN  IF ContainerRuns /\ pinned.dbu = "0.0005" /\ pinned.reader_dbu = "0.0001"
           THEN /\ make' = [make EXCEPT !.step = "REPLACE",
                                        !.summary = [pinned EXCEPT !.reader_dbu = "0.0005"]]
                /\ Write("technology", Torn)
                /\ UNCHANGED outcome
           ELSE End("FAILED") /\ UNCHANGED files
    /\ UNCHANGED <<target, tree>>

\* prepare_klayout_technology.py, lines 24-41: the pinned file is checked and a corrected
\* one is written under a temporary name.
Prepare ==
    /\ At("PREPARE")
    /\ LET pinned == Technology(tree.lock.image)
       IN  IF ContainerRuns /\ pinned.dbu = "0.0005" /\ pinned.reader_dbu = "0.0001"
           THEN /\ make' = [make EXCEPT !.step = "REPLACE",
                                        !.summary = [pinned EXCEPT !.reader_dbu = "0.0005"]]
                /\ UNCHANGED outcome
           ELSE End("FAILED")
    /\ UNCHANGED <<target, tree, files>>

\* Lines 42-46: the temporary file takes the destination's name, or is removed.
Replace ==
    /\ At("REPLACE")
    /\ \/ Write("technology", make.summary) /\ Goto("FLOW")
       \/ End("FAILED") /\ UNCHANGED files
    /\ UNCHANGED <<target, tree>>

\* The flow, which does again only the stages that are out of date, leaves new evidence
\* among old, whether it ends well or not.
PlaceAndRoute ==
    /\ At("FLOW")
    /\ IF ContainerRuns
       THEN /\ \E e \in Evidence : Write("evidence", e)
            /\ Goto("AUDIT") \/ End("FAILED")
       ELSE End("FAILED") /\ UNCHANGED files
    /\ UNCHANGED <<target, tree>>

Audit ==
    /\ At("AUDIT")
    /\ End(IF AuditPasses(files["evidence"]) THEN "PASSED" ELSE "FAILED")
    /\ UNCHANGED <<target, tree, files>>

-----------------------------------------------------------------------------
Next ==
    \/ Edit \/ Start \/ Kill \/ ToolFails
    \/ CheckManifests \/ Synthesize \/ Statistics \/ WriteNetlist
    \/ CheckSequential \/ CheckWarnings \/ SummarizeQor \/ WriteQor
    \/ Prove \/ CheckProofWarnings \/ SummarizeEquivalence \/ WriteEquivalence
    \/ Prepare \/ Replace \/ PlaceAndRoute \/ Audit

Spec == Init /\ [][Next]_vars

-----------------------------------------------------------------------------
(* Correctness.                                                            *)

BuildRecord == [sources : Seq(File \X Content) \ {<<>>}, image : Image]
Stat == [build : BuildRecord, cells : Count \cup {Missing}]
Log == [build : BuildRecord, warnings : Count, abc_combinational : Count]
ProofLog == [build : BuildRecord, miter : Content, netlist : BuildRecord, warnings : Count,
             abc_combinational : {0}, success_markers : Count]
Qor == [steady : BOOLEAN, image : Image, manifest : Manifest,
        sources : Seq(File \X Content) \ {<<>>}, netlist : BuildRecord, stat : Stat,
        log : Log]
Equivalence == [steady : BOOLEAN, image : Image, candidate : Seq(File \X Content) \ {<<>>},
                reference : Seq(File \X Content) \ {<<>>}, miter : Content,
                netlist : BuildRecord, proof_log : ProofLog]
Units == [dbu : STRING \cup {Missing}, reader_dbu : STRING \cup {Missing}]

\* A file that is not there, or not whole, is none of these.
ASSUME MarkAssumption ==
    \A mark \in {Missing, Torn} : mark \notin Qor /\ mark \notin Equivalence /\ mark \notin Units
ASSUME TechnologyAssumption == \A image \in Image : Technology(image) \in Units

\* The files keep their form: a record never names a source that is not there, and never
\* none.
TypeOK ==
    /\ target \in Target
    /\ outcome \in {Missing, "PASSED", "FAILED", "KILLED"}
    /\ files["log"] \in Log \cup {Missing}
    /\ files["stat"] \in Stat \cup {Missing, Torn}
    /\ files["netlist"] \in BuildRecord \cup {Missing, Torn}
    /\ files["qor"] \in Qor \cup {Missing, Torn}
    /\ files["proof_log"] \in ProofLog \cup {Missing}
    /\ files["equivalence"] \in Equivalence \cup {Missing, Torn}
    /\ files["technology"] \in Units \cup {Missing, Torn}

Whole(file) == files[file] \notin {Missing, Torn}

\* The hashes of a record are those of the files on disk.
Current(record, outputs) ==
    Whole(record) /\ \A f \in outputs : files[record][f] = files[f]

QorCurrent == Current("qor", {"netlist", "stat", "log"})
EquivalenceCurrent == Current("equivalence", {"netlist", "proof_log"})

\* What failed, killed and interrupted runs leave behind never passes for the work of the
\* run a record is of: when a record's hashes are those of the files on disk, these come
\* of one run of Yosys, and passed every gate.
CurrentRecordsPassed ==
    /\ QorCurrent =>
          /\ files["netlist"] = files["log"].build
          /\ files["stat"].build = files["log"].build
          /\ files["log"].warnings = 0 /\ files["log"].abc_combinational = 1
          /\ target = "SEQUENTIAL" => files["stat"].cells >= MinimumCells
    /\ EquivalenceCurrent =>
          /\ files["proof_log"].netlist = files["netlist"]
          /\ files["proof_log"].warnings = 0 /\ files["proof_log"].success_markers = 1

\* The sources, the miter and the image that a record names are those its outputs were
\* made from.
QorNamesInputs(r) == r.netlist = [sources |-> r.sources, image |-> r.image]
EquivalenceNamesInputs(r) ==
    /\ r.proof_log.build = [sources |-> r.reference, image |-> r.image]
    /\ r.proof_log.miter = r.miter
    /\ r.netlist = [sources |-> r.candidate, image |-> r.image]

\* They are read at the start of the recipe, by the tools and again for the record; they
\* agree if nothing was edited under the recipe, whatever other makes, and edits between
\* them, have left in the build directory.
SteadyRecordsAreReproducible ==
    /\ Whole("qor") /\ files["qor"].steady => QorNamesInputs(files["qor"])
    /\ Whole("equivalence") /\ files["equivalence"].steady =>
          EquivalenceNamesInputs(files["equivalence"])

\* A make that passes leaves whole records of the files on disk, whatever it found there.
PassedIsRecorded ==
    [][outcome' = "PASSED" /\ outcome # "PASSED" /\ target # "PHYSICAL" =>
           QorCurrent' /\ (make.proof => EquivalenceCurrent')]_vars

\* A flow that passes leaves evidence without a part that is missing, non-finite or at
\* odds with another, the parts that an earlier flow has left and this one has not done
\* again included.
AuditedEvidenceIsConsistent ==
    target = "PHYSICAL" /\ outcome = "PASSED" => Consistent(files["evidence"])

\* "Missing, malformed, non-finite, conflicting duplicate, or contradictory required
\* evidence is fatal" (asic/physical/README.md): nor does it leave malformed evidence.
AuditedEvidenceIsClean ==
    target = "PHYSICAL" /\ outcome = "PASSED" => Clean(files["evidence"])

\* A preparation that fails or is killed leaves the flow no technology file whose units
\* disagree.
TechnologyUnitsAgree ==
    files["technology"] # Missing =>
        /\ Whole("technology")
        /\ files["technology"].reader_dbu = files["technology"].dbu
=============================================================================
