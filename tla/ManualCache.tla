----------------------------- MODULE ManualCache ----------------------------
(***************************************************************************)
(* scripts/fetch_reference_manuals.py: fetches the manuals a manifest      *)
(* names and verifies the cached copies.  Runs of the script with and      *)
(* without --check, the server, and the file system under them.  A         *)
(* validation opens the file by name once per tool, so a file may change   *)
(* between two looks.                                                      *)
(*                                                                         *)
(* A body is what a file or a response holds.  Its fields are what the     *)
(* validation sees of it; SHA-256 is taken to tell bodies apart.           *)
(***************************************************************************)
EXTENDS Naturals, Sequences

CONSTANTS
    Process,    \* runs of the script that may overlap
    Fetcher,    \* those that may run without --check
    Filename,   \* what a manifest may give as a file name
    PdfName,    \* the plain names that end in .pdf
    Body,       \* contents of files and responses
    Empty,      \* the empty one
    Prefix(_),  \* what an interrupted transfer of a body leaves
    DocumentId, \* identities of documents
    Marker,     \* identity markers
    Blank,      \* one without a letter or a digit
    Manifest,   \* document sequences the manifest may list
    None        \* no file, no outcome, a malformed digest

Pending(f) == <<f, "pending">>
Name == PdfName \cup {Pending(f) : f \in PdfName}

ASSUME ProcessAssumption ==
    Fetcher \subseteq Process /\ \A p, q \in Fetcher : p = q
ASSUME NameAssumption ==
    /\ PdfName \subseteq Filename
    /\ \A f, g \in PdfName : Pending(f) # g
ASSUME NoneAssumption == None \notin Body /\ None \notin {"SUCCEEDED", "FAILED", "KILLED"}
ASSUME BodyAssumption ==
    /\ Empty \in Body /\ ~Empty.header
    /\ \A b \in Body : /\ b.diagnostics \subseteq {"pdfinfo", "pdftotext"}
                        /\ b.pages \in Nat
                        /\ Prefix(b) \subseteq Body

\* An entry of the manifest: complete stands for its string fields being there, official
\* for its two URLs being an official server's.
Entry == [complete : BOOLEAN, official : BOOLEAN, filename : Filename,
          document_id : DocumentId, sha256 : Body \cup {None}, page_count : Nat,
          identity_markers : SUBSET Marker]

ASSUME ManifestAssumption == \A m \in Manifest : m \in Seq(Entry)

VARIABLES
    manifest,   \* the manifest's documents; an unreadable one lists none
    tools,      \* the Poppler tools installed
    directory,  \* what each name holds
    synced,     \* the pending names whose contents a power loss spares
    survivors,  \* what a power loss may leave under each other name
    run,        \* the state of each run of the script
    outcome,    \* how each last run ended
    initial     \* history: the directory the behavior began with

installation == <<manifest, tools, initial>>
disk == <<directory, synced, survivors>>
vars == <<installation, disk, run, outcome>>

Tool == {"pdfinfo", "pdftotext"}
Outcome == {"SUCCEEDED", "FAILED", "KILLED"}
Step == {"IDLE", "EXISTS", "DIGEST", "STRUCTURE", "PDFINFO", "PDFTOTEXT",
         "UNLINK", "REQUEST", "RECEIVE", "SYNCHRONIZE", "REPLACE",
         "CLEANUP", "CLEANUP_AND_FAIL", "CLEANUP_AND_RAISE"}

\* The next step of a run; whether it has --check; the document it is at; whether the
\* validation in progress is of the pending file, what it has found and the page count
\* it was told; the body the server is sending; whether a document has failed.
Run == [step : Step, check : BOOLEAN, at : Nat \ {0}, pending : BOOLEAN,
        errors : BOOLEAN, pages : Nat, response : Body, failed : BOOLEAN]

Idle == [step |-> "IDLE", check |-> TRUE, at |-> 1, pending |-> FALSE,
         errors |-> FALSE, pages |-> 0, response |-> Empty, failed |-> FALSE]

-----------------------------------------------------------------------------
(* The manifest and the validation of a body.                              *)

\* validate_manifest_entry, lines 55-88.
ValidateManifestEntry(d) ==
    /\ d.complete
    /\ d.filename \in PdfName
    /\ d.sha256 # None
    /\ d.page_count > 0
    /\ d.identity_markers # {} /\ Blank \notin d.identity_markers
    /\ d.official

\* Defect: two documents may share a file.
LoadDocumentsSharingFiles(m) ==
    /\ m # <<>>
    /\ \A i \in DOMAIN m : ValidateManifestEntry(m[i])
    /\ \A i, j \in DOMAIN m : i # j => m[i].document_id # m[j].document_id

\* load_documents, lines 91-114.
LoadDocuments(m) ==
    /\ m # <<>>
    /\ \A i \in DOMAIN m : ValidateManifestEntry(m[i])
    /\ \A i, j \in DOMAIN m : i # j => /\ m[i].filename # m[j].filename
                                       /\ m[i].document_id # m[j].document_id

\* run_pdf_tool and require_poppler_tool, lines 117-133: a tool that is missing, that
\* fails or that has something to say rejects the file.
ToolAccepts(tool, b) == tool \in tools /\ tool \notin b.diagnostics

\* A body that is the document, whole and readable: what the code takes five looks at a
\* file to establish.
IsManual(d, b) ==
    /\ b \in Body
    /\ b = d.sha256
    /\ b.header /\ b.end_marker /\ b.diagnostics = {}
    /\ b.pages = d.page_count
    /\ d.identity_markers \subseteq b.text

-----------------------------------------------------------------------------
(* The runs.                                                               *)

Init ==
    /\ manifest \in Manifest
    /\ tools \in SUBSET Tool
    /\ directory \in [Name -> Body \cup {None}]
    /\ synced = {}
    /\ survivors = [f \in PdfName |-> {directory[f]}]
    /\ run = [p \in Process |-> Idle]
    /\ outcome = [p \in Process |-> None]
    /\ initial = directory

At(p, step) == run[p].step = step
Document(p) == manifest[run[p].at]
Destination(p) == Document(p).filename
PendingName(p) == Pending(Destination(p))
Found(p) == directory[IF run[p].pending THEN PendingName(p) ELSE Destination(p)]

Becomes(p, r) == run' = [run EXCEPT ![p] = r]
Goto(p, step) == Becomes(p, [run[p] EXCEPT !.step = step]) /\ UNCHANGED outcome

\* What a run knew goes with it.
End(p, how) == Becomes(p, Idle) /\ outcome' = [outcome EXCEPT ![p] = how]

\* main, lines 211-226: load the manifest and go to the first document.
Start(p) ==
    /\ At(p, "IDLE")
    /\ IF LoadDocuments(manifest)
       THEN /\ \E c \in (IF p \in Fetcher THEN BOOLEAN ELSE {TRUE}) :
                  Becomes(p, [Idle EXCEPT !.step = "EXISTS", !.check = c])
            /\ outcome' = [outcome EXCEPT ![p] = None]
       ELSE End(p, "FAILED")
    /\ UNCHANGED <<installation, disk>>

\* Goes on with the next document.
Advance(p, failed) ==
    /\ run[p].at < Len(manifest)
    /\ Becomes(p, [Idle EXCEPT !.step = "EXISTS", !.check = run[p].check,
                               !.at = run[p].at + 1, !.failed = failed])
    /\ UNCHANGED outcome

\* The loop over the documents, lines 225 and 246.
NextDocument(p, failure) ==
    \/ Advance(p, run[p].failed \/ failure)
    \/ /\ run[p].at >= Len(manifest)
       /\ End(p, IF run[p].failed \/ failure THEN "FAILED" ELSE "SUCCEEDED")

\* Defect: only a missing manual is fetched.
ConcludeFetchingMissing(p, found) ==
    IF run[p].pending THEN Goto(p, IF found THEN "CLEANUP_AND_FAIL" ELSE "REPLACE")
    ELSE IF Found(p) = None /\ ~run[p].check THEN Goto(p, "UNLINK")
    ELSE NextDocument(p, found)

\* What main, lines 227-239, and download, lines 203-206, do with validation_errors.
Conclude(p, found) ==
    IF run[p].pending THEN Goto(p, IF found THEN "CLEANUP_AND_FAIL" ELSE "REPLACE")
    ELSE IF found /\ ~run[p].check THEN Goto(p, "UNLINK")
    ELSE NextDocument(p, found)

\* Line 167.
Exists(p) ==
    /\ At(p, "EXISTS")
    /\ IF Found(p) = None THEN Conclude(p, TRUE) ELSE Goto(p, "DIGEST")
    /\ UNCHANGED <<installation, disk>>

\* Defect: a digest is trusted.
DigestTrusted(p) ==
    /\ At(p, "DIGEST")
    /\ Found(p) # None
    /\ Conclude(p, Found(p) # Document(p).sha256)
    /\ UNCHANGED <<installation, disk>>

\* Lines 171-173: a mismatch is noted, and the file is looked at all the same.
Digest(p) ==
    /\ At(p, "DIGEST")
    /\ Found(p) # None
    /\ Becomes(p, [run[p] EXCEPT !.step = "STRUCTURE",
                                 !.errors = Found(p) # Document(p).sha256])
    /\ UNCHANGED <<installation, disk, outcome>>

\* inspect_pdf, lines 137-146; a file that is not there is an OSError.
Structure(p) ==
    /\ At(p, "STRUCTURE")
    /\ IF Found(p) # None /\ Found(p).header /\ Found(p).end_marker
       THEN Goto(p, "PDFINFO")
       ELSE Conclude(p, TRUE)
    /\ UNCHANGED <<installation, disk>>

\* Lines 148-155.
Pdfinfo(p) ==
    /\ At(p, "PDFINFO")
    /\ IF Found(p) # None /\ ToolAccepts("pdfinfo", Found(p)) /\ Found(p).pages > 0
       THEN /\ Becomes(p, [run[p] EXCEPT !.step = "PDFTOTEXT", !.pages = Found(p).pages])
            /\ UNCHANGED outcome
       ELSE Conclude(p, TRUE)
    /\ UNCHANGED <<installation, disk>>

\* Lines 157-163 and 181-188.
Pdftotext(p) ==
    /\ At(p, "PDFTOTEXT")
    /\ IF Found(p) # None /\ ToolAccepts("pdftotext", Found(p))
       THEN Conclude(p, \/ run[p].errors
                        \/ run[p].pages # Document(p).page_count
                        \/ ~(Document(p).identity_markers \subseteq Found(p).text))
       ELSE Conclude(p, TRUE)
    /\ UNCHANGED <<installation, disk>>

-----------------------------------------------------------------------------
(* download, lines 191-208.                                                *)

\* A pending file is written, and not synchronized yet.
Write(n, b) ==
    /\ directory' = [directory EXCEPT ![n] = b]
    /\ synced' = synced \ {n}
    /\ UNCHANGED survivors

\* missing_ok: there may be nothing to unlink.
Unlink(n) == Write(n, None)

\* Defect: the cached file goes too.
RemoveBoth(p) ==
    /\ At(p, "UNLINK")
    /\ directory' = [directory EXCEPT ![PendingName(p)] = None, ![Destination(p)] = None]
    /\ synced' = synced \ {PendingName(p)}
    /\ Goto(p, "REQUEST")
    /\ UNCHANGED <<installation, survivors>>

\* Lines 192-193.
RemovePending(p) ==
    /\ At(p, "UNLINK")
    /\ Unlink(PendingName(p))
    /\ Goto(p, "REQUEST")
    /\ UNCHANGED installation

\* Lines 196-197: the server answers with any body, and the pending file is opened.
Request(p) ==
    /\ At(p, "REQUEST")
    /\ \E b \in Body :
          Becomes(p, [run[p] EXCEPT !.step = "RECEIVE", !.response = b])
    /\ Write(PendingName(p), Empty)
    /\ UNCHANGED <<installation, outcome>>

\* Line 199: part of the response is written.
ReceiveChunk(p) ==
    /\ At(p, "RECEIVE")
    /\ \E b \in Prefix(run[p].response) \ {Empty} : Write(PendingName(p), b)
    /\ UNCHANGED <<installation, run, outcome>>

\* Line 198: the response ends, whole or cut short.
ReceiveEnd(p) ==
    /\ At(p, "RECEIVE")
    /\ \E b \in {directory[PendingName(p)], run[p].response} : Write(PendingName(p), b)
    /\ Goto(p, "SYNCHRONIZE")
    /\ UNCHANGED installation

\* Line 203: the pending file is validated.
ValidatePending(p) ==
    Becomes(p, [run[p] EXCEPT !.step = "EXISTS", !.pending = TRUE, !.response = Empty])

\* Defect: the file is not synchronized.
SynchronizeNever(p) ==
    /\ At(p, "SYNCHRONIZE")
    /\ ValidatePending(p)
    /\ UNCHANGED <<installation, disk, outcome>>

\* Lines 200-201.
Synchronize(p) ==
    /\ At(p, "SYNCHRONIZE")
    /\ synced' = synced \cup {PendingName(p)}
    /\ ValidatePending(p)
    /\ UNCHANGED <<installation, directory, survivors, outcome>>

\* Line 206: the rename is atomic.  The directory is not synchronized: a power loss may
\* bring the earlier entry back.
Replace(p) ==
    /\ At(p, "REPLACE")
    /\ directory[PendingName(p)] # None
    /\ directory' = [directory EXCEPT ![Destination(p)] = directory[PendingName(p)],
                                      ![PendingName(p)] = None]
    /\ synced' = synced \ {PendingName(p)}
    /\ survivors' = [survivors EXCEPT
                        ![Destination(p)] = @ \cup (IF PendingName(p) \in synced
                                                    THEN {directory[PendingName(p)]}
                                                    ELSE Body)]
    /\ Goto(p, "CLEANUP")
    /\ UNCHANGED installation

\* An OSError while a file is inspected is one more error found, lines 177-179.
InspectionFails(p) ==
    /\ run[p].step \in {"STRUCTURE", "PDFINFO", "PDFTOTEXT"}
    /\ Conclude(p, TRUE)
    /\ UNCHANGED <<installation, disk>>

\* One in download before the try block is caught by main, lines 240-243; one inside it
\* runs the finally block first.
Fails(p) ==
    /\ \/ At(p, "UNLINK") /\ NextDocument(p, TRUE)
       \/ /\ run[p].step \in {"REQUEST", "RECEIVE", "SYNCHRONIZE", "REPLACE"}
          /\ Goto(p, "CLEANUP_AND_FAIL")
       \/ At(p, "DIGEST") /\ run[p].pending /\ Goto(p, "CLEANUP_AND_FAIL")
    /\ UNCHANGED <<installation, disk>>

\* What main does not catch ends the run: an error of the HTTP library that is no
\* OSError, and an OSError while the digest of a cached file is read, lines 171 and 227.
Raises(p) ==
    /\ \/ run[p].step \in {"REQUEST", "RECEIVE"} /\ Goto(p, "CLEANUP_AND_RAISE")
       \/ At(p, "DIGEST") /\ ~run[p].pending /\ End(p, "FAILED")
    /\ UNCHANGED <<installation, disk>>

\* The finally block, lines 207-208, and what main does next.
Cleanup(p) ==
    /\ \/ At(p, "CLEANUP") /\ NextDocument(p, FALSE)
       \/ At(p, "CLEANUP_AND_FAIL") /\ NextDocument(p, TRUE)
       \/ At(p, "CLEANUP_AND_RAISE") /\ End(p, "FAILED")
    /\ Unlink(PendingName(p))
    /\ UNCHANGED installation

\* The run is killed and cleans nothing up.
Kill(p) ==
    /\ ~At(p, "IDLE")
    /\ End(p, "KILLED")
    /\ UNCHANGED <<installation, disk>>

\* Power is lost: each name holds something that survives, and the runs are forgotten.
\* One pending file is gone or torn; no run reads what is left of one.
PowerLoss ==
    /\ \E kept \in [PdfName -> UNION {survivors[f] : f \in PdfName}],
          g \in PdfName, left \in {Empty, None} :
          /\ \A f \in PdfName : kept[f] \in survivors[f]
          /\ directory' = [n \in Name |-> IF n \in PdfName THEN kept[n]
                                          ELSE IF n = Pending(g) THEN left
                                          ELSE directory[n]]
          /\ survivors' = [f \in PdfName |-> {kept[f]}]
    /\ synced' = {}
    /\ run' = [p \in Process |-> Idle]
    /\ outcome' = [p \in Process |-> None]
    /\ UNCHANGED installation

Validate(p) == Exists(p) \/ Digest(p) \/ Structure(p) \/ Pdfinfo(p) \/ Pdftotext(p)

Download(p) ==
    \/ RemovePending(p) \/ Request(p) \/ ReceiveEnd(p) \/ Synchronize(p) \/ Replace(p)
    \/ Cleanup(p)

Next ==
    \/ PowerLoss
    \/ \E p \in Process :
          \/ Start(p) \/ Validate(p) \/ Download(p)
          \/ ReceiveChunk(p) \/ InspectionFails(p) \/ Fails(p) \/ Raises(p)
          \/ Kill(p)

\* A run goes on.  The code sets no timeout: that the server answers, and that its
\* response ends, are assumptions about the server.
Fairness == \A p \in Process : WF_vars(Validate(p) \/ Download(p))

Spec == Init /\ [][Next]_vars /\ Fairness

-----------------------------------------------------------------------------
(* Correctness.                                                            *)

\* The types of the file system's state and of the runs' registers.
TypeOK ==
    /\ manifest \in Manifest /\ tools \subseteq Tool
    /\ directory \in [Name -> Body \cup {None}] /\ initial \in [Name -> Body \cup {None}]
    /\ survivors \in [PdfName -> SUBSET (Body \cup {None})] /\ synced \subseteq Name
    /\ run \in [Process -> Run] /\ outcome \in [Process -> Outcome \cup {None}]

Cached(i) == IsManual(manifest[i], directory[manifest[i].filename])

\* "An NXP error page or a truncated response therefore cannot become an accepted
\* reference" (references/manuals/README.md): what a document's name holds, or may hold
\* after a power loss, is what it held at first or the whole manual.
CacheHoldsNothingElse ==
    \A i \in DOMAIN manifest :
        LET d == manifest[i]
            allowed == {initial[d.filename]} \cup {b \in Body : IsManual(d, b)}
        IN LoadDocuments(manifest) =>
               directory[d.filename] \in allowed /\ survivors[d.filename] \subseteq allowed

\* A run that reports success, a --check beside a fetch too, leaves every document of
\* the manifest cached and whole; up to the document it is at while it has reported none.
SuccessMeansCached ==
    \A p \in Process :
        /\ outcome[p] = "SUCCEEDED" =>
              LoadDocuments(manifest) /\ \A i \in DOMAIN manifest : Cached(i)
        /\ ~At(p, "IDLE") /\ ~run[p].failed => \A i \in 1 .. run[p].at - 1 : Cached(i)

\* What a run knows of the file it validates, or has put in place: what it has seen of
\* it and found right still holds, whatever the other runs do between two looks.
KnowledgeHolds(p) ==
    LET r == run[p]
        d == Document(p)
        seen(steps) == r.step \in steps /\ ~r.errors
    IN /\ r.step # "IDLE" => LoadDocuments(manifest) /\ r.at \in DOMAIN manifest
       /\ ~r.check => p \in Fetcher
       /\ r.pending \/ r.step \notin {"IDLE", "EXISTS", "DIGEST", "STRUCTURE", "PDFINFO",
                                      "PDFTOTEXT"} => ~r.check
       /\ r.step \in {"EXISTS", "DIGEST", "STRUCTURE", "PDFINFO", "PDFTOTEXT", "REPLACE"} =>
             (r.pending => PendingName(p) \in synced)
       /\ seen({"STRUCTURE", "PDFINFO", "PDFTOTEXT"}) => Found(p) = d.sha256
       /\ seen({"PDFINFO", "PDFTOTEXT"}) => Found(p).header /\ Found(p).end_marker
       /\ seen({"PDFTOTEXT"}) => /\ "pdfinfo" \notin Found(p).diagnostics
                                 /\ r.pages = Found(p).pages
       /\ r.step = "REPLACE" => r.pending /\ IsManual(d, directory[PendingName(p)])
       /\ r.step = "CLEANUP" => Cached(r.at)

\* What makes the two properties above inductive.
CacheInvariant ==
    /\ TypeOK
    /\ CacheHoldsNothingElse
    /\ SuccessMeansCached
    /\ \A p \in Process : KnowledgeHolds(p)

\* While the machine stays up, only pending files and names whose manual is missing or
\* wrong ever change, and such a name goes straight to its whole manual: whatever reads
\* the cache beside a fetch never sees a manual go, or part of one.
ReplacesOnlyWrongManuals ==
    \A n \in Name :
        directory'[n] # directory[n] =>
            \/ PowerLoss
            \/ \E i \in DOMAIN manifest :
                  \/ n = Pending(manifest[i].filename)
                  \/ n = manifest[i].filename /\ ~Cached(i) /\ Cached(i)'

OnlyWrongManualsAreReplaced == [][ReplacesOnlyWrongManuals]_vars

\* What may keep a fetch from its end.
Disturbance ==
    \/ PowerLoss
    \/ \E p \in Process :
          \/ Kill(p) \/ (InspectionFails(p) /\ ~Validate(p)) \/ Fails(p) \/ Raises(p)
          \/ Request(p) /\ run'[p].response # Document(p).sha256
          \/ ReceiveEnd(p) /\ directory'[PendingName(p)] # run[p].response

\* A fetch repeated until nothing disturbs it leaves every manual cached for good,
\* whatever earlier runs and faults have left behind; it needs the tools, and a manifest
\* whose digests are those of its manuals.
FetchingConverges ==
    /\ LoadDocuments(manifest) /\ tools = Tool
    /\ \A i \in DOMAIN manifest : IsManual(manifest[i], manifest[i].sha256)
    /\ <>[][~Disturbance]_vars
    /\ []<><<\E p \in Process : Start(p) /\ ~run'[p].check>>_vars
    => <>[](\A i \in DOMAIN manifest : Cached(i))
=============================================================================
