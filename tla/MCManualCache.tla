---------------------------- MODULE MCManualCache ---------------------------
(***************************************************************************)
(* Two documents, a fetch and a --check that may overlap, and bodies each  *)
(* of which another look of the validation rejects.                        *)
(***************************************************************************)
EXTENDS ManualCache

CONSTANTS f1, f2, elsewhere, fetch, check, a, b, blank

MCProcess == {fetch, check}
MCFetcher == {fetch}
MCPdfName == {f1, f2}
MCFilename == MCPdfName \cup {elsewhere}
MCMarker == {a, b, blank}
MCDocumentId == {a, b}

Content(header, end, diagnostics, count, text) ==
    [header |-> header, end_marker |-> end, diagnostics |-> diagnostics,
     pages |-> count, text |-> text]

empty == Content(FALSE, FALSE, {"pdfinfo", "pdftotext"}, 0, {})
error == Content(FALSE, FALSE, {"pdfinfo", "pdftotext"}, 0, {a})
manualA == Content(TRUE, TRUE, {}, 1, {a})
cutA == Content(TRUE, FALSE, {"pdfinfo"}, 0, {})
oldA == Content(TRUE, TRUE, {}, 2, {a})
manualB == Content(TRUE, TRUE, {}, 2, {b})
cutB == Content(TRUE, TRUE, {"pdftotext"}, 2, {})

MCBody == {empty, error, manualA, cutA, oldA, manualB, cutB}

MCPrefix(body) == CASE body = manualA -> {empty, cutA}
                    [] body = manualB -> {empty, cutB}
                    [] OTHER -> {empty}

ManualEntry(name, id, body, count, markers) ==
    [complete |-> TRUE, official |-> TRUE, filename |-> name, document_id |-> id,
     sha256 |-> body, page_count |-> count, identity_markers |-> markers]

A == ManualEntry(f1, a, manualA, 1, {a})
B == ManualEntry(f2, b, manualB, 2, {b})

Sound == <<A, B>>
\* Digests recorded of an error page, of a cut manual and of an older revision.
Misrecorded == {<<[A EXCEPT !.sha256 = d]>> : d \in {error, cutA, oldA}}
Malformed ==
    {<<>>, <<A, [B EXCEPT !.filename = f1]>>, <<A, [B EXCEPT !.document_id = a]>>,
     <<A, [B EXCEPT !.filename = elsewhere]>>, <<A, [B EXCEPT !.sha256 = None]>>,
     <<A, [B EXCEPT !.identity_markers = {}]>>, <<[A EXCEPT !.official = FALSE]>>,
     <<[A EXCEPT !.complete = FALSE]>>, <<[A EXCEPT !.page_count = 0]>>,
     <<[A EXCEPT !.identity_markers = {a, blank}]>>}
MCManifest == {Sound} \cup Misrecorded \cup Malformed

\* An outdated manual and what a killed run left; an empty directory otherwise.
MCInit ==
    /\ Init
    /\ \/ manifest = Sound /\ tools = Tool /\ \A n \in Name :
              directory[n] = CASE n = f1 -> oldA
                               [] n = f2 -> manualB
                               [] n = Pending(f1) -> cutA
                               [] OTHER -> None
       \/ /\ \A n \in Name : directory[n] = None
          /\ manifest = Sound => tools # Tool /\ "pdftotext" \notin tools
          /\ manifest # Sound => tools = Tool

\* Of the inspections, the last one of a pending file or of the first document may fail.
MCNext ==
    /\ Next
    /\ \A p \in Process : InspectionFails(p) /\ ~Validate(p) =>
                             At(p, "PDFTOTEXT") /\ (run[p].pending \/ run[p].at = 1)

MCSpec == MCInit /\ [][MCNext]_vars /\ Fairness
=============================================================================
