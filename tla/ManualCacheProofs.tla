-------------------------- MODULE ManualCacheProofs -------------------------
(***************************************************************************)
(* Whatever servers, faults and other runs do, the cache never takes in    *)
(* anything but whole manuals, and success means that all are cached: for  *)
(* any number of runs, one of which may fetch, and any manifest.           *)
(***************************************************************************)
EXTENDS ManualCache, TLAPS

\* What SuccessMeansCached says of one run.
SuccessHolds(p) ==
    /\ outcome[p] = "SUCCEEDED" =>
          LoadDocuments(manifest) /\ \A i \in DOMAIN manifest : Cached(i)
    /\ ~At(p, "IDLE") /\ ~run[p].failed => \A i \in 1 .. run[p].at - 1 : Cached(i)

\* The documents of an accepted manifest have file names of their own.
LEMMA NamesAreDistinct ==
    ASSUME LoadDocuments(manifest)
    PROVE  /\ \A i \in DOMAIN manifest : manifest[i].filename \in PdfName
           /\ \A i, j \in DOMAIN manifest :
                 manifest[i].filename = manifest[j].filename => i = j
BY DEF LoadDocuments, ValidateManifestEntry

\* A run that has begun is at a document of an accepted manifest.
LEMMA RunIsAtDocument ==
    ASSUME CacheInvariant, NEW p \in Process, run[p].step # "IDLE"
    PROVE  /\ LoadDocuments(manifest)
           /\ run[p] \in Run
           /\ manifest \in Seq(Entry)
           /\ DOMAIN manifest = 1 .. Len(manifest)
           /\ Len(manifest) \in Nat
           /\ run[p].at \in DOMAIN manifest
           /\ Destination(p) \in PdfName
           /\ PendingName(p) \in Name
           /\ Destination(p) \in Name
<1>1. LoadDocuments(manifest) /\ run[p].at \in DOMAIN manifest
  BY DEF CacheInvariant, KnowledgeHolds
<1>2. manifest \in Seq(Entry) /\ run[p] \in Run
  BY ManifestAssumption DEF CacheInvariant, TypeOK
<1>3. Destination(p) \in PdfName
  BY <1>1, NamesAreDistinct DEF Destination, Document
<1> QED
  BY <1>1, <1>2, <1>3 DEF PendingName, Name

\* The cached files stay as they are, and so do pending files but for a run that may fetch.
CachedFilesStay(p) ==
    /\ UNCHANGED <<installation, survivors>>
    /\ directory' \in [Name -> Body \cup {None}] /\ synced' \subseteq Name
    /\ \A f \in PdfName : directory'[f] = directory[f]
    /\ (directory' = directory /\ synced' = synced) \/ p \in Fetcher

\* A step of one run that leaves the cached files alone keeps the invariant, if it keeps
\* what that run knows: the pending files matter to the one run that may fetch.
LEMMA StepOfOneRun ==
    ASSUME CacheInvariant, NEW p \in Process, CachedFilesStay(p),
           NEW r \in Run, run' = [run EXCEPT ![p] = r],
           NEW o \in Outcome \cup {None},
           outcome' = [outcome EXCEPT ![p] = o],
           KnowledgeHolds(p)', SuccessHolds(p)'
    PROVE  CacheInvariant'
<1> USE DEF CachedFilesStay
<1>1. TypeOK /\ TypeOK'
  BY DEF CacheInvariant, TypeOK, installation
<1>2. LoadDocuments(manifest) =>
          \A i \in DOMAIN manifest : Cached(i)' = Cached(i)
  BY NamesAreDistinct DEF Cached, installation
<1>3. CacheHoldsNothingElse'
  BY NamesAreDistinct DEF CacheInvariant, CacheHoldsNothingElse, installation
<1>4. ASSUME NEW q \in Process, q # p PROVE KnowledgeHolds(q)' /\ SuccessHolds(q)'
  <2>1. run'[q] = run[q] /\ outcome'[q] = outcome[q] /\ KnowledgeHolds(q) /\ SuccessHolds(q)
    BY <1>1, <1>4 DEF CacheInvariant, TypeOK, SuccessMeansCached, SuccessHolds
  <2>2. SuccessHolds(q)'
    <3>1. CASE run[q].step = "IDLE"
      BY <2>1, <1>2, <3>1 DEF SuccessHolds, At, installation
    <3>2. CASE run[q].step # "IDLE"
      BY SMTT(30), <2>1, <1>2, <3>2, RunIsAtDocument DEF SuccessHolds, At, installation, Run
    <3> QED BY <3>1, <3>2
  <2>3. CASE directory' = directory /\ synced' = synced
    <3>1. /\ Document(q)' = Document(q) /\ PendingName(q)' = PendingName(q)
          /\ Found(q)' = Found(q) /\ Cached(run[q].at)' = Cached(run[q].at)
      BY <2>1, <2>3 DEF Document, PendingName, Destination, Found, Cached, installation
    <3>2. KnowledgeHolds(q)'
      BY <2>1, <2>3, <3>1, ZenonT(60) DEF KnowledgeHolds, installation
    <3> QED BY <2>2, <3>2
  <2>4. CASE p \in Fetcher
    <3>1. q \notin Fetcher
      BY <1>4, <2>4, ProcessAssumption
    <3>2. CASE run[q].step = "IDLE"
      BY <2>1, <2>2, <3>1, <3>2 DEF KnowledgeHolds
    <3>3. CASE run[q].step # "IDLE"
      <4>1. run[q].check /\ ~run[q].pending
            /\ run[q].step \in {"EXISTS", "DIGEST", "STRUCTURE", "PDFINFO", "PDFTOTEXT"}
        BY <2>1, <3>1, <3>3 DEF KnowledgeHolds
      <4>2. Found(q)' = Found(q) /\ Document(q)' = Document(q)
        BY <2>1, <3>3, <4>1, RunIsAtDocument DEF Found, Destination, Document, installation
      <4> QED BY <2>1, <2>2, <3>1, <3>3, <4>1, <4>2 DEF KnowledgeHolds, installation
    <3> QED BY <3>2, <3>3
  <2> QED BY <2>2, <2>3, <2>4
<1> QED
  BY <1>1, <1>3, <1>4 DEF CacheInvariant, SuccessMeansCached, SuccessHolds

\* The state of a run at its next document.
LEMMA NextRunIsRun ==
    ASSUME NEW check \in BOOLEAN, NEW at \in Nat \ {0}, NEW failed \in BOOLEAN
    PROVE  [Idle EXCEPT !.step = "EXISTS", !.check = check, !.at = at, !.failed = failed]
               \in Run
BY BodyAssumption DEF Run, Idle, Step

\* The loop goes on only past documents that are cached or have made it fail.
LEMMA NextDocumentKeepsInvariant ==
    ASSUME CacheInvariant, NEW p \in Process, run[p].step # "IDLE", CachedFilesStay(p),
           NEW failure \in BOOLEAN, failure \/ Cached(run[p].at),
           NextDocument(p, failure)
    PROVE  CacheInvariant'
<1> DEFINE r == run[p]
<1>1. /\ r \in Run /\ r.at \in DOMAIN manifest /\ LoadDocuments(manifest)
      /\ DOMAIN manifest = 1 .. Len(manifest) /\ Len(manifest) \in Nat
  BY RunIsAtDocument
<1>2. KnowledgeHolds(p) /\ SuccessHolds(p) /\ TypeOK
  BY DEF CacheInvariant, SuccessMeansCached, SuccessHolds
<1>3. r.failed \/ failure \/ \A i \in 1 .. r.at : Cached(i)'
  <2>1. \A i \in DOMAIN manifest : Cached(i)' = Cached(i)
    BY <1>1, NamesAreDistinct DEF CachedFilesStay, Cached, installation
  <2>2. ~r.failed => \A i \in 1 .. r.at - 1 : Cached(i)
    BY <1>2 DEF SuccessHolds, At
  <2> QED BY <1>1, <2>1, <2>2 DEF Run
<1>4. CASE Advance(p, r.failed \/ failure)
  <2> DEFINE failed == r.failed \/ failure
             next == [Idle EXCEPT !.step = "EXISTS", !.check = r.check, !.at = r.at + 1,
                                  !.failed = failed]
  <2>1. run' = [run EXCEPT ![p] = next] /\ outcome' = [outcome EXCEPT ![p] = outcome[p]]
    BY <1>2, <1>4, Zenon DEF Advance, Becomes, TypeOK
  <2>2. next \in Run /\ outcome[p] \in Outcome \cup {None} /\ run'[p] = next
    <3>1. failed \in BOOLEAN
      <4>1. r.failed \in BOOLEAN
        BY <1>1 DEF Run
      <4> QED BY <4>1, Zenon
    <3> HIDE DEF failed
    <3>2. r.check \in BOOLEAN /\ r.at + 1 \in Nat \ {0}
      BY <1>1 DEF Run
    <3>3. next \in Run
      BY <3>1, <3>2, NextRunIsRun, Zenon
    <3> HIDE DEF next
    <3> QED BY <1>2, <2>1, <3>3 DEF TypeOK
  <2>3. KnowledgeHolds(p)'
    <3>1. /\ next.step = "EXISTS" /\ next.check = r.check /\ next.at = r.at + 1
          /\ next.pending = FALSE /\ next.errors = FALSE
      BY Zenon DEF Idle
    <3>2. next.at \in DOMAIN manifest /\ manifest' = manifest
      BY <1>1, <1>4, <3>1 DEF Advance, CachedFilesStay, installation, Run
    <3>3. ~next.check => p \in Fetcher
      BY <1>2, <3>1 DEF KnowledgeHolds
    <3> HIDE DEF next
    <3> QED BY <1>1, <2>2, <3>1, <3>2, <3>3 DEF KnowledgeHolds
  <2>4. SuccessHolds(p)'
    <3>1. outcome'[p] = outcome[p] /\ manifest' = manifest
      BY <1>2, <2>1 DEF CachedFilesStay, installation, TypeOK
    <3>2. \A i \in DOMAIN manifest : Cached(i)' = Cached(i)
      BY <1>1, NamesAreDistinct DEF CachedFilesStay, Cached, installation
    <3>3. next.at - 1 = r.at /\ next.failed = (r.failed \/ failure)
      BY <1>1 DEF Idle, Run
    <3> QED BY <1>2, <1>3, <2>2, <3>1, <3>2, <3>3 DEF SuccessHolds, At
  <2> HIDE DEF next
  <2> QED BY <2>1, <2>2, <2>3, <2>4, StepOfOneRun
<1>5. CASE /\ r.at >= Len(manifest)
           /\ End(p, IF r.failed \/ failure THEN "FAILED" ELSE "SUCCEEDED")
  <2> DEFINE how == IF r.failed \/ failure THEN "FAILED" ELSE "SUCCEEDED"
  <2>1. /\ run' = [run EXCEPT ![p] = Idle] /\ outcome' = [outcome EXCEPT ![p] = how]
        /\ how \in Outcome \cup {None} /\ Idle \in Run
    BY <1>5, BodyAssumption DEF End, Becomes, Outcome, Idle, Run, Step
  <2>2. run'[p] = Idle /\ outcome'[p] = how
    BY <1>2, <2>1 DEF TypeOK
  <2>3. KnowledgeHolds(p)'
    BY <2>2 DEF KnowledgeHolds, Idle
  <2>4. SuccessHolds(p)'
    BY <1>1, <1>3, <1>5, <2>2 DEF SuccessHolds, At, Idle, CachedFilesStay, installation, Run
  <2> HIDE DEF how
  <2> QED BY <2>1, <2>3, <2>4, StepOfOneRun
<1> QED BY <1>4, <1>5 DEF NextDocument

\* Neither do its other steps, as long as it stays at its document.
LEMMA StayingKeepsInvariant ==
    ASSUME CacheInvariant, NEW p \in Process, run[p].step # "IDLE", CachedFilesStay(p),
           NEW r \in Run, Becomes(p, r), UNCHANGED outcome,
           r.at = run[p].at, r.failed = run[p].failed, r.step # "IDLE", KnowledgeHolds(p)'
    PROVE  CacheInvariant'
<1>1. TypeOK /\ SuccessHolds(p) /\ LoadDocuments(manifest)
  BY RunIsAtDocument DEF CacheInvariant, SuccessMeansCached, SuccessHolds
<1>2. /\ run' = [run EXCEPT ![p] = r] /\ outcome' = [outcome EXCEPT ![p] = outcome[p]]
      /\ outcome[p] \in Outcome \cup {None} /\ run'[p] = r /\ outcome'[p] = outcome[p]
  BY <1>1 DEF Becomes, TypeOK
<1>3. /\ manifest' = manifest /\ DOMAIN manifest = 1 .. Len(manifest)
      /\ Len(manifest) \in Nat /\ r.at \in DOMAIN manifest
      /\ \A i \in DOMAIN manifest : Cached(i)' = Cached(i)
  BY <1>1, NamesAreDistinct, RunIsAtDocument DEF CachedFilesStay, Cached, installation
<1>4. SuccessHolds(p)'
  BY <1>1, <1>2, <1>3 DEF SuccessHolds, At, Run
<1> QED BY <1>2, <1>4, StepOfOneRun

LEMMA GotoKeepsInvariant ==
    ASSUME CacheInvariant, NEW p \in Process, run[p].step # "IDLE", CachedFilesStay(p),
           NEW step \in Step \ {"IDLE"}, Goto(p, step), KnowledgeHolds(p)'
    PROVE  CacheInvariant'
<1> DEFINE r == [run[p] EXCEPT !.step = step]
<1>1. run[p] \in Run
  BY RunIsAtDocument
<1>2. r \in Run /\ r.at = run[p].at /\ r.failed = run[p].failed /\ r.step # "IDLE"
  BY <1>1 DEF Run
<1>3. Becomes(p, r) /\ UNCHANGED outcome
  BY DEF Goto
<1> HIDE DEF r
<1> QED BY <1>2, <1>3, StayingKeepsInvariant

\* A run that ends without success promises nothing.
LEMMA EndKeepsInvariant ==
    ASSUME CacheInvariant, NEW p \in Process, CachedFilesStay(p),
           NEW how \in {"FAILED", "KILLED"}, End(p, how)
    PROVE  CacheInvariant'
<1>1. TypeOK /\ Idle \in Run
  BY BodyAssumption DEF CacheInvariant, Idle, Run, Step
<1>2. run' = [run EXCEPT ![p] = Idle] /\ outcome' = [outcome EXCEPT ![p] = how]
  BY DEF End, Becomes
<1>3. run'[p] = Idle /\ outcome'[p] = how /\ how \in Outcome \cup {None}
  BY <1>1, <1>2 DEF TypeOK, Outcome
<1>4. KnowledgeHolds(p)' /\ SuccessHolds(p)'
  BY <1>3 DEF KnowledgeHolds, SuccessHolds, At, Idle
<1> HIDE DEF Idle
<1> QED BY <1>1, <1>2, <1>3, <1>4, StepOfOneRun

\* A validation that has found nothing has found the manual.
LEMMA ConcludeKeepsInvariant ==
    ASSUME CacheInvariant, NEW p \in Process, UNCHANGED <<installation, disk>>,
           run[p].step \in {"EXISTS", "DIGEST", "STRUCTURE", "PDFINFO", "PDFTOTEXT"},
           NEW found \in BOOLEAN, found \/ IsManual(Document(p), Found(p)),
           Conclude(p, found)
    PROVE  CacheInvariant'
<1> DEFINE r == run[p]
<1>1. r \in Run /\ TypeOK /\ KnowledgeHolds(p) /\ SuccessHolds(p)
  BY RunIsAtDocument DEF CacheInvariant, SuccessMeansCached, SuccessHolds
<1>2. CachedFilesStay(p)
  BY <1>1 DEF CachedFilesStay, disk, TypeOK
<1>3. ASSUME NEW step \in {"CLEANUP_AND_FAIL", "REPLACE", "UNLINK"}, Goto(p, step),
             ~r.check, step = "REPLACE" => r.pending /\ ~found
      PROVE  CacheInvariant'
  <2>1. run'[p] = [r EXCEPT !.step = step]
    BY SMTT(30), <1>1, <1>3 DEF Goto, Becomes, TypeOK
  <2>2. KnowledgeHolds(p)'
    BY <1>1, <1>3, <2>1 DEF KnowledgeHolds, Document, PendingName, Destination, Found, Run,
                             installation, disk
  <2> QED BY <1>2, <1>3, <2>2, GotoKeepsInvariant DEF Step
<1>4. CASE r.pending
  BY <1>1, <1>3, <1>4 DEF Conclude, KnowledgeHolds
<1>5. CASE ~r.pending /\ found /\ ~r.check
  BY <1>3, <1>5 DEF Conclude
<1>6. CASE ~r.pending /\ ~(found /\ ~r.check)
  <2>1. found \/ Cached(r.at)
    BY <1>6 DEF Found, Cached, Document, Destination
  <2> QED BY <1>2, <1>6, <2>1, NextDocumentKeepsInvariant DEF Conclude
<1> QED BY <1>4, <1>5, <1>6

-----------------------------------------------------------------------------
(* The actions.                                                            *)

\* The state of a run at its first document.
LEMMA FirstRunIsRun ==
    ASSUME NEW check \in BOOLEAN
    PROVE  [Idle EXCEPT !.step = "EXISTS", !.check = check] \in Run
<1>1. Idle \in Run
  BY BodyAssumption DEF Run, Idle, Step
<1> HIDE DEF Idle
<1> QED BY <1>1 DEF Run, Step

LEMMA StartKeepsInvariant ==
    ASSUME CacheInvariant, NEW p \in Process, Start(p)
    PROVE  CacheInvariant'
<1>1. TypeOK /\ CachedFilesStay(p)
  BY DEF CacheInvariant, TypeOK, Start, CachedFilesStay, disk
<1>2. CASE End(p, "FAILED")
  BY <1>1, <1>2, EndKeepsInvariant
<1>3. ASSUME LoadDocuments(manifest), NEW c \in BOOLEAN, ~c => p \in Fetcher,
             Becomes(p, [Idle EXCEPT !.step = "EXISTS", !.check = c]),
             outcome' = [outcome EXCEPT ![p] = None]
      PROVE  CacheInvariant'
  <2> DEFINE r == [Idle EXCEPT !.step = "EXISTS", !.check = c]
  <2>1. r \in Run
    BY <1>3, FirstRunIsRun, Zenon
  <2>2. /\ r.step = "EXISTS" /\ r.check = c /\ r.at = 1 /\ r.failed = FALSE
        /\ r.pending = FALSE /\ r.errors = FALSE
    BY Zenon DEF Idle
  <2>3. 1 \in DOMAIN manifest /\ manifest' = manifest
    BY <1>1, <1>3, ManifestAssumption DEF LoadDocuments, CachedFilesStay, installation, TypeOK
  <2> HIDE DEF r
  <2>4. run' = [run EXCEPT ![p] = r] /\ run'[p] = r /\ outcome'[p] = None
    BY <1>1, <1>3 DEF Becomes, TypeOK, r
  <2>5. KnowledgeHolds(p)'
    BY <1>3, <2>2, <2>3, <2>4 DEF KnowledgeHolds
  <2>6. SuccessHolds(p)'
    BY <2>2, <2>4, NoneAssumption DEF SuccessHolds
  <2> QED BY <1>1, <1>3, <2>1, <2>4, <2>5, <2>6, StepOfOneRun
<1> QED BY <1>2, <1>3 DEF Start

\* A look at a file that a run validates, whatever it sees.
LEMMA ValidateKeepsInvariant ==
    ASSUME CacheInvariant, NEW p \in Process, Validate(p) \/ InspectionFails(p)
    PROVE  CacheInvariant'
<1> DEFINE r == run[p]
           d == Document(p)
<1>1. r.step # "IDLE" /\ UNCHANGED <<installation, disk>>
  BY DEF Validate, Exists, Digest, Structure, Pdfinfo, Pdftotext, InspectionFails, At
<1>2. /\ r \in Run /\ LoadDocuments(manifest) /\ d = manifest[r.at] /\ r.at \in DOMAIN manifest
      /\ TypeOK /\ KnowledgeHolds(p) /\ CachedFilesStay(p) /\ Found(p) \in Body \cup {None}
  BY <1>1, RunIsAtDocument DEF CacheInvariant, CachedFilesStay, Document, Found, TypeOK, disk
<1>3. InspectionFails(p) => CacheInvariant'
  BY <1>1, ConcludeKeepsInvariant DEF InspectionFails
<1>4. Exists(p) => CacheInvariant'
  <2>1. CASE Found(p) = None /\ Exists(p)
    BY <1>1, <2>1, ConcludeKeepsInvariant DEF Exists, At
  <2>2. CASE Found(p) # None /\ Exists(p)
    <3>1. run'[p] = [r EXCEPT !.step = "DIGEST"]
      BY <1>2, <2>2 DEF Exists, Goto, Becomes, TypeOK
    <3>2. KnowledgeHolds(p)'
      BY <1>1, <1>2, <2>2, <3>1 DEF KnowledgeHolds, Exists, At, Document, PendingName,
                                    Destination, Found, Run, installation, disk
    <3> QED BY <1>1, <1>2, <2>2, <3>2, GotoKeepsInvariant DEF Exists, Step
  <2> QED BY <2>1, <2>2
<1>5. ASSUME Digest(p) PROVE CacheInvariant'
  <2> DEFINE differs == Found(p) # d.sha256
  <2>1. differs \in BOOLEAN
    BY Zenon
  <2> DEFINE next(e) == [r EXCEPT !.step = "STRUCTURE", !.errors = e]
  <2>2. \A e \in BOOLEAN : /\ next(e) \in Run /\ next(e).step = "STRUCTURE"
                           /\ next(e).errors = e /\ next(e).at = r.at
                           /\ next(e).failed = r.failed /\ next(e).check = r.check
                           /\ next(e).pending = r.pending /\ next(e).pages = r.pages
    BY <1>2 DEF Run, Step
  <2>3. Becomes(p, next(differs)) /\ UNCHANGED outcome
    BY <1>5, Zenon DEF Digest
  <2> HIDE DEF next
  <2>4. run'[p] = next(differs)
    BY <1>2, <2>3 DEF Becomes, TypeOK
  <2>5. KnowledgeHolds(p)'
    BY ZenonT(60), <1>1, <1>2, <1>5, <2>1, <2>2, <2>4
    DEF KnowledgeHolds, Digest, At, Document, PendingName, Destination, Found,
        installation, disk
  <2> HIDE DEF differs
  <2> QED BY <1>1, <1>2, <2>1, <2>2, <2>3, <2>5, StayingKeepsInvariant
<1>6. ASSUME Structure(p) PROVE CacheInvariant'
  <2>1. CASE Conclude(p, TRUE)
    BY <1>1, <1>6, <2>1, ConcludeKeepsInvariant DEF Structure, At
  <2>2. CASE Found(p) # None /\ Found(p).header /\ Found(p).end_marker /\ Goto(p, "PDFINFO")
    <3>1. run'[p] = [r EXCEPT !.step = "PDFINFO"]
      BY <1>2, <2>2 DEF Goto, Becomes, TypeOK
    <3>2. KnowledgeHolds(p)'
      BY <1>1, <1>2, <1>6, <2>2, <3>1 DEF KnowledgeHolds, Structure, At, Document, PendingName,
                                    Destination, Found, Run, installation, disk
    <3> QED BY <1>1, <1>2, <2>2, <3>2, GotoKeepsInvariant DEF Step
  <2> QED BY <1>6, <2>1, <2>2 DEF Structure
<1>7. ASSUME Pdfinfo(p) PROVE CacheInvariant'
  <2>1. CASE Conclude(p, TRUE)
    BY <1>1, <1>7, <2>1, ConcludeKeepsInvariant DEF Pdfinfo, At
  <2>2. CASE /\ Found(p) # None /\ ToolAccepts("pdfinfo", Found(p)) /\ Found(p).pages > 0
             /\ Becomes(p, [r EXCEPT !.step = "PDFTOTEXT", !.pages = Found(p).pages])
             /\ UNCHANGED outcome
    <3> DEFINE next == [r EXCEPT !.step = "PDFTOTEXT", !.pages = Found(p).pages]
    <3>1. /\ next \in Run /\ next.step = "PDFTOTEXT" /\ next.pages = Found(p).pages
          /\ next.errors = r.errors /\ next.at = r.at /\ next.failed = r.failed
          /\ next.check = r.check /\ next.pending = r.pending
      BY <1>2, <2>2, BodyAssumption DEF Run, Step
    <3> HIDE DEF next
    <3>2. run'[p] = next
      BY SMTT(30), <1>2, <2>2 DEF Becomes, TypeOK, next
    <3>3. KnowledgeHolds(p)'
      BY <1>1, <1>2, <1>7, <2>2, <3>1, <3>2
      DEF KnowledgeHolds, Pdfinfo, ToolAccepts, At, Document, PendingName, Destination, Found,
          installation, disk
    <3> QED BY <1>1, <1>2, <2>2, <3>1, <3>3, StayingKeepsInvariant DEF next
  <2> QED BY <1>7, <2>1, <2>2 DEF Pdfinfo
<1>8. ASSUME Pdftotext(p) PROVE CacheInvariant'
  <2> DEFINE found == \/ r.errors
                      \/ r.pages # d.page_count
                      \/ ~(d.identity_markers \subseteq Found(p).text)
  <2>1. CASE Conclude(p, TRUE)
    BY <1>1, <1>8, <2>1, ConcludeKeepsInvariant DEF Pdftotext, At
  <2>2. CASE Found(p) # None /\ ToolAccepts("pdftotext", Found(p)) /\ Conclude(p, found)
    <3>1. found \in BOOLEAN
      <4>1. r.errors \in BOOLEAN
        BY <1>2 DEF Run
      <4> QED BY <4>1, Zenon
    <3>2. found \/ IsManual(d, Found(p))
      BY <1>2, <1>8, <2>2, BodyAssumption
      DEF Pdftotext, At, KnowledgeHolds, IsManual, ToolAccepts
    <3> HIDE DEF found
    <3> QED BY <1>1, <1>8, <2>2, <3>1, <3>2, ConcludeKeepsInvariant DEF Pdftotext, At
  <2> QED BY <1>8, <2>1, <2>2 DEF Pdftotext
<1> QED BY <1>3, <1>4, <1>5, <1>6, <1>7, <1>8 DEF Validate

\* Writing a pending file, which only the one run that may fetch does.
LEMMA WriteOfPending ==
    ASSUME CacheInvariant, NEW p \in Process, run[p].step # "IDLE", ~run[p].check,
           UNCHANGED installation, NEW b \in Body \cup {None}, Write(PendingName(p), b)
    PROVE  CachedFilesStay(p)
<1>1. p \in Fetcher /\ TypeOK /\ PendingName(p) \in Name
  BY RunIsAtDocument DEF CacheInvariant, KnowledgeHolds
<1>2. \A f \in PdfName : f \in Name /\ f # PendingName(p)
  BY NameAssumption, RunIsAtDocument DEF Name, PendingName
<1> QED BY <1>1, <1>2 DEF CachedFilesStay, Write, TypeOK

\* Downloading, up to the file that is to take the manual's place.
LEMMA ReceiveKeepsInvariant ==
    ASSUME CacheInvariant, NEW p \in Process,
           \/ RemovePending(p) \/ Request(p) \/ ReceiveChunk(p) \/ ReceiveEnd(p)
           \/ Synchronize(p)
    PROVE  CacheInvariant'
<1> DEFINE r == run[p]
<1>1. r.step \in {"UNLINK", "REQUEST", "RECEIVE", "SYNCHRONIZE"} /\ UNCHANGED installation
  BY DEF RemovePending, Request, ReceiveChunk, ReceiveEnd, Synchronize, At
<1>2. /\ r \in Run /\ TypeOK /\ KnowledgeHolds(p) /\ ~r.check /\ p \in Fetcher
      /\ PendingName(p) \in Name /\ r.step # "IDLE"
  BY <1>1, RunIsAtDocument DEF CacheInvariant, KnowledgeHolds
<1>3. ASSUME NEW step \in {"REQUEST", "SYNCHRONIZE"}, Goto(p, step), CachedFilesStay(p)
      PROVE  CacheInvariant'
  <2>1. run'[p] = [r EXCEPT !.step = step]
    BY <1>2, <1>3 DEF Goto, Becomes, TypeOK
  <2>2. KnowledgeHolds(p)'
    BY <1>1, <1>2, <1>3, <2>1 DEF KnowledgeHolds, Run, CachedFilesStay, installation
  <2> QED BY <1>2, <1>3, <2>2, GotoKeepsInvariant DEF Step
<1>4. RemovePending(p) => CacheInvariant'
  BY <1>1, <1>2, <1>3, WriteOfPending DEF RemovePending, Unlink
<1>5. ReceiveEnd(p) => CacheInvariant'
  BY <1>1, <1>2, <1>3, WriteOfPending DEF ReceiveEnd, TypeOK, Run
<1>6. ASSUME Request(p) PROVE CacheInvariant'
  <2>1. PICK b \in Body : Becomes(p, [r EXCEPT !.step = "RECEIVE", !.response = b])
    BY <1>6 DEF Request
  <2> DEFINE next == [r EXCEPT !.step = "RECEIVE", !.response = b]
  <2>2. /\ next \in Run /\ next.step = "RECEIVE" /\ next.at = r.at /\ next.failed = r.failed
        /\ next.check = r.check
    BY <1>2, <2>1 DEF Run, Step
  <2> HIDE DEF next
  <2>3. Becomes(p, next) /\ UNCHANGED outcome /\ run'[p] = next
    BY <1>2, <1>6, <2>1 DEF Becomes, TypeOK, next, Request
  <2>4. CachedFilesStay(p)
    BY <1>1, <1>2, <1>6, WriteOfPending, BodyAssumption DEF Request
  <2>5. KnowledgeHolds(p)'
    BY <1>1, <1>2, <2>2, <2>3 DEF KnowledgeHolds, installation
  <2> QED BY <1>2, <2>2, <2>3, <2>4, <2>5, StayingKeepsInvariant
<1>7. ASSUME ReceiveChunk(p) PROVE CacheInvariant'
  <2>1. PICK b \in Prefix(r.response) \ {Empty} : Write(PendingName(p), b)
    BY <1>7 DEF ReceiveChunk
  <2>2. CachedFilesStay(p)
    BY <1>1, <1>2, <2>1, WriteOfPending, BodyAssumption DEF Run
  <2>3. Becomes(p, r) /\ UNCHANGED outcome /\ run'[p] = r
    BY <1>2, <1>7 DEF ReceiveChunk, Becomes, TypeOK
  <2>4. KnowledgeHolds(p)'
    BY <1>1, <1>2, <2>3 DEF KnowledgeHolds, installation
  <2> QED BY <1>2, <2>2, <2>3, <2>4, StayingKeepsInvariant
<1>8. ASSUME Synchronize(p) PROVE CacheInvariant'
  <2> DEFINE next == [r EXCEPT !.step = "EXISTS", !.pending = TRUE, !.response = Empty]
  <2>1. /\ next \in Run /\ next.step = "EXISTS" /\ next.at = r.at /\ next.failed = r.failed
        /\ next.check = r.check
    BY <1>2, BodyAssumption DEF Run, Step
  <2> HIDE DEF next
  <2>2. Becomes(p, next) /\ UNCHANGED outcome /\ run'[p] = next
    BY <1>2, <1>8 DEF Synchronize, ValidatePending, Becomes, TypeOK, next
  <2>3. CachedFilesStay(p)
    BY <1>1, <1>2, <1>8 DEF Synchronize, CachedFilesStay, TypeOK
  <2>4. PendingName(p)' = PendingName(p) /\ PendingName(p) \in synced'
    BY <1>1, <1>8, <2>1, <2>2 DEF PendingName, Destination, Document, installation, Synchronize
  <2>5. KnowledgeHolds(p)'
    BY <1>1, <1>2, <2>1, <2>2, <2>4 DEF KnowledgeHolds, installation
  <2> QED BY <1>2, <2>1, <2>2, <2>3, <2>5, StayingKeepsInvariant
<1> QED BY <1>4, <1>5, <1>6, <1>7, <1>8

\* The error paths, and the end of a download.
LEMMA FaultKeepsInvariant ==
    ASSUME CacheInvariant, NEW p \in Process,
           Fails(p) \/ Raises(p) \/ Cleanup(p) \/ Kill(p)
    PROVE  CacheInvariant'
<1> DEFINE r == run[p]
<1>1. r.step # "IDLE" /\ UNCHANGED installation
  BY DEF Fails, Raises, Cleanup, Kill, At
<1>2. r \in Run /\ TypeOK /\ KnowledgeHolds(p)
  BY <1>1, RunIsAtDocument DEF CacheInvariant
<1>3. UNCHANGED disk => CachedFilesStay(p)
  BY <1>1, <1>2 DEF CachedFilesStay, disk, TypeOK
<1>4. Cleanup(p) => CachedFilesStay(p)
  BY <1>1, <1>2, WriteOfPending DEF Cleanup, Unlink, At, KnowledgeHolds
<1>5. ASSUME NEW step \in {"CLEANUP_AND_FAIL", "CLEANUP_AND_RAISE"}, Goto(p, step),
             CachedFilesStay(p), ~r.check
      PROVE  CacheInvariant'
  <2>1. run'[p] = [r EXCEPT !.step = step]
    BY <1>2, <1>5 DEF Goto, Becomes, TypeOK
  <2>2. KnowledgeHolds(p)'
    BY <1>1, <1>2, <1>5, <2>1 DEF KnowledgeHolds, Run, installation
  <2> QED BY <1>1, <1>5, <2>2, GotoKeepsInvariant DEF Step
<1>6. Fails(p) => CacheInvariant'
  BY <1>1, <1>2, <1>3, <1>5, NextDocumentKeepsInvariant DEF Fails, At, KnowledgeHolds
<1>7. Raises(p) => CacheInvariant'
  BY <1>1, <1>2, <1>3, <1>5, EndKeepsInvariant DEF Raises, At, KnowledgeHolds
<1>8. Cleanup(p) => CacheInvariant'
  <2>1. At(p, "CLEANUP") => Cached(r.at)
    BY <1>2 DEF At, KnowledgeHolds
  <2> QED BY <1>1, <1>4, <2>1, NextDocumentKeepsInvariant, EndKeepsInvariant DEF Cleanup
<1>9. Kill(p) => CacheInvariant'
  BY <1>1, <1>3, EndKeepsInvariant DEF Kill
<1> QED BY <1>6, <1>7, <1>8, <1>9

\* Putting a manual in place: another run that has looked at the file the new one
\* replaces, and has found nothing wrong, has seen the same digest.
LEMMA ReplaceKeepsInvariant ==
    ASSUME CacheInvariant, NEW p \in Process, Replace(p)
    PROVE  CacheInvariant'
<1> DEFINE r == run[p]
           d == Document(p)
           dest == Destination(p)
           b == directory[PendingName(p)]
           next == [r EXCEPT !.step = "CLEANUP"]
<1>1. /\ r.step = "REPLACE" /\ UNCHANGED installation /\ b # None /\ UNCHANGED outcome
      /\ Becomes(p, next)
      /\ directory' = [directory EXCEPT ![dest] = b, ![PendingName(p)] = None]
      /\ synced' = synced \ {PendingName(p)}
  BY Zenon DEF Replace, At, Goto
<1>2. /\ r \in Run /\ TypeOK /\ KnowledgeHolds(p) /\ ~r.check /\ p \in Fetcher
      /\ LoadDocuments(manifest) /\ r.at \in DOMAIN manifest
      /\ dest \in PdfName /\ dest = d.filename /\ d = manifest[r.at]
      /\ DOMAIN manifest = 1 .. Len(manifest) /\ Len(manifest) \in Nat
  BY <1>1, RunIsAtDocument DEF CacheInvariant, KnowledgeHolds, Destination, Document
<1>3. IsManual(d, b) /\ b = d.sha256 /\ b \in Body /\ PendingName(p) \in synced
  BY <1>1, <1>2 DEF KnowledgeHolds, IsManual
<1>4. survivors' = [survivors EXCEPT ![dest] = survivors[dest] \cup {b}]
  BY <1>2, <1>3 DEF Replace, TypeOK
<1>5. /\ \A f \in PdfName : f \in Name /\ f # PendingName(p)
      /\ PendingName(p) \in Name
  BY <1>2, NameAssumption DEF Name, PendingName
<1>6. \A f \in PdfName : directory'[f] = IF f = dest THEN b ELSE directory[f]
  BY <1>1, <1>2, <1>5 DEF TypeOK
<1>7. \A f \in PdfName : survivors'[f] = IF f = dest THEN survivors[dest] \cup {b}
                                                    ELSE survivors[f]
  BY <1>2, <1>4 DEF TypeOK
<1>8. next \in Run /\ run' = [run EXCEPT ![p] = next] /\ run'[p] = next
  BY <1>1, <1>2 DEF Run, Step, Becomes, TypeOK
<1>9. TypeOK'
  BY <1>1, <1>2, <1>3, <1>4, <1>5, <1>8 DEF TypeOK, installation
<1>10. \A i \in DOMAIN manifest : /\ manifest[i].filename \in PdfName
                                  /\ manifest[i].filename = dest => i = r.at
  BY <1>2, NamesAreDistinct
<1>11. \A i \in DOMAIN manifest : (Cached(i) \/ i = r.at) => Cached(i)'
  BY ZenonT(60), <1>1, <1>2, <1>3, <1>6, <1>10 DEF Cached, installation
<1>12. CacheHoldsNothingElse'
  <2> SUFFICES ASSUME NEW i \in DOMAIN manifest
               PROVE  LET m == manifest[i]
                          allowed == {initial[m.filename]} \cup {c \in Body : IsManual(m, c)}
                      IN  /\ directory'[m.filename] \in allowed
                          /\ survivors'[m.filename] \subseteq allowed
    <3>1. manifest' = manifest /\ initial' = initial
      BY <1>1 DEF installation
    <3> QED BY <3>1, Zenon DEF CacheHoldsNothingElse
  <2>1. LET m == manifest[i]
            allowed == {initial[m.filename]} \cup {c \in Body : IsManual(m, c)}
        IN  directory[m.filename] \in allowed /\ survivors[m.filename] \subseteq allowed
    BY <1>2 DEF CacheInvariant, CacheHoldsNothingElse
  <2>2. CASE manifest[i].filename = dest
    <3>1. i = r.at /\ manifest[i] = d /\ dest \in PdfName
      BY <1>2, <1>10, <2>2
    <3>2. directory'[dest] = b /\ survivors'[dest] = survivors[dest] \cup {b}
      BY <1>6, <1>7, <3>1
    <3>3. IsManual(manifest[i], b) /\ b \in Body
      BY <1>3, <3>1
    <3> QED
      BY <2>1, <2>2, <3>2, <3>3, ZenonT(30)
  <2>3. CASE manifest[i].filename # dest
    BY <1>6, <1>7, <1>10, <2>1, <2>3
  <2> QED BY <2>2, <2>3
<1>13. SuccessMeansCached'
  <2> SUFFICES ASSUME NEW q \in Process PROVE SuccessHolds(q)'
    BY DEF SuccessMeansCached, SuccessHolds
  <2>1. SuccessHolds(q)
    BY DEF CacheInvariant, SuccessMeansCached, SuccessHolds
  <2>2. /\ run'[q].at = run[q].at /\ run'[q].failed = run[q].failed
        /\ run'[q].step # "IDLE" => run[q].step # "IDLE"
    BY <1>1, <1>2, <1>8 DEF TypeOK, Run
  <2>3. run[q].step # "IDLE" => run[q].at \in DOMAIN manifest
    BY RunIsAtDocument
  <2> QED
    BY <1>1, <1>2, <1>11, <2>1, <2>2, <2>3 DEF SuccessHolds, At, installation, TypeOK, Run
<1>14. ASSUME NEW q \in Process PROVE KnowledgeHolds(q)'
  <2>1. CASE q = p
    <3>1. /\ next.step = "CLEANUP" /\ next.at = r.at /\ next.check = r.check
      BY <1>2 DEF Run
    <3> HIDE DEF next
    <3> QED BY <1>1, <1>2, <1>8, <1>11, <2>1, <3>1 DEF KnowledgeHolds, installation
  <2>2. CASE q # p
    <3>1. run'[q] = run[q] /\ KnowledgeHolds(q) /\ q \notin Fetcher
      BY <1>2, <1>8, <2>2, ProcessAssumption DEF CacheInvariant, TypeOK
    <3>2. CASE run[q].step = "IDLE"
      BY <3>1, <3>2 DEF KnowledgeHolds
    <3>3. CASE run[q].step # "IDLE"
      <4>1. /\ run[q].check /\ ~run[q].pending
            /\ run[q].step \in {"EXISTS", "DIGEST", "STRUCTURE", "PDFINFO", "PDFTOTEXT"}
            /\ run[q].at \in DOMAIN manifest
        BY <3>1, <3>3 DEF KnowledgeHolds
      <4>2. Document(q)' = Document(q) /\ Found(q) = directory[Document(q).filename]
            /\ Found(q)' = directory'[Document(q).filename]
        BY <1>1, <3>1, <4>1 DEF Found, Destination, Document, installation
      <4>3. Found(q) = Document(q).sha256 => Found(q)' = Found(q)
        BY ZenonT(60), <1>2, <1>3, <1>6, <1>10, <4>1, <4>2 DEF Document
      <4> QED BY <1>1, <3>1, <3>3, <4>1, <4>2, <4>3 DEF KnowledgeHolds, installation
    <3> QED BY <3>2, <3>3
  <2> QED BY <2>1, <2>2
<1> QED BY <1>9, <1>12, <1>13, <1>14 DEF CacheInvariant

\* A power loss leaves what may survive it, and no run.
LEMMA PowerLossKeepsInvariant ==
    ASSUME CacheInvariant, PowerLoss
    PROVE  CacheInvariant'
<1>1. PICK kept \in [PdfName -> UNION {survivors[f] : f \in PdfName}], g \in PdfName,
           left \in {Empty, None} :
         /\ \A f \in PdfName : kept[f] \in survivors[f]
         /\ directory' = [n \in Name |-> IF n \in PdfName THEN kept[n]
                                         ELSE IF n = Pending(g) THEN left
                                         ELSE directory[n]]
         /\ survivors' = [f \in PdfName |-> {kept[f]}]
  BY DEF PowerLoss
<1>2. /\ synced' = {} /\ run' = [p \in Process |-> Idle]
      /\ outcome' = [p \in Process |-> None] /\ UNCHANGED installation
  BY DEF PowerLoss
<1>3. TypeOK /\ Idle \in Run
  BY BodyAssumption DEF CacheInvariant, Idle, Run, Step
<1>4. \A f \in PdfName : /\ f \in Name /\ directory'[f] = kept[f]
                         /\ survivors'[f] = {kept[f]} /\ kept[f] \in Body \cup {None}
  BY <1>1, <1>3 DEF TypeOK, Name
<1>5. TypeOK'
  <2>1. directory' \in [Name -> Body \cup {None}]
    BY <1>1, <1>3, <1>4, BodyAssumption DEF TypeOK
  <2>2. survivors' \in [PdfName -> SUBSET (Body \cup {None})]
    BY <1>1, <1>4
  <2> HIDE DEF Idle
  <2> QED BY <1>2, <1>3, <2>1, <2>2 DEF TypeOK, installation
<1>6. CacheHoldsNothingElse'
  <2>1. manifest' = manifest /\ initial' = initial
    BY <1>2 DEF installation
  <2> SUFFICES ASSUME NEW i \in DOMAIN manifest, LoadDocuments(manifest)
               PROVE  LET m == manifest[i]
                          allowed == {initial[m.filename]} \cup {c \in Body : IsManual(m, c)}
                      IN  /\ directory'[m.filename] \in allowed
                          /\ survivors'[m.filename] \subseteq allowed
    BY <2>1, Zenon DEF CacheHoldsNothingElse
  <2> QED
    BY <1>1, <1>4, NamesAreDistinct DEF CacheInvariant, CacheHoldsNothingElse
<1>7. SuccessMeansCached'
  BY <1>2, NoneAssumption DEF SuccessMeansCached, At, Idle
<1>8. \A p \in Process : KnowledgeHolds(p)'
  BY <1>2 DEF KnowledgeHolds, Idle
<1> QED BY <1>5, <1>6, <1>7, <1>8 DEF CacheInvariant

-----------------------------------------------------------------------------
(* The theorems.                                                           *)

LEMMA InitEstablishesInvariant == Init => CacheInvariant
<1> SUFFICES ASSUME Init PROVE CacheInvariant
  OBVIOUS
<1>1. Idle \in Run
  BY BodyAssumption DEF Idle, Run, Step
<1>2. TypeOK
  <2> HIDE DEF Idle
  <2> QED BY <1>1 DEF Init, TypeOK, Name
<1>3. CacheHoldsNothingElse
  BY NamesAreDistinct DEF Init, CacheHoldsNothingElse
<1>4. SuccessMeansCached
  BY NoneAssumption DEF Init, SuccessMeansCached, At, Idle
<1>5. \A p \in Process : KnowledgeHolds(p)
  BY DEF Init, KnowledgeHolds, Idle
<1> QED BY <1>2, <1>3, <1>4, <1>5 DEF CacheInvariant

LEMMA NextKeepsInvariant == CacheInvariant /\ [Next]_vars => CacheInvariant'
<1> SUFFICES ASSUME CacheInvariant, [Next]_vars PROVE CacheInvariant'
  OBVIOUS
<1>1. CASE PowerLoss
  BY <1>1, PowerLossKeepsInvariant
<1>2. ASSUME NEW p \in Process, Start(p) PROVE CacheInvariant'
  BY <1>2, StartKeepsInvariant
<1>3. ASSUME NEW p \in Process, Validate(p) \/ InspectionFails(p) PROVE CacheInvariant'
  BY <1>3, ValidateKeepsInvariant
<1>4. ASSUME NEW p \in Process, Download(p) \/ ReceiveChunk(p) PROVE CacheInvariant'
  BY <1>4, ReceiveKeepsInvariant, ReplaceKeepsInvariant, FaultKeepsInvariant DEF Download
<1>5. ASSUME NEW p \in Process, Fails(p) \/ Raises(p) \/ Kill(p) PROVE CacheInvariant'
  BY SMTT(30), <1>5, FaultKeepsInvariant
<1>6. CASE UNCHANGED vars
  BY <1>6, ZenonT(30) DEF vars, installation, disk, CacheInvariant, TypeOK, CacheHoldsNothingElse,
              SuccessMeansCached, KnowledgeHolds, Cached, At, Document, Destination,
              PendingName, Found
<1> QED BY <1>1, <1>2, <1>3, <1>4, <1>5, <1>6 DEF Next

\* Everything a run has found out about a file still holds when it acts on it, for any
\* number of runs beside the one that may fetch, whatever fails and whenever.
THEOREM InvariantHolds == Spec => []CacheInvariant
BY InitEstablishesInvariant, NextKeepsInvariant, PTL DEF Spec

\* What a document's name holds, now or after a power loss, is what it held at first or
\* the whole manual.
THEOREM NothingElseIsCached == Spec => []CacheHoldsNothingElse
<1>1. CacheInvariant => CacheHoldsNothingElse
  BY DEF CacheInvariant
<1> QED BY <1>1, InvariantHolds, PTL

\* A run that reports success leaves every document of the manifest cached and whole.
THEOREM SuccessIsTrue == Spec => []SuccessMeansCached
<1>1. CacheInvariant => SuccessMeansCached
  BY DEF CacheInvariant
<1> QED BY <1>1, InvariantHolds, PTL

LEMMA StepReplacesOnlyWrongManuals ==
    ASSUME CacheInvariant, Next
    PROVE  ReplacesOnlyWrongManuals
<1> SUFFICES ASSUME ~PowerLoss, NEW n \in Name, directory'[n] # directory[n]
             PROVE  \E i \in DOMAIN manifest :
                        \/ n = Pending(manifest[i].filename)
                        \/ n = manifest[i].filename /\ ~Cached(i) /\ Cached(i)'
  BY Zenon DEF ReplacesOnlyWrongManuals
<1>1. PICK p \in Process :
          \/ Start(p) \/ Validate(p) \/ Download(p)
          \/ ReceiveChunk(p) \/ InspectionFails(p) \/ Fails(p) \/ Raises(p) \/ Kill(p)
  BY DEF Next
<1>2. run[p].step # "IDLE" /\ (Replace(p) \/ \E b : Write(PendingName(p), b))
  <2>1. CASE Start(p) \/ Validate(p) \/ InspectionFails(p) \/ Fails(p) \/ Raises(p) \/ Kill(p)
    BY <2>1 DEF Start, Validate, Exists, Digest, Structure, Pdfinfo, Pdftotext,
                InspectionFails, Fails, Raises, Kill, disk
  <2>2. CASE Download(p) \/ ReceiveChunk(p)
    <3>1. run[p].step # "IDLE"
      BY <2>2 DEF Download, RemovePending, Request, ReceiveChunk, ReceiveEnd, Synchronize,
                  Replace, Cleanup, At
    <3>2. Replace(p) \/ Synchronize(p) \/ \E b : Write(PendingName(p), b)
      BY <2>2, Zenon DEF Download, RemovePending, Request, ReceiveChunk, ReceiveEnd, Cleanup,
                         Unlink
    <3> QED BY <3>1, <3>2 DEF Synchronize
  <2> QED BY <1>1, <2>1, <2>2
<1>3. PICK i \in DOMAIN manifest :
          /\ TypeOK /\ i = run[p].at /\ Document(p) = manifest[i]
          /\ PendingName(p) = Pending(manifest[i].filename)
          /\ Destination(p) = manifest[i].filename
          /\ PendingName(p) \in Name /\ Destination(p) \in Name
  BY <1>2, RunIsAtDocument DEF CacheInvariant, PendingName, Destination, Document
<1>4. CASE n # PendingName(p)
  <2>1. Replace(p)
    BY SMTT(30), <1>2, <1>3, <1>4 DEF Write, TypeOK
  <2>2. /\ manifest' = manifest /\ run[p].step = "REPLACE"
        /\ directory' = [directory EXCEPT ![Destination(p)] = directory[PendingName(p)],
                                         ![PendingName(p)] = None]
    BY <2>1, Zenon DEF Replace, At, installation
  <2>3. /\ n = Destination(p) /\ directory'[n] = directory[PendingName(p)]
        /\ IsManual(manifest[i], directory[PendingName(p)])
    <3>1. directory \in [Name -> Body \cup {None}]
      BY <1>3 DEF TypeOK
    <3>2. KnowledgeHolds(p)
      BY DEF CacheInvariant
    <3>3. IsManual(Document(p), directory[PendingName(p)])
      BY <2>2, <3>2, Zenon DEF KnowledgeHolds
    <3> QED
      BY <1>3, <1>4, <2>2, <3>1, <3>3, Zenon
  <2>4. ~Cached(i) /\ Cached(i)'
    BY <1>3, <2>1, <2>2, <2>3 DEF Cached, IsManual
  <2> QED BY <1>3, <2>3, <2>4
<1> QED BY <1>3, <1>4

\* While the machine stays up, a manual's name goes straight from what is missing or wrong
\* to the whole manual.
THEOREM ReplacementsAreOfWrongManuals == Spec => OnlyWrongManualsAreReplaced
<1>1. CacheInvariant /\ [Next]_vars => [ReplacesOnlyWrongManuals]_vars
  BY StepReplacesOnlyWrongManuals
<1> QED BY <1>1, InvariantHolds, PTL DEF Spec, OnlyWrongManualsAreReplaced
=============================================================================
