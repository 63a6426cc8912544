-------------------------- MODULE FingerprintMatching --------------------------
(***************************************************************************)
(* Searching the registry.  A search lists the active prints once and      *)
(* compares the probe with their templates one by one, while the registry  *)
(* goes on changing; a search for a separated overlap does so for each of  *)
(* its one or two parts and saves a result per part, a direct search does  *)
(* it for one uploaded picture.                                            *)
(***************************************************************************)
EXTENDS FingerprintRegistry, Sequences

CONSTANTS
    Search,      \* searches handled at the same time
    Unreadable,  \* pictures whose template, once stored, cannot be read back
    Score,       \* what the matcher says of a picture's template and another's as read back
    Threshold,   \* MatchThreshold
    Kinds,       \* the kinds of search that occur: "overlap", "direct"
    PartPaths,   \* where an overlap's parts may be: "url" (on Cloudinary), "file" (on disk),
                 \* "none" (Cloudinary rejected them)
    MaxResults   \* bound: no search begins once so many results are saved

ASSUME UnreadableAssumption == Unreadable \subseteq Image
ASSUME ScoreAssumption     == Score \in [ Image \X Image -> Nat ]
ASSUME ThresholdAssumption == Threshold \in Nat \ {0}
ASSUME KindsAssumption     == Kinds \subseteq { "overlap", "direct" }
ASSUME PartPathsAssumption == PartPaths \subseteq { "url", "file", "none" }
ASSUME MaxResultsAssumption == MaxResults \in Nat

\* A completed overlap was separated into one print or two; what a part shows is one of the
\* pictures.  A part with an empty path is passed over, which leaves one part or none
\* (CompletedIsWhole of OverlapPipeline).
Part  == [ path : PartPaths \ { "none" }, image : Image ]
Parts == (Part \X Part) \cup { << p >> : p \in Part }
           \cup (IF "none" \in PartPaths THEN { << >> } ELSE {})

\* What a search found for one part: the print it matched, if any, and the score it reports.
Result == [ probe : Image, print : PrintID \cup {NoPrint}, score : Nat ]

\* What a search holds.  part counts the parts taken up; listed are the prints it knows with
\* their templates, todo those it has not compared the probe with yet.
Searching ==
    [ pc     : { "idle", "list", "part", "probe", "scan", "save", "audit" },
      kind   : { "overlap", "direct" },
      parts  : Parts \cup { << >> },
      part   : 0 .. 2,
      probe  : Image \cup {NoImage},
      listed : SUBSET (PrintID \X Image),
      todo   : SUBSET (PrintID \X Image),
      best   : PrintID \cup {NoPrint},
      score  : Nat,
      found  : PrintID \cup {NoPrint},      \* the print it reports
      answer : SUBSET Result ]            \* the results so far

VARIABLES
    search,    \* the searches being handled
    results,   \* the matches collection
    trail,     \* the searches' audit log
    steady     \* history: the prints active ever since each search began

matching == << search, results, trail >>
vars     == << registry, matching, steady >>

Resting == [ pc |-> "idle", kind |-> "direct", parts |-> << >>, part |-> 0, probe |-> NoImage,
             listed |-> {}, todo |-> {}, best |-> NoPrint, score |-> 0, found |-> NoPrint,
             answer |-> {} ]

\* What a search holds when.
SearchWellFormed(h) ==
    /\ h.pc \in { "probe", "scan", "save" } => h.probe \in Image
    /\ h.kind = "overlap" /\ h.pc # "idle" => h.parts \in Parts /\ h.part <= Len(h.parts)
    /\ h.todo \subseteq h.listed
    /\ h.pc # "scan" => h.todo = {}

TypeOK ==
    /\ RegistryTypeOK
    /\ search  \in [ Search -> Searching ]
    /\ results \subseteq Result
    /\ trail   \subseteq { "match.executed", "match.direct_executed" }
    /\ steady  \in [ Search -> SUBSET PrintID ]
    /\ \A s \in Search : SearchWellFormed(search[s])

Init ==
    /\ RegistryInit
    /\ search  = [ s \in Search |-> Resting ]
    /\ results = {}
    /\ trail   = {}
    /\ steady  = [ s \in Search |-> {} ]

-----------------------------------------------------------------------------
SearchAt(s, pc) == search[s].pc = pc

Now(s, h) == search' = [ search EXCEPT ![s] = h ]

Proceed(s, h) == Now(s, h) /\ UNCHANGED << results, trail >>

\* The search is over without an answer: 500.
GiveUp(s) == Proceed(s, Resting)

\* MatchFingerprint wants a completed overlap, DirectMatch any picture.
BeginSearch(s) ==
    /\ SearchAt(s, "idle")
    /\ Cardinality(results) < MaxResults
    /\ \/ \E parts \in Parts :
             /\ "overlap" \in Kinds
             /\ Proceed(s, [ Resting EXCEPT !.pc = "list", !.kind = "overlap", !.parts = parts ])
       \/ \E i \in Image :
             /\ "direct" \in Kinds
             /\ Proceed(s, [ Resting EXCEPT !.pc = "list", !.kind = "direct", !.probe = i ])

Readable(p) == prints[p].template \notin Unreadable

\* Prints whose template cannot be read back are passed over.
Listed == { << p, prints[p].template >> : p \in { q \in ActivePrints : Readable(q) } }

\* Faulty variant: the prints come from the paged listing, of which this is the first page.
ListActiveFirstPage(s) ==
    /\ SearchAt(s, "list")
    /\ \/ \E page \in SUBSET Listed :
             /\ Cardinality(page) <= 1
             /\ Listed # {} => page # {}
             /\ Proceed(s, [ search[s] EXCEPT !.pc = IF search[s].kind = "overlap" THEN "part" ELSE "probe",
                                              !.listed = page ])
       \/ ReadFails /\ GiveUp(s)

ListActive(s) ==
    /\ SearchAt(s, "list")
    /\ \/ Proceed(s, [ search[s] EXCEPT !.pc = IF search[s].kind = "overlap" THEN "part" ELSE "probe",
                                        !.listed = Listed ])
       \/ ReadFails /\ GiveUp(s)

\* The next part of the overlap, read as a file: a URL is no file.
TakePart(s) ==
    /\ SearchAt(s, "part")
    /\ LET h == search[s]
           k == h.part + 1
       IN  \/ /\ h.part = Len(h.parts)
              /\ Proceed(s, [ h EXCEPT !.pc = "audit" ])
           \/ /\ h.part < Len(h.parts)
              /\ h.parts[k].path = "url" \/ "disk" \in Faults
              /\ Proceed(s, [ h EXCEPT !.part = k ])
           \/ /\ h.part < Len(h.parts)
              /\ h.parts[k].path = "file"
              /\ Proceed(s, [ h EXCEPT !.part = k, !.pc = "probe", !.probe = h.parts[k].image ])

\* Faulty variant: the highest score is kept from one part to the next.
ExtractProbeNoReset(s) ==
    /\ SearchAt(s, "probe")
    /\ LET h == search[s]
       IN  IF h.kind = "direct" /\ h.probe \in Featureless THEN GiveUp(s)
           ELSE IF h.kind = "overlap" /\ (h.listed = {} \/ h.probe \in Featureless)
           THEN Proceed(s, [ h EXCEPT !.pc = "save", !.found = NoPrint ])
           ELSE Proceed(s, [ h EXCEPT !.pc = "scan", !.todo = h.listed ])

\* A picture that gives no template fails a direct search; for a part of an overlap the
\* error is only logged, and the part counts as matching nothing.
ExtractProbe(s) ==
    /\ SearchAt(s, "probe")
    /\ LET h == [ search[s] EXCEPT !.best = NoPrint, !.score = 0, !.found = NoPrint ]
       IN  IF h.kind = "direct" /\ h.probe \in Featureless THEN GiveUp(s)
           ELSE IF h.kind = "overlap" /\ (h.listed = {} \/ h.probe \in Featureless)
           THEN Proceed(s, [ h EXCEPT !.pc = "save" ])
           ELSE Proceed(s, [ h EXCEPT !.pc = "scan", !.todo = h.listed ])

\* One more template, in the order the database gave them.
CompareNext(s) ==
    /\ SearchAt(s, "scan")
    /\ \E entry \in search[s].todo :
          LET h == [ search[s] EXCEPT !.todo = @ \ { entry } ]
              x == Score[h.probe, entry[2]]
          IN  Proceed(s, IF x > h.score THEN [ h EXCEPT !.best = entry[1], !.score = x ] ELSE h)

\* Faulty variant: the first print that reaches the threshold ends the comparison.
DecideEarly(s) ==
    /\ SearchAt(s, "scan")
    /\ LET h == search[s]
       IN  /\ h.todo = {} \/ h.score >= Threshold
           /\ Proceed(s, [ h EXCEPT !.pc = "save",
                             !.found = IF h.score >= Threshold THEN h.best ELSE NoPrint ])

\* A match is reported with its score, and with its details unless it was deleted meanwhile;
\* only a search for an overlap reports the score of a miss.
Decide(s) ==
    /\ SearchAt(s, "scan")
    /\ search[s].todo = {}
    /\ LET h == search[s]
       IN  Proceed(s, [ h EXCEPT !.pc = "save",
                          !.found = IF h.score >= Threshold THEN h.best ELSE NoPrint ])

ResultOf(h) ==
    [ probe |-> h.probe, print |-> h.found,
      score |-> IF h.kind = "direct" /\ h.found = NoPrint THEN 0 ELSE h.score ]

\* Faulty variant: a result of an overlap is reported though it could not be saved.
SaveResultUnchecked(s) ==
    /\ SearchAt(s, "save")
    /\ \E result \in WriteResults :
          LET h == search[s]
              x == ResultOf(h)
          IN  /\ results' = IF result = "refused" THEN results ELSE results \cup { x }
              /\ Now(s, [ h EXCEPT !.answer = @ \cup { x },
                                   !.pc = IF h.kind = "overlap" THEN "part" ELSE "audit" ])
    /\ UNCHANGED trail

\* DirectMatch does not look at the error of the save.
SaveResult(s) ==
    /\ SearchAt(s, "save")
    /\ \E result \in WriteResults :
          LET h == search[s]
              x == ResultOf(h)
          IN  /\ results' = IF result = "refused" THEN results ELSE results \cup { x }
              /\ Now(s, IF h.kind = "overlap" /\ result # "ok" THEN Resting
                        ELSE [ h EXCEPT !.answer = @ \cup { x },
                                        !.pc = IF h.kind = "overlap" THEN "part" ELSE "audit" ])
    /\ UNCHANGED trail

\* The audit entry, whose error is discarded, and the answer.
LogSearch(s) ==
    /\ SearchAt(s, "audit")
    /\ \E result \in WriteResults :
          trail' = IF result = "refused" THEN trail
                   ELSE trail \cup { IF search[s].kind = "overlap" THEN "match.executed"
                                     ELSE "match.direct_executed" }
    /\ Now(s, Resting)
    /\ UNCHANGED results

SearchStep(s) ==
    \/ BeginSearch(s) \/ ListActive(s) \/ TakePart(s) \/ ExtractProbe(s)
    \/ CompareNext(s) \/ Decide(s) \/ SaveResult(s) \/ LogSearch(s)

Crash == RegistryCrash /\ search' = [ s \in Search |-> Resting ] /\ UNCHANGED << results, trail >>

-----------------------------------------------------------------------------
Steadily ==
    steady' = [ s \in Search |-> IF search'[s].pc = "idle" THEN {}
                                 ELSE IF search[s].pc = "idle" THEN ActivePrints
                                 ELSE steady[s] \cap ActivePrints' ]

Next ==
    /\ \/ (\E s \in Search : SearchStep(s)) /\ UNCHANGED registry
       \/ (\E r \in Request : RegistryStep(r)) /\ UNCHANGED matching
       \/ Crash
    /\ Steadily

Spec == Init /\ [][Next]_vars

-----------------------------------------------------------------------------
(***************************************************************************)
(* Properties.                                                             *)
(***************************************************************************)

\* Whatever the registry does meanwhile, a search overlooks no print that stayed active all
\* the time and whose template can be read: when it reports a print, the matcher gave none of
\* those a higher score, and when it reports none, none of them reaches the threshold
\* (ProcessBiometricMatch over the prints GetAllActive returned).
NothingOverlooked ==
    \A s \in Search : SearchAt(s, "save") /\ search[s].probe \notin Featureless =>
        \A p \in { q \in steady[s] : Readable(q) } :
            Score[search[s].probe, prints[p].template]
              <= IF search[s].found = NoPrint THEN Threshold - 1 ELSE search[s].score

\* A saved match names a print of the registry that the matcher gave the saved score, at
\* least the threshold, whatever has happened to the registry since (MatchFingerprint,
\* DirectMatch).
MatchesAreGenuine ==
    \A m \in results : m.print # NoPrint =>
        /\ Stored(m.print)
        /\ m.score = Score[m.probe, prints[m.print].template]
        /\ m.score >= Threshold

\* What a search for an overlap answers is in the database (MatchFingerprint).
ReportedIsSaved ==
    \A s \in Search : search[s].kind = "overlap" => search[s].answer \subseteq results

\* "MatchFingerprint initiates matching against all registered fingerprints"
\* (match_handler.go:33): an overlap's search that is answered compared a part at least.
OverlapSearchCompares ==
    \A s \in Search : SearchAt(s, "audit") /\ search[s].kind = "overlap" => search[s].answer # {}
===============================================================================
