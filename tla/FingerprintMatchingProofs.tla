----------------------- MODULE FingerprintMatchingProofs -----------------------
(***************************************************************************)
(* Proofs about FingerprintMatching, for any searches, scores and          *)
(* threshold.  The matching only reads the registry, so that what is       *)
(* proved of the registry alone holds beside the searches as well.  The    *)
(* inductive invariant adds what a search knows at each of its steps: its  *)
(* list is of prints that are still stored with the same templates, holds  *)
(* every readable print that stayed active, and the part of it compared so *)
(* far has no score above the best.                                        *)
(***************************************************************************)
EXTENDS FingerprintMatching, FingerprintRegistryProofs

USE ScoreAssumption, ThresholdAssumption

\* What the matcher says of the probe of h and template t.
Says(h, t) == Score[h.probe, t]

\* No entry of E has a higher score than bound.
AtMost(h, E, bound) == \A e \in E : Says(h, e[2]) <= bound

\* Print p is stored, and x is its score.
Scores(h, p, x) == Stored(p) /\ x = Says(h, prints[p].template)

ScanTrue(h) ==
    h.pc = "scan" =>
        /\ h.best = NoPrint => h.score = 0
        /\ h.best # NoPrint => Scores(h, h.best, h.score)
        /\ AtMost(h, h.listed \ h.todo, h.score)

SaveTrue(h) ==
    h.pc = "save" =>
        /\ h.found # NoPrint => Scores(h, h.found, h.score) /\ h.score >= Threshold
        /\ h.probe \notin Featureless =>
              AtMost(h, h.listed, IF h.found = NoPrint THEN Threshold - 1 ELSE h.score)

\* What a search knows.
SearchTrue(h) ==
    /\ \A e \in h.listed : Stored(e[1]) /\ prints[e[1]].template = e[2]
    /\ h.kind = "direct" /\ h.pc # "idle" => h.probe \in Image /\ h.pc # "part"
    /\ ScanTrue(h)
    /\ SaveTrue(h)

SearchOK(h) == h \in Searching /\ SearchWellFormed(h) /\ SearchTrue(h)

\* A search that has its list has every readable print on it that stayed active since it
\* began.
Covers(s) ==
    search[s].pc \notin { "idle", "list" } =>
        \A p \in steady[s] : Readable(p) => << p, prints[p].template >> \in search[s].listed

SearchesOK ==
    /\ search \in [ Search -> Searching ]
    /\ steady \in [ Search -> SUBSET PrintID ]
    /\ \A s \in Search : SearchOK(search[s]) /\ steady[s] \subseteq ActivePrints /\ Covers(s)

ResultsOK ==
    /\ results \subseteq Result
    /\ trail   \subseteq { "match.executed", "match.direct_executed" }
    /\ MatchesAreGenuine
    /\ ReportedIsSaved

MatchingInv == RegistryInv /\ SearchesOK /\ ResultsOK

LEMMA MatchingInvTypes == MatchingInv => TypeOK
BY RegistryInvImplies DEF MatchingInv, SearchesOK, ResultsOK, SearchOK, TypeOK

LEMMA MatchingInvResults == MatchingInv => MatchesAreGenuine /\ ReportedIsSaved
BY DEF MatchingInv, ResultsOK

\* What is on the list has been compared, and what stayed active is on the list.
LEMMA MatchingInvOverlooks == MatchingInv => NothingOverlooked
<1> SUFFICES ASSUME MatchingInv, NEW s \in Search, SearchAt(s, "save"),
                    search[s].probe \notin Featureless, NEW p \in steady[s], Readable(p)
             PROVE  Score[search[s].probe, prints[p].template]
                      <= IF search[s].found = NoPrint THEN Threshold - 1 ELSE search[s].score
  BY DEF NothingOverlooked
<1>1. SearchTrue(search[s]) /\ Covers(s) /\ search[s].pc = "save"
  BY DEF MatchingInv, SearchesOK, SearchOK, SearchAt
<1>2. << p, prints[p].template >> \in search[s].listed
  BY <1>1 DEF Covers
<1> QED
  BY <1>1, <1>2 DEF SearchTrue, SaveTrue, AtMost, Says

LEMMA RestingOK ==
    Resting \in Searching /\ Resting.pc = "idle" /\ Resting.answer = {} /\ SearchOK(Resting)
<1>1. Resting \in Searching
  BY DEF Resting, Searching
<1>2. /\ Resting.pc = "idle" /\ Resting.answer = {} /\ Resting.listed = {}
      /\ Resting.todo = {} /\ Resting.kind = "direct"
  BY DEF Resting
<1> QED
  BY <1>1, <1>2 DEF SearchOK, SearchWellFormed, SearchTrue, ScanTrue, SaveTrue

LEMMA MatchingInitInv == Init => MatchingInv
<1> SUFFICES ASSUME Init PROVE MatchingInv
  OBVIOUS
<1>1. RegistryInv
  BY RegistryInitInv DEF Init
<1>2. /\ search \in [ Search -> Searching ] /\ steady \in [ Search -> SUBSET PrintID ]
      /\ \A s \in Search : search[s] = Resting /\ steady[s] = {}
  BY RestingOK DEF Init
<1>3. SearchesOK
  BY <1>2, RestingOK DEF SearchesOK, Covers
<1>4. ResultsOK
  BY <1>2, RestingOK DEF Init, ResultsOK, MatchesAreGenuine, ReportedIsSaved
<1> QED
  BY <1>1, <1>3, <1>4 DEF MatchingInv

\* An overlap has two parts at most, and one at least unless Cloudinary rejected them.
LEMMA PartsAreFew ==
    ASSUME NEW parts \in Parts
    PROVE  /\ Len(parts) \in 0 .. 2
           /\ "none" \notin PartPaths => Len(parts) > 0
           /\ \A k \in 1 .. Len(parts) : parts[k] \in Part
<1>1. CASE parts \in Part \X Part
  <2>1. PICK a \in Part, b \in Part : parts = << a, b >>
    BY <1>1
  <2> QED
    BY <2>1
<1>2. CASE parts \in { << p >> : p \in Part }
  <2>1. PICK a \in Part : parts = << a >>
    BY <1>2
  <2> QED
    BY <2>1
<1>3. CASE parts = << >> /\ "none" \in PartPaths
  BY <1>3
<1> QED
  BY <1>1, <1>2, <1>3 DEF Parts

-----------------------------------------------------------------------------
(***************************************************************************)
(* What a search knows outlives the steps of the registry.                 *)
(***************************************************************************)

LEMMA KnowledgeIsStable ==
    ASSUME RegistryInv, KeepsPrints, NEW h, SearchOK(h)
    PROVE  SearchOK(h)'
<1>1. \A p : Stored(p) => Stored(p)' /\ prints'[p].template = prints[p].template
  BY DEF KeepsPrints, Stored
<1>2. SearchTrue(h)'
  BY <1>1 DEF SearchOK, SearchTrue, ScanTrue, SaveTrue, Scores, AtMost
<1> QED
  BY <1>2 DEF SearchOK, SearchWellFormed

LEMMA GenuineIsStable ==
    ASSUME MatchingInv, KeepsPrints, UNCHANGED results
    PROVE  MatchesAreGenuine'
BY DEF MatchingInv, ResultsOK, MatchesAreGenuine, KeepsPrints, Stored

LEMMA RegistryMoves ==
    ASSUME MatchingInv, RegistryInv', KeepsPrints, UNCHANGED << results, trail >>, Steadily,
           search' \in [ Search -> Searching ],
           \A s \in Search : search'[s] = search[s] \/ search'[s] = Resting
    PROVE  MatchingInv'
<1>1. \A s \in Search : SearchOK(search[s]) /\ Covers(s) /\ steady[s] \subseteq ActivePrints
  BY DEF MatchingInv, SearchesOK
<1>2. \A s \in Search : SearchOK(search[s])'
  <2> SUFFICES ASSUME NEW s \in Search PROVE SearchOK(search[s])'
    OBVIOUS
  <2>1. PICK h : h = search'[s]
    OBVIOUS
  <2>2. SearchOK(h)
    BY <1>1, <2>1, RestingOK
  <2>3. SearchOK(h)'
    BY <2>2, KnowledgeIsStable DEF MatchingInv
  <2> QED
    BY <2>1, <2>3
<1>3. steady' = [ s \in Search |-> IF search'[s].pc = "idle" THEN {}
                                   ELSE IF search[s].pc = "idle" THEN ActivePrints
                                   ELSE steady[s] \cap ActivePrints' ]
  BY DEF Steadily
<1>4. steady' \in [ Search -> SUBSET PrintID ]
  BY <1>3 DEF ActivePrints
<1>5. ASSUME NEW s \in Search
      PROVE  (steady[s] \subseteq ActivePrints)' /\ Covers(s)'
  <2>1. CASE search'[s].pc = "idle"
    BY <1>3, <2>1 DEF Covers
  <2>2. CASE search'[s].pc # "idle"
    <3>1. search'[s] = search[s] /\ steady'[s] = steady[s] \cap ActivePrints'
      BY <1>3, <2>2, RestingOK
    <3>2. \A p \in steady[s] : /\ Stored(p) /\ prints'[p].template = prints[p].template
                               /\ Readable(p)' = Readable(p)
      BY <1>1 DEF KeepsPrints, Stored, ActivePrints, Readable
    <3> QED
      BY <1>1, <3>1, <3>2 DEF Covers
  <2> QED
    BY <2>1, <2>2
<1>6. SearchesOK'
  BY <1>2, <1>4, <1>5 DEF SearchesOK
<1>7. ResultsOK'
  <2>1. ReportedIsSaved'
    BY RestingOK DEF MatchingInv, ResultsOK, ReportedIsSaved
  <2> QED
    BY <2>1, GenuineIsStable DEF MatchingInv, ResultsOK
<1> QED
  BY <1>6, <1>7 DEF MatchingInv

-----------------------------------------------------------------------------
(***************************************************************************)
(* The steps of a search, which leave the registry alone.                  *)
(***************************************************************************)

\* Search s comes to hold h, which is in order, and saves what it must have saved.
LEMMA SearchMoves ==
    ASSUME MatchingInv, UNCHANGED registry, Steadily,
           NEW s \in Search, NEW h, Now(s, h), SearchOK(h),
           results \subseteq results', ResultsOK',
           h.pc \notin { "idle", "list" } =>
               /\ search[s].pc # "idle"
               /\ \A p \in steady[s] : Readable(p) => << p, prints[p].template >> \in h.listed
    PROVE  MatchingInv'
<1>1. UNCHANGED << prints, files, admin, logged, told, rejected >> /\ ActivePrints' = ActivePrints
  BY DEF registry, ActivePrints, Stored
<1>2. RegistryInv' /\ KeepsPrints
  BY RegistryNextKeeps DEF MatchingInv
<1>3. /\ search' = [ search EXCEPT ![s] = h ] /\ h \in Searching
      /\ search \in [ Search -> Searching ]
  BY DEF Now, SearchOK, MatchingInv, SearchesOK
<1>4. search' \in [ Search -> Searching ]
  BY <1>3
<1>5. search'[s] = h /\ \A q \in Search \ {s} : search'[q] = search[q]
  BY <1>3
<1>6. \A q \in Search : SearchOK(search[q]) /\ Covers(q) /\ steady[q] \subseteq ActivePrints
  BY DEF MatchingInv, SearchesOK
<1>7. \A q \in Search : SearchOK(search[q])'
  <2> SUFFICES ASSUME NEW q \in Search PROVE SearchOK(search[q])'
    OBVIOUS
  <2>1. PICK g : g = search'[q]
    OBVIOUS
  <2>2. SearchOK(g)
    BY <1>5, <1>6, <2>1
  <2>3. SearchOK(g)'
    BY <1>2, <2>2, KnowledgeIsStable DEF MatchingInv
  <2> QED
    BY <2>1, <2>3
<1>8. steady' = [ q \in Search |-> IF search'[q].pc = "idle" THEN {}
                                   ELSE IF search[q].pc = "idle" THEN ActivePrints
                                   ELSE steady[q] \cap ActivePrints' ]
  BY DEF Steadily
<1>9. steady' \in [ Search -> SUBSET PrintID ]
  BY <1>8 DEF ActivePrints
<1>10. ASSUME NEW q \in Search
       PROVE  (steady[q] \subseteq ActivePrints)' /\ Covers(q)'
  <2>1. (steady[q] \subseteq ActivePrints)'
    BY <1>1, <1>8
  <2>2. CASE q = s
    BY <1>1, <1>5, <1>8, <2>2 DEF Covers, Readable
  <2>3. CASE q # s
    BY <1>1, <1>5, <1>6, <1>8, <2>3 DEF Covers, Readable
  <2> QED
    BY <2>1, <2>2, <2>3
<1>11. SearchesOK'
  BY <1>4, <1>7, <1>9, <1>10 DEF SearchesOK
<1> QED
  BY <1>2, <1>11 DEF MatchingInv

LEMMA ScoreIsNatural ==
    ASSUME NEW h, h.probe \in Image, NEW t \in Image
    PROVE  Says(h, t) \in Nat
<1>1. << h.probe, t >> \in Image \X Image
  OBVIOUS
<1>2. Score[<< h.probe, t >>] \in Nat
  BY <1>1
<1> QED
  BY <1>2 DEF Says

LEMMA SearchingOf ==
    ASSUME MatchingInv, NEW s \in Search
    PROVE  /\ search[s] \in Searching /\ SearchWellFormed(search[s]) /\ SearchTrue(search[s])
           /\ Covers(s) /\ steady[s] \subseteq ActivePrints
           /\ search[s].kind = "overlap" => search[s].answer \subseteq results
BY DEF MatchingInv, SearchesOK, SearchOK, ResultsOK, ReportedIsSaved

\* A step that saves nothing: what it answers was saved before.
LEMMA SearchProceeds ==
    ASSUME MatchingInv, UNCHANGED registry, Steadily,
           NEW s \in Search, NEW h, Proceed(s, h), SearchOK(h),
           h.answer \subseteq search[s].answer, h.answer = {} \/ h.kind = search[s].kind,
           h.pc \notin { "idle", "list" } =>
               /\ search[s].pc # "idle"
               /\ \A p \in steady[s] : Readable(p) => << p, prints[p].template >> \in h.listed
    PROVE  MatchingInv'
<1>1. Now(s, h) /\ UNCHANGED << results, trail >> /\ UNCHANGED prints
  BY DEF Proceed, registry
<1>2. search'[s] = h /\ \A q \in Search \ {s} : search'[q] = search[q]
  BY <1>1 DEF Now, MatchingInv, SearchesOK
<1>3. ReportedIsSaved'
  BY <1>1, <1>2 DEF MatchingInv, ResultsOK, ReportedIsSaved
<1>4. MatchesAreGenuine'
  BY <1>1 DEF MatchingInv, ResultsOK, MatchesAreGenuine, Stored
<1>5. ResultsOK'
  BY <1>1, <1>3, <1>4 DEF MatchingInv, ResultsOK
<1> QED
  BY <1>1, <1>5, SearchMoves

LEMMA GiveUpKeeps ==
    ASSUME MatchingInv, UNCHANGED registry, Steadily, NEW s \in Search, GiveUp(s)
    PROVE  MatchingInv'
BY RestingOK, SearchProceeds DEF GiveUp

\* A search that only goes on with what it knows, at a step that claims nothing more.
LEMMA KnowledgeGoesOn ==
    ASSUME NEW g, SearchOK(g), NEW h \in Searching, SearchWellFormed(h),
           h.listed = g.listed, h.kind = g.kind,
           h.kind = "direct" => h.probe = g.probe /\ g.pc # "idle" /\ h.pc # "part",
           ScanTrue(h), SaveTrue(h)
    PROVE  SearchOK(h)
BY DEF SearchOK, SearchTrue

LEMMA BeginSearchKeeps ==
    ASSUME MatchingInv, UNCHANGED registry, Steadily, NEW s \in Search, BeginSearch(s)
    PROVE  MatchingInv'
<1>1. CASE \E parts \in Parts :
              Proceed(s, [ Resting EXCEPT !.pc = "list", !.kind = "overlap", !.parts = parts ])
  <2>1. PICK parts \in Parts :
            Proceed(s, [ Resting EXCEPT !.pc = "list", !.kind = "overlap", !.parts = parts ])
    BY <1>1
  <2>2. PICK h : h = [ Resting EXCEPT !.pc = "list", !.kind = "overlap", !.parts = parts ]
    OBVIOUS
  <2>3. /\ h.pc = "list" /\ h.kind = "overlap" /\ h.parts = parts /\ h.part = 0
        /\ h.listed = {} /\ h.todo = {} /\ h.answer = {}
    BY <2>2 DEF Resting
  <2>4. h \in Searching
    BY <2>2, RestingOK DEF Searching
  <2>5. Len(parts) \in Nat
    BY PartsAreFew
  <2>6. SearchOK(h)
    BY <2>3, <2>4, <2>5 DEF SearchOK, SearchWellFormed, SearchTrue, ScanTrue, SaveTrue
  <2> QED
    BY <2>1, <2>2, <2>3, <2>6, SearchProceeds
<1>2. CASE \E i \in Image :
              Proceed(s, [ Resting EXCEPT !.pc = "list", !.kind = "direct", !.probe = i ])
  <2>1. PICK i \in Image :
            Proceed(s, [ Resting EXCEPT !.pc = "list", !.kind = "direct", !.probe = i ])
    BY <1>2
  <2>2. PICK h : h = [ Resting EXCEPT !.pc = "list", !.kind = "direct", !.probe = i ]
    OBVIOUS
  <2>3. /\ h.pc = "list" /\ h.kind = "direct" /\ h.probe = i
        /\ h.listed = {} /\ h.todo = {} /\ h.answer = {}
    BY <2>2 DEF Resting
  <2>4. h \in Searching
    BY <2>2, RestingOK DEF Searching
  <2>5. SearchOK(h)
    BY <2>3, <2>4 DEF SearchOK, SearchWellFormed, SearchTrue, ScanTrue, SaveTrue
  <2> QED
    BY <2>1, <2>2, <2>3, <2>5, SearchProceeds
<1> QED
  BY <1>1, <1>2 DEF BeginSearch

LEMMA ListActiveKeeps ==
    ASSUME MatchingInv, UNCHANGED registry, Steadily, NEW s \in Search, ListActive(s)
    PROVE  MatchingInv'
<1> DEFINE g == search[s]
           next == IF g.kind = "overlap" THEN "part" ELSE "probe"
<1>1. /\ g \in Searching /\ SearchWellFormed(g) /\ SearchTrue(g) /\ g.pc = "list"
      /\ steady[s] \subseteq ActivePrints
  BY SearchingOf DEF ListActive, SearchAt
<1>2. PICK h : h = [ g EXCEPT !.pc = next, !.listed = Listed ]
  OBVIOUS
<1>3. /\ Listed \in SUBSET (PrintID \X Image)
      /\ \A e \in Listed : Stored(e[1]) /\ prints[e[1]].template = e[2]
      /\ \A p \in ActivePrints : Readable(p) => << p, prints[p].template >> \in Listed
  BY DEF Listed, ActivePrints, Stored, MatchingInv, RegistryInv, CollectionOK, Fingerprint
<1>4. /\ h \in Searching /\ h.pc = next /\ h.kind = g.kind /\ h.probe = g.probe
      /\ h.parts = g.parts /\ h.part = g.part /\ h.listed = Listed /\ h.todo = g.todo
      /\ h.answer = g.answer
  BY <1>1, <1>2, <1>3 DEF Searching
<1>5. SearchOK(h)
  BY <1>1, <1>3, <1>4
  DEF SearchOK, SearchWellFormed, SearchTrue, ScanTrue, SaveTrue, Searching
<1>6. CASE Proceed(s, h)
  BY <1>1, <1>3, <1>4, <1>5, <1>6, SearchProceeds
<1>7. CASE GiveUp(s)
  BY <1>7, GiveUpKeeps
<1> QED
  BY <1>2, <1>6, <1>7 DEF ListActive

\* A step of a search that has its list and keeps it.
LEMMA ListIsKept ==
    ASSUME MatchingInv, UNCHANGED registry, Steadily, NEW s \in Search,
           search[s].pc \notin { "idle", "list" }, NEW h \in Searching, Proceed(s, h),
           SearchWellFormed(h), h.listed = search[s].listed, h.kind = search[s].kind,
           h.answer = search[s].answer,
           h.kind = "direct" => h.probe = search[s].probe /\ h.pc # "part",
           ScanTrue(h), SaveTrue(h)
    PROVE  MatchingInv'
<1>1. SearchOK(search[s]) /\ Covers(s)
  BY SearchingOf DEF SearchOK
<1>2. SearchOK(h)
  BY <1>1, KnowledgeGoesOn
<1> QED
  BY <1>1, <1>2, SearchProceeds DEF Covers

LEMMA TakePartKeeps ==
    ASSUME MatchingInv, UNCHANGED registry, Steadily, NEW s \in Search, TakePart(s)
    PROVE  MatchingInv'
<1> DEFINE g == search[s]
           k == g.part + 1
<1>1. /\ g \in Searching /\ SearchWellFormed(g) /\ SearchTrue(g) /\ g.pc = "part"
  BY SearchingOf DEF TakePart, SearchAt
<1>2. /\ g.kind = "overlap" /\ g.parts \in Parts /\ g.part \in 0 .. 2
      /\ g.part <= Len(g.parts) /\ g.todo = {}
  BY <1>1 DEF Searching, SearchWellFormed, SearchTrue
<1>3. Len(g.parts) \in 0 .. 2 /\ \A i \in 1 .. Len(g.parts) : g.parts[i] \in Part
  BY <1>2, PartsAreFew
<1>4. g.part < Len(g.parts) =>
          k \in 0 .. 2 /\ k <= Len(g.parts) /\ g.parts[k].image \in Image
  <2>1. PICK n \in 0 .. 2 : n = Len(g.parts)
    BY <1>3
  <2>2. PICK p \in 0 .. 2 : p = g.part
    BY <1>2
  <2>3. p < n => p + 1 \in 1 .. n /\ p + 1 \in 0 .. 2
    OBVIOUS
  <2>4. \A i \in 1 .. n : g.parts[i].image \in Image
    BY <1>3, <2>1 DEF Part
  <2> QED
    BY <2>1, <2>2, <2>3, <2>4
<1>5. CASE Proceed(s, [ g EXCEPT !.pc = "audit" ])
  <2>1. PICK h : h = [ g EXCEPT !.pc = "audit" ]
    OBVIOUS
  <2>2. /\ h \in Searching /\ h.pc = "audit" /\ h.kind = g.kind /\ h.parts = g.parts
        /\ h.part = g.part /\ h.listed = g.listed /\ h.todo = g.todo /\ h.answer = g.answer
    BY <1>1, <2>1 DEF Searching
  <2>3. SearchWellFormed(h) /\ ScanTrue(h) /\ SaveTrue(h)
    BY <1>2, <2>2 DEF SearchWellFormed, ScanTrue, SaveTrue
  <2> QED
    BY <1>1, <1>2, <1>5, <2>1, <2>2, <2>3, ListIsKept
<1>6. CASE g.part < Len(g.parts) /\ Proceed(s, [ g EXCEPT !.part = k ])
  <2>1. PICK h : h = [ g EXCEPT !.part = k ]
    OBVIOUS
  <2>2. k \in 0 .. 2 /\ k <= Len(g.parts)
    BY <1>6, <1>4
  <2>3. /\ h \in Searching /\ h.pc = "part" /\ h.kind = g.kind /\ h.parts = g.parts
        /\ h.part = k /\ h.listed = g.listed /\ h.todo = g.todo /\ h.answer = g.answer
    BY <1>1, <2>1, <2>2 DEF Searching
  <2>4. SearchWellFormed(h) /\ ScanTrue(h) /\ SaveTrue(h)
    BY <1>2, <2>2, <2>3 DEF SearchWellFormed, ScanTrue, SaveTrue
  <2> QED
    BY <1>1, <1>2, <1>6, <2>1, <2>3, <2>4, ListIsKept
<1>7. CASE /\ g.part < Len(g.parts)
           /\ Proceed(s, [ g EXCEPT !.part = k, !.pc = "probe", !.probe = g.parts[k].image ])
  <2>1. PICK h : h = [ g EXCEPT !.part = k, !.pc = "probe", !.probe = g.parts[k].image ]
    OBVIOUS
  <2>2. k \in 0 .. 2 /\ k <= Len(g.parts) /\ g.parts[k].image \in Image
    BY <1>7, <1>4
  <2>3. /\ h \in Searching /\ h.pc = "probe" /\ h.kind = g.kind /\ h.parts = g.parts
        /\ h.part = k /\ h.probe \in Image /\ h.listed = g.listed /\ h.todo = g.todo
        /\ h.answer = g.answer
    BY <1>1, <2>1, <2>2 DEF Searching
  <2>4. SearchWellFormed(h) /\ ScanTrue(h) /\ SaveTrue(h)
    BY <1>2, <2>2, <2>3 DEF SearchWellFormed, ScanTrue, SaveTrue
  <2> QED
    BY <1>1, <1>2, <1>7, <2>1, <2>3, <2>4, ListIsKept
<1> QED
  BY <1>5, <1>6, <1>7 DEF TakePart

LEMMA ExtractProbeKeeps ==
    ASSUME MatchingInv, UNCHANGED registry, Steadily, NEW s \in Search, ExtractProbe(s)
    PROVE  MatchingInv'
<1> DEFINE g == search[s]
           e == [ g EXCEPT !.best = NoPrint, !.score = 0, !.found = NoPrint ]
<1>1. /\ g \in Searching /\ SearchWellFormed(g) /\ g.pc = "probe" /\ g.probe \in Image
  BY SearchingOf DEF ExtractProbe, SearchAt, SearchWellFormed
<1>2. /\ e \in Searching /\ e.best = NoPrint /\ e.score = 0 /\ e.found = NoPrint
      /\ e.pc = "probe" /\ e.kind = g.kind /\ e.parts = g.parts /\ e.part = g.part
      /\ e.probe = g.probe /\ e.listed = g.listed /\ e.todo = g.todo /\ e.answer = g.answer
  BY <1>1 DEF Searching
<1>3. PICK h : h = [ e EXCEPT !.pc = "save" ]
  OBVIOUS
<1>4. PICK j : j = [ e EXCEPT !.pc = "scan", !.todo = e.listed ]
  OBVIOUS
<1>5. \/ GiveUp(s)
      \/ (e.listed = {} \/ e.probe \in Featureless) /\ Proceed(s, h)
      \/ Proceed(s, j)
  BY <1>3, <1>4 DEF ExtractProbe
<1> HIDE DEF e
<1>6. CASE GiveUp(s)
  BY <1>6, GiveUpKeeps
<1>7. CASE (e.listed = {} \/ e.probe \in Featureless) /\ Proceed(s, h)
  <2>1. /\ h \in Searching /\ h.pc = "save" /\ h.found = NoPrint /\ h.kind = g.kind
        /\ h.parts = g.parts /\ h.part = g.part /\ h.probe = g.probe
        /\ h.listed = g.listed /\ h.todo = g.todo /\ h.answer = g.answer
    BY <1>2, <1>3 DEF Searching
  <2>2. SearchWellFormed(h) /\ ScanTrue(h)
    BY <1>1, <2>1 DEF SearchWellFormed, ScanTrue
  <2>3. SaveTrue(h)
    BY <1>2, <1>7, <2>1 DEF SaveTrue, AtMost
  <2> QED
    BY <1>1, <1>7, <2>1, <2>2, <2>3, ListIsKept
<1>8. CASE Proceed(s, j)
  <2>1. /\ j \in Searching /\ j.pc = "scan" /\ j.best = NoPrint /\ j.score = 0
        /\ j.kind = g.kind /\ j.parts = g.parts /\ j.part = g.part /\ j.probe = g.probe
        /\ j.listed = g.listed /\ j.todo = g.listed /\ j.answer = g.answer
    BY <1>2, <1>4 DEF Searching
  <2>2. SearchWellFormed(j) /\ SaveTrue(j)
    BY <1>1, <2>1 DEF SearchWellFormed, SaveTrue
  <2>3. ScanTrue(j)
    BY <2>1 DEF ScanTrue, AtMost
  <2> QED
    BY <1>1, <1>8, <2>1, <2>2, <2>3, ListIsKept
<1> QED
  BY <1>5, <1>6, <1>7, <1>8

LEMMA CompareNextKeeps ==
    ASSUME MatchingInv, UNCHANGED registry, Steadily, NEW s \in Search, CompareNext(s)
    PROVE  MatchingInv'
<1> DEFINE g == search[s]
<1>1. /\ g \in Searching /\ SearchWellFormed(g) /\ SearchTrue(g) /\ g.pc = "scan"
  BY SearchingOf DEF CompareNext, SearchAt
<1>2. PICK entry \in g.todo :
          Proceed(s, IF Says(g, entry[2]) > g.score
                     THEN [ [ g EXCEPT !.todo = @ \ { entry } ]
                              EXCEPT !.best = entry[1], !.score = Says(g, entry[2]) ]
                     ELSE [ g EXCEPT !.todo = @ \ { entry } ])
  <2>1. PICK entry \in g.todo :
            LET h == [ g EXCEPT !.todo = @ \ { entry } ]
                x == Score[h.probe, entry[2]]
            IN  Proceed(s, IF x > h.score THEN [ h EXCEPT !.best = entry[1], !.score = x ] ELSE h)
    BY DEF CompareNext
  <2>2. PICK h : h = [ g EXCEPT !.todo = @ \ { entry } ]
    OBVIOUS
  <2>3. h.probe = g.probe /\ h.score = g.score
    BY <1>1, <2>2 DEF Searching
  <2>4. Proceed(s, IF Score[h.probe, entry[2]] > h.score
                   THEN [ h EXCEPT !.best = entry[1], !.score = Score[h.probe, entry[2]] ]
                   ELSE h)
    BY <2>1, <2>2
  <2>5. Proceed(s, IF Says(g, entry[2]) > g.score
                   THEN [ h EXCEPT !.best = entry[1], !.score = Says(g, entry[2]) ]
                   ELSE h)
    BY <2>3, <2>4 DEF Says
  <2> QED
    BY <2>2, <2>5
<1>3. /\ g.probe \in Image /\ g.todo \subseteq g.listed /\ g.listed \subseteq PrintID \X Image
      /\ g.score \in Nat /\ g.best \in PrintID \cup {NoPrint}
      /\ \A e \in g.listed : Stored(e[1]) /\ prints[e[1]].template = e[2]
      /\ g.best = NoPrint => g.score = 0
      /\ g.best # NoPrint => Scores(g, g.best, g.score)
      /\ AtMost(g, g.listed \ g.todo, g.score)
  BY <1>1 DEF Searching, SearchWellFormed, SearchTrue, ScanTrue
<1>4. PICK x \in Nat : x = Says(g, entry[2])
  BY <1>3, ScoreIsNatural
<1>5. entry[1] \in PrintID /\ entry[1] # NoPrint /\ Scores(g, entry[1], x)
  BY <1>3, <1>4, NullAssumption DEF Scores
<1>6. \A e \in g.listed : Says(g, e[2]) \in Nat
  BY <1>3, ScoreIsNatural
<1>7. PICK h : h = [ g EXCEPT !.todo = @ \ { entry } ]
  OBVIOUS
<1>8. /\ h \in Searching /\ h.pc = "scan" /\ h.kind = g.kind /\ h.parts = g.parts
      /\ h.part = g.part /\ h.probe = g.probe /\ h.listed = g.listed
      /\ h.todo = g.todo \ { entry } /\ h.best = g.best /\ h.score = g.score
      /\ h.answer = g.answer
  BY <1>1, <1>7 DEF Searching
<1>9. CASE ~(x > g.score)
  <2>1. AtMost(g, h.listed \ h.todo, g.score)
    BY <1>3, <1>4, <1>8, <1>9 DEF AtMost
  <2>2. ScanTrue(h)
    BY <1>3, <1>8, <2>1 DEF ScanTrue, AtMost, Scores, Says
  <2>3. SearchWellFormed(h) /\ SaveTrue(h)
    BY <1>1, <1>8 DEF SearchWellFormed, SaveTrue
  <2>4. Proceed(s, h)
    BY <1>2, <1>4, <1>7, <1>9
  <2> QED
    BY <1>1, <1>8, <2>2, <2>3, <2>4, ListIsKept
<1>10. CASE x > g.score
  <2>1. PICK j : j = [ h EXCEPT !.best = entry[1], !.score = x ]
    OBVIOUS
  <2>2. /\ j \in Searching /\ j.pc = "scan" /\ j.kind = g.kind /\ j.parts = g.parts
        /\ j.part = g.part /\ j.probe = g.probe /\ j.listed = g.listed
        /\ j.todo = g.todo \ { entry } /\ j.best = entry[1] /\ j.score = x
        /\ j.answer = g.answer
    BY <1>5, <1>8, <2>1 DEF Searching
  <2>3. AtMost(g, j.listed \ j.todo, x)
    <3>1. \A e \in g.listed \ g.todo : Says(g, e[2]) <= x
      BY <1>3, <1>6, <1>10 DEF AtMost
    <3> QED
      BY <1>4, <2>2, <3>1 DEF AtMost
  <2>4. ScanTrue(j)
    BY <1>5, <2>2, <2>3 DEF ScanTrue, AtMost, Scores, Says
  <2>5. SearchWellFormed(j) /\ SaveTrue(j)
    BY <1>1, <2>2 DEF SearchWellFormed, SaveTrue
  <2>6. Proceed(s, j)
    BY <1>2, <1>4, <1>7, <1>10, <2>1
  <2> QED
    BY <1>1, <2>2, <2>4, <2>5, <2>6, ListIsKept
<1> QED
  BY <1>9, <1>10

LEMMA DecideKeeps ==
    ASSUME MatchingInv, UNCHANGED registry, Steadily, NEW s \in Search, Decide(s)
    PROVE  MatchingInv'
<1> DEFINE g == search[s]
<1>1. /\ g \in Searching /\ SearchWellFormed(g) /\ SearchTrue(g) /\ g.pc = "scan"
      /\ g.todo = {}
  BY SearchingOf DEF Decide, SearchAt
<1>2. /\ g.probe \in Image /\ g.listed \subseteq PrintID \X Image
      /\ g.score \in Nat /\ g.best \in PrintID \cup {NoPrint}
      /\ g.best = NoPrint => g.score = 0
      /\ g.best # NoPrint => Scores(g, g.best, g.score)
      /\ AtMost(g, g.listed, g.score)
  BY <1>1 DEF Searching, SearchWellFormed, SearchTrue, ScanTrue
<1>3. PICK h : h = [ g EXCEPT !.pc = "save",
                             !.found = IF g.score >= Threshold THEN g.best ELSE NoPrint ]
  OBVIOUS
<1>4. /\ h \in Searching /\ h.pc = "save" /\ h.kind = g.kind /\ h.parts = g.parts
      /\ h.part = g.part /\ h.probe = g.probe /\ h.listed = g.listed /\ h.todo = g.todo
      /\ h.score = g.score /\ h.answer = g.answer
      /\ h.found = IF g.score >= Threshold THEN g.best ELSE NoPrint
  BY <1>1, <1>2, <1>3 DEF Searching
<1>5. g.score >= Threshold => g.best # NoPrint
  BY <1>2
<1>6. \A e \in g.listed : Says(g, e[2]) \in Nat
  BY <1>2, ScoreIsNatural
<1>7. SaveTrue(h)
  <2>1. h.found # NoPrint => Scores(h, h.found, h.score) /\ h.score >= Threshold
    BY <1>2, <1>4 DEF Scores, Says
  <2>2. AtMost(g, g.listed, IF h.found = NoPrint THEN Threshold - 1 ELSE g.score)
    BY <1>2, <1>4, <1>5, <1>6 DEF AtMost
  <2>3. AtMost(h, h.listed, IF h.found = NoPrint THEN Threshold - 1 ELSE h.score)
    BY <1>4, <2>2 DEF AtMost, Says
  <2> QED
    BY <2>1, <2>3 DEF SaveTrue
<1>8. SearchWellFormed(h) /\ ScanTrue(h)
  BY <1>1, <1>4 DEF SearchWellFormed, ScanTrue
<1>9. Proceed(s, h)
  BY <1>3 DEF Decide
<1> QED
  BY <1>1, <1>4, <1>7, <1>8, <1>9, ListIsKept

LEMMA SaveResultKeeps ==
    ASSUME MatchingInv, UNCHANGED registry, Steadily, NEW s \in Search, SaveResult(s)
    PROVE  MatchingInv'
<1> DEFINE g == search[s]
           x == ResultOf(g)
<1>1. /\ g \in Searching /\ SearchWellFormed(g) /\ SearchTrue(g) /\ g.pc = "save"
      /\ Covers(s)
      /\ g.kind = "overlap" => g.answer \subseteq results
  BY SearchingOf DEF SaveResult, SearchAt
<1>2. /\ g.probe \in Image /\ g.score \in Nat /\ g.found \in PrintID \cup {NoPrint}
      /\ g.found # NoPrint => Scores(g, g.found, g.score) /\ g.score >= Threshold
  BY <1>1 DEF Searching, SearchWellFormed, SearchTrue, SaveTrue
<1>3. /\ x \in Result /\ x.probe = g.probe /\ x.print = g.found
      /\ g.found # NoPrint => x.score = g.score
  BY <1>2 DEF ResultOf, Result
<1>4. x.print # NoPrint => /\ Stored(x.print)
                           /\ x.score = Score[x.probe, prints[x.print].template]
                          /\ x.score >= Threshold
  BY <1>2, <1>3 DEF Scores, Says
<1>5. PICK h : h = [ g EXCEPT !.answer = @ \cup { x },
                             !.pc = IF g.kind = "overlap" THEN "part" ELSE "audit" ]
  OBVIOUS
<1>6. PICK result \in WriteResults :
          /\ results' = IF result = "refused" THEN results ELSE results \cup { x }
          /\ Now(s, IF g.kind = "overlap" /\ result # "ok" THEN Resting ELSE h)
  BY <1>5 DEF SaveResult
<1>7. UNCHANGED trail /\ UNCHANGED prints
  BY DEF SaveResult, registry
<1> HIDE DEF x
<1>8. /\ h \in Searching /\ h.kind = g.kind /\ h.parts = g.parts /\ h.part = g.part
      /\ h.probe = g.probe /\ h.listed = g.listed /\ h.todo = g.todo
      /\ h.answer = g.answer \cup { x }
      /\ h.pc = IF g.kind = "overlap" THEN "part" ELSE "audit"
  BY <1>1, <1>3, <1>5 DEF Searching
<1>9. SearchOK(h)
  BY <1>1, <1>8 DEF SearchOK, SearchWellFormed, SearchTrue, ScanTrue, SaveTrue
<1>10. results \subseteq results' /\ results' \subseteq results \cup { x }
  BY <1>6
<1>11. MatchesAreGenuine'
  BY <1>4, <1>7, <1>10 DEF MatchingInv, ResultsOK, MatchesAreGenuine, Stored
<1>12. PICK j : j = IF g.kind = "overlap" /\ result # "ok" THEN Resting ELSE h
  OBVIOUS
<1>13. j.kind = "overlap" => j.answer \subseteq results'
  <2>1. CASE g.kind = "overlap" /\ result # "ok"
    BY <1>12, <2>1, RestingOK
  <2>2. CASE ~(g.kind = "overlap" /\ result # "ok")
    <3> SUFFICES ASSUME j.kind = "overlap" PROVE j.answer \subseteq results'
      OBVIOUS
    <3>1. j = h /\ h.kind = g.kind
      BY <1>8, <1>12, <2>2
    <3>2. result = "ok" /\ g.answer \subseteq results
      BY <1>1, <2>2, <3>1
    <3>3. results' = results \cup { x }
      BY <1>6, <3>2
    <3> QED
      BY <1>8, <3>1, <3>2, <3>3
  <2> QED
    BY <2>1, <2>2
<1>14. ReportedIsSaved'
  <2>1. search'[s] = j /\ \A q \in Search \ {s} : search'[q] = search[q]
    BY <1>6, <1>12 DEF Now, MatchingInv, SearchesOK
  <2> QED
    BY <1>10, <1>13, <2>1 DEF MatchingInv, ResultsOK, ReportedIsSaved
<1>15. ResultsOK'
  BY <1>3, <1>7, <1>10, <1>11, <1>14 DEF MatchingInv, ResultsOK
<1>16. Now(s, j) /\ SearchOK(j)
  <2>1. SearchOK(j)
    BY <1>9, <1>12, RestingOK
  <2> QED
    BY <1>6, <1>12, <2>1
<1>17. j.pc \notin { "idle", "list" } =>
           \A p \in steady[s] : Readable(p) => << p, prints[p].template >> \in j.listed
  <2>1. \A p \in steady[s] : Readable(p) => << p, prints[p].template >> \in h.listed
    BY <1>1, <1>8 DEF Covers
  <2>2. j = Resting \/ j = h
    BY <1>12
  <2> QED
    BY <2>1, <2>2, RestingOK
<1> QED
  BY <1>1, <1>10, <1>15, <1>16, <1>17, SearchMoves

LEMMA LogSearchKeeps ==
    ASSUME MatchingInv, UNCHANGED registry, Steadily, NEW s \in Search, LogSearch(s)
    PROVE  MatchingInv'
<1>1. Now(s, Resting) /\ UNCHANGED results /\ UNCHANGED prints
  BY DEF LogSearch, registry
<1>2. trail' \subseteq { "match.executed", "match.direct_executed" }
  BY DEF LogSearch, MatchingInv, ResultsOK
<1>3. MatchesAreGenuine'
  BY <1>1 DEF MatchingInv, ResultsOK, MatchesAreGenuine, Stored
<1>4. ReportedIsSaved'
  <2>1. search'[s] = Resting /\ \A q \in Search \ {s} : search'[q] = search[q]
    BY <1>1 DEF Now, MatchingInv, SearchesOK
  <2> QED
    BY <1>1, <2>1, RestingOK DEF MatchingInv, ResultsOK, ReportedIsSaved
<1>5. ResultsOK'
  BY <1>1, <1>2, <1>3, <1>4 DEF MatchingInv, ResultsOK
<1> QED
  BY <1>1, <1>5, RestingOK, SearchMoves

LEMMA SearchStepKeeps ==
    ASSUME MatchingInv, UNCHANGED registry, Steadily, NEW s \in Search, SearchStep(s)
    PROVE  MatchingInv'
BY BeginSearchKeeps, ListActiveKeeps, TakePartKeeps, ExtractProbeKeeps, CompareNextKeeps,
   DecideKeeps, SaveResultKeeps, LogSearchKeeps DEF SearchStep

-----------------------------------------------------------------------------
(***************************************************************************)
(* All steps, and the theorems.                                            *)
(***************************************************************************)

\* A step of the whole is one of the registry or leaves it alone.
LEMMA NextIsRegistryNext == [Next]_vars => [RegistryNext]_registry
BY DEF Next, vars, Crash, RegistryNext

LEMMA NextKeeps ==
    ASSUME MatchingInv, [Next]_vars
    PROVE  MatchingInv'
<1>1. RegistryInv' /\ KeepsPrints
  BY NextIsRegistryNext, RegistryNextKeeps DEF MatchingInv
<1>2. search \in [ Search -> Searching ]
  BY DEF MatchingInv, SearchesOK
<1>3. ASSUME NEW s \in Search, SearchStep(s), UNCHANGED registry, Steadily
      PROVE  MatchingInv'
  BY <1>3, SearchStepKeeps
<1>4. CASE (\E r \in Request : RegistryStep(r)) /\ UNCHANGED matching /\ Steadily
  <2>1. UNCHANGED << search, results, trail >>
    BY <1>4 DEF matching
  <2> QED
    BY <1>1, <1>2, <1>4, <2>1, RegistryMoves
<1>5. CASE Crash /\ Steadily
  <2>1. /\ search' \in [ Search -> Searching ]
        /\ \A s \in Search : search'[s] = Resting
        /\ UNCHANGED << results, trail >>
    BY <1>5, RestingOK DEF Crash
  <2> QED
    BY <1>1, <1>5, <2>1, RegistryMoves
<1>6. CASE UNCHANGED vars
  <2>1. /\ UNCHANGED << search, results, trail, steady >>
        /\ UNCHANGED << prints, files, admin, logged, told, rejected >>
    BY <1>6 DEF vars, matching, registry
  <2>2. SearchesOK'
    BY <2>1 DEF MatchingInv, SearchesOK, SearchOK, SearchWellFormed, SearchTrue, ScanTrue,
                SaveTrue, Scores, AtMost, Covers, ActivePrints, Stored, Readable
  <2>3. ResultsOK'
    BY <2>1 DEF MatchingInv, ResultsOK, MatchesAreGenuine, ReportedIsSaved, Stored
  <2> QED
    BY <1>1, <2>2, <2>3 DEF MatchingInv
<1> QED
  BY <1>3, <1>4, <1>5, <1>6 DEF Next

\* The invariant holds of every state searches and registry reach together
\* (match_handler.go, match_service.go).
THEOREM MatchingInvariant == Spec => []MatchingInv
<1>1. MatchingInv /\ [Next]_vars => MatchingInv'
  BY NextKeeps
<1> QED
  BY <1>1, MatchingInitInv, PTL DEF Spec

\* Beside the searches the registry behaves as it does alone: the searches only read it.
\* What is proved of RegistrySpec is so true of the whole.
THEOREM SearchesOnlyRead == Spec => RegistrySpec
<1>1. Init => RegistryInit
  BY DEF Init
<1> QED
  BY <1>1, NextIsRegistryNext, PTL DEF Spec, RegistrySpec

\* Every variable has its type, and every search holds what its position in the code says.
THEOREM MatchingTypeCorrect == Spec => []TypeOK
BY MatchingInvariant, MatchingInvTypes, PTL

\* However many prints there are and whatever the registry does meanwhile, a search
\* overlooks no print that stayed active since it began and whose template can be read back
\* (ProcessBiometricMatch over the prints GetAllActive returned).
THEOREM NothingIsOverlooked == Spec => []NothingOverlooked
BY MatchingInvariant, MatchingInvOverlooks, PTL

\* A saved match names a print of the registry and the score the matcher gave it, now and
\* for good (MatchFingerprint, DirectMatch).
THEOREM MatchesGenuine == Spec => []MatchesAreGenuine
BY MatchingInvariant, MatchingInvResults, PTL

\* What a search for an overlap answers was saved (MatchFingerprint).
THEOREM ReportedSaved == Spec => []ReportedIsSaved
BY MatchingInvariant, MatchingInvResults, PTL

-----------------------------------------------------------------------------
(***************************************************************************)
(* How far the empty searches go.  The violation of OverlapSearchCompares  *)
(* needs parts that cannot be read or have no path: where the parts are    *)
(* files and files can be read, every answered search has compared one.    *)
(***************************************************************************)

Comparing(h) ==
    h.kind = "overlap" =>
        /\ h.pc = "list" => h.part = 0
        /\ h.pc = "audit" \/ (h.pc = "part" /\ h.part > 0) => h.answer # {}

AllCompare == \A s \in Search : Comparing(search[s])

LEMMA ComparesOn ==
    ASSUME MatchingInv, AllCompare, NEW s \in Search, NEW h, Now(s, h), Comparing(h)
    PROVE  AllCompare'
BY DEF MatchingInv, SearchesOK, AllCompare, Now

LEMMA RestingCompares == Comparing(Resting)
BY DEF Resting, Comparing

LEMMA SearchStepCompares ==
    ASSUME PartPaths \subseteq { "file" }, "disk" \notin Faults,
           MatchingInv, AllCompare, NEW s \in Search, SearchStep(s)
    PROVE  AllCompare'
<1> DEFINE g == search[s]
<1>1. g \in Searching /\ SearchWellFormed(g) /\ SearchTrue(g) /\ Comparing(g)
  BY SearchingOf DEF AllCompare
<1>2. CASE GiveUp(s)
  BY <1>2, RestingCompares, ComparesOn DEF GiveUp, Proceed
<1>3. CASE BeginSearch(s)
  <2>1. PICK h : /\ Now(s, h)
                 /\ \/ \E p \in Parts :
                          h = [ Resting EXCEPT !.pc = "list", !.kind = "overlap", !.parts = p ]
                    \/ \E i \in Image :
                          h = [ Resting EXCEPT !.pc = "list", !.kind = "direct", !.probe = i ]
    BY <1>3 DEF BeginSearch, Proceed
  <2>2. h.pc = "list" /\ h.part = 0
    BY <2>1 DEF Resting
  <2> QED
    BY <2>1, <2>2, ComparesOn DEF Comparing
<1>4. CASE ListActive(s)
  <2>1. PICK h : h = [ g EXCEPT !.pc = IF g.kind = "overlap" THEN "part" ELSE "probe",
                                !.listed = Listed ]
    OBVIOUS
  <2>2. /\ g.pc = "list" /\ h.part = g.part /\ h.kind = g.kind
        /\ h.pc = IF g.kind = "overlap" THEN "part" ELSE "probe"
    BY <1>1, <1>4, <2>1 DEF Searching, ListActive, SearchAt
  <2>3. Comparing(h)
    BY <1>1, <2>2 DEF Comparing
  <2> QED
    BY <1>2, <1>4, <2>1, <2>3, ComparesOn DEF ListActive, Proceed
<1>5. CASE TakePart(s)
  <2>1. /\ g.pc = "part" /\ g.kind = "overlap" /\ g.part \in 0 .. 2
        /\ Len(g.parts) \in 1 .. 2 /\ \A i \in 1 .. Len(g.parts) : g.parts[i].path # "url"
    <3>1. g.pc = "part" /\ g.kind = "overlap" /\ g.part \in 0 .. 2 /\ g.parts \in Parts
      BY <1>1, <1>5 DEF TakePart, SearchAt, Searching, SearchTrue, SearchWellFormed
    <3> QED
      BY <3>1, PartsAreFew DEF Part
  <2>2. CASE g.part = Len(g.parts) /\ Now(s, [ g EXCEPT !.pc = "audit" ])
    <3>1. PICK h : h = [ g EXCEPT !.pc = "audit" ]
      OBVIOUS
    <3>2. h.pc = "audit" /\ h.answer = g.answer /\ g.part > 0
      BY <1>1, <2>1, <2>2, <3>1 DEF Searching
    <3> QED
      BY <1>1, <2>1, <2>2, <3>1, <3>2, ComparesOn DEF Comparing
  <2>3. CASE /\ g.part < Len(g.parts)
             /\ g.parts[g.part + 1].path = "url" \/ "disk" \in Faults
    <3>1. g.part + 1 \in 1 .. Len(g.parts)
      BY <2>1, <2>3
    <3> QED
      BY <2>1, <2>3, <3>1
  <2>4. CASE Now(s, [ g EXCEPT !.part = g.part + 1, !.pc = "probe",
                               !.probe = g.parts[g.part + 1].image ])
    <3>1. PICK h : h = [ g EXCEPT !.part = g.part + 1, !.pc = "probe",
                                  !.probe = g.parts[g.part + 1].image ]
      OBVIOUS
    <3>2. h.pc = "probe"
      BY <1>1, <3>1 DEF Searching
    <3> QED
      BY <2>4, <3>1, <3>2, ComparesOn DEF Comparing
  <2> QED
    BY <1>5, <2>2, <2>3, <2>4 DEF TakePart, Proceed
<1>6. CASE ExtractProbe(s)
  <2>1. PICK e : e = [ g EXCEPT !.best = NoPrint, !.score = 0, !.found = NoPrint ]
    OBVIOUS
  <2>2. e \in Searching
    BY <1>1, <2>1 DEF Searching
  <2>3. PICK h : h = [ e EXCEPT !.pc = "save" ]
    OBVIOUS
  <2>4. PICK j : j = [ e EXCEPT !.pc = "scan", !.todo = e.listed ]
    OBVIOUS
  <2>5. GiveUp(s) \/ Now(s, h) \/ Now(s, j)
    BY <1>6, <2>1, <2>3, <2>4 DEF ExtractProbe, Proceed
  <2>6. h.pc = "save" /\ j.pc = "scan"
    BY <2>2, <2>3, <2>4 DEF Searching
  <2> QED
    BY <1>2, <2>5, <2>6, ComparesOn DEF Comparing
<1>7. CASE CompareNext(s)
  <2>1. PICK entry \in g.todo :
          \E h : /\ Now(s, h)
                 /\ \E x : \/ h = [ g EXCEPT !.todo = @ \ { entry } ]
                           \/ h = [ [ g EXCEPT !.todo = @ \ { entry } ]
                                      EXCEPT !.best = entry[1], !.score = x ]
    BY <1>7, Zenon DEF CompareNext, Proceed
  <2>2. PICK h : /\ Now(s, h)
                 /\ \E x : \/ h = [ g EXCEPT !.todo = @ \ { entry } ]
                           \/ h = [ [ g EXCEPT !.todo = @ \ { entry } ]
                                      EXCEPT !.best = entry[1], !.score = x ]
    BY <2>1
  <2>3. g.pc = "scan"
    BY <1>7 DEF CompareNext, SearchAt
  <2>4. h.pc = "scan"
    BY <1>1, <2>2, <2>3 DEF Searching
  <2> QED
    BY <2>2, <2>4, ComparesOn DEF Comparing
<1>8. CASE Decide(s)
  <2>1. PICK h : h = [ g EXCEPT !.pc = "save",
                               !.found = IF g.score >= Threshold THEN g.best ELSE NoPrint ]
    OBVIOUS
  <2>2. h.pc = "save"
    BY <1>1, <2>1 DEF Searching
  <2> QED
    BY <1>8, <2>1, <2>2, ComparesOn DEF Decide, Proceed, Comparing
<1>9. CASE SaveResult(s)
  <2>1. PICK h : h = [ g EXCEPT !.answer = @ \cup { ResultOf(g) },
                               !.pc = IF g.kind = "overlap" THEN "part" ELSE "audit" ]
    OBVIOUS
  <2>2. Now(s, Resting) \/ Now(s, h)
    BY <1>9, <2>1 DEF SaveResult
  <2>3. h.answer # {} /\ h.pc \in { "part", "audit" }
    BY <1>1, <2>1 DEF Searching
  <2> QED
    BY <2>2, <2>3, RestingCompares, ComparesOn DEF Comparing
<1>10. CASE LogSearch(s)
  BY <1>10, RestingCompares, ComparesOn DEF LogSearch
<1> QED
  BY <1>3, <1>4, <1>5, <1>6, <1>7, <1>8, <1>9, <1>10 DEF SearchStep

\* Where the parts of overlaps are files that can be read, a search for an overlap is
\* answered only after it compared a part (MatchFingerprint, os.ReadFile): paths that are
\* URLs or empty, and files that are lost, are the only way to an empty answer.
THEOREM SearchesCompareFiles ==
    ASSUME PartPaths \subseteq { "file" }, "disk" \notin Faults
    PROVE  Spec => []OverlapSearchCompares
<1>1. Init => AllCompare
  BY RestingCompares DEF Init, AllCompare
<1>2. MatchingInv /\ AllCompare /\ [Next]_vars => AllCompare'
  <2> SUFFICES ASSUME MatchingInv, AllCompare, [Next]_vars PROVE AllCompare'
    OBVIOUS
  <2>1. CASE \E s \in Search : SearchStep(s)
    BY <2>1, SearchStepCompares
  <2>2. CASE UNCHANGED search
    BY <2>2 DEF AllCompare
  <2>3. CASE Crash
    BY <2>3, RestingCompares DEF Crash, AllCompare
  <2> QED
    BY <2>1, <2>2, <2>3 DEF Next, vars, matching
<1>3. AllCompare => OverlapSearchCompares
  BY DEF AllCompare, Comparing, OverlapSearchCompares, SearchAt
<1> QED
  BY <1>1, <1>2, <1>3, MatchingInvariant, PTL DEF Spec
===============================================================================
