------------------------- MODULE CaseSession_proofs -------------------------
(***************************************************************************)
(* Proofs about the cases of a browser: for any number of tabs, cases,     *)
(* writes, failures and closed tabs, and for any demo, no record is left   *)
(* of a case that is gone, unless an analyst deleted it or wrote into it   *)
(* while it was not whole.                                                 *)
(***************************************************************************)
EXTENDS CaseSession, TLAPS, WellFoundedInduction

-----------------------------------------------------------------------------
(* The inductive invariant *)

PageFields == {"pc", "open", "todo", "c", "from", "off", "part", "then", "left"}
CaseFields == {"name", "restoring", "whole"}
Steps == {"delData", "delRules", "delCase", "delLast"}
Sequels == {"next", "sweep", "fetch", "failed"}   \* what a deletion was part of

\* A tab in a deletion or a restore, and one that has the restore lock of its case.
Working(g) == g.pc \in {"fill", "finish"} \/ g.pc \in Steps
Locked(g) == g.pc \in {"fill", "finish"} \/ (g.pc \in Steps /\ g.then \in {"sweep", "failed"})

\* Records of every origin have the fields of a record, so a copy under a new case has that case.
Shaped(rs) == \A r \in rs : DOMAIN r = RecordFields
ShapedPage(g) == DOMAIN g = PageFields /\ Shaped(g.from) /\ Shaped(g.part)
Shapes ==
    /\ DOMAIN pages = Page /\ \A p \in Page : ShapedPage(pages[p])
    /\ \A c \in Ids : DOMAIN kases[c] = CaseFields
    /\ Shaped(recs) /\ Shaped(bundle.recs) /\ DOMAIN bundle = {"recs", "case", "whole"}
    /\ DOMAIN nextIds = Tables \cup {"cases"} /\ nextIds.cases \in Nat \ {0}

\* A case id is given once.
Numbered == \A c \in Ids : c \in Nat \ {0} /\ c < nextIds.cases

\* The lock of a case is held by one tab.
Exclusive == \A p, q \in Page : Locked(pages[p]) /\ Locked(pages[q]) /\ pages[p].c = pages[q].c => p = q

\* A tab that deletes or fills a case nobody gave up has its lock, and the case is restoring until it is gone;
\* what a step of the deletion has removed stays removed.
Operation(g, restoring, given, rs, next) ==
    /\ Locked(g) => g.c \in Nat \ {0} /\ g.c < next
    /\ Locked(g) /\ g.pc # "delLast" /\ g.c \notin given => g.c \in restoring
    /\ g.pc \in Steps => g.then \in Sequels /\ (~Locked(g) => g.c \in given)
    /\ g.pc = "fill" => g.left # {} /\ g.left \subseteq Tables
    /\ g.pc = "delRules" /\ g.c \notin given => \A r \in InCase(rs, g.c) : r.t = "customRules"
    /\ g.pc = "delCase" /\ g.c \notin given => InCase(rs, g.c) = {}
Operations == \A p \in Page : Operation(pages[p], Restoring, condemned, recs, nextIds.cases)

SessionInv == Shapes /\ Numbered /\ Exclusive /\ Operations /\ NothingWithoutCase

-----------------------------------------------------------------------------
(* Frames *)

\* An operation goes on undisturbed when its case stays restoring and gains no record.
LEMMA Undisturbed ==
    ASSUME NEW g, NEW R, NEW R2, NEW G, NEW G2, NEW rs, NEW rs2, NEW n, NEW n2,
           Operation(g, R, G, rs, n),
           G \subseteq G2, n \in Nat, n2 \in Nat, n <= n2,
           Locked(g) /\ g.c \in R /\ g.c \notin G2 => g.c \in R2 /\ InCase(rs2, g.c) \subseteq InCase(rs, g.c)
    PROVE  Operation(g, R2, G2, rs2, n2)
<1>1. Locked(g) => g.c \in Nat \ {0} /\ g.c < n2
  BY DEF Operation
<1>2. Locked(g) /\ g.pc # "delLast" /\ g.c \notin G2 => g.c \in R2
  BY DEF Operation
<1>3. g.pc \in Steps => g.then \in Sequels /\ (~Locked(g) => g.c \in G2)
  BY DEF Operation
<1>4. ASSUME g.pc \in {"delRules", "delCase"}, g.c \notin G2
      PROVE  InCase(rs2, g.c) \subseteq InCase(rs, g.c)
  BY <1>4 DEF Operation, Steps
<1>5. g.pc = "delRules" /\ g.c \notin G2 => \A r \in InCase(rs2, g.c) : r.t = "customRules"
  BY <1>4 DEF Operation
<1>6. g.pc = "delCase" /\ g.c \notin G2 => InCase(rs2, g.c) = {}
  BY <1>4 DEF Operation
<1>7. g.pc = "fill" => g.left # {} /\ g.left \subseteq Tables
  BY DEF Operation
<1> QED
  BY <1>1, <1>2, <1>3, <1>5, <1>6, <1>7 DEF Operation

\* A tab that neither deletes nor restores asks nothing.
LEMMA AtRest == ASSUME NEW g, ~Working(g), NEW R, NEW G, NEW rs, NEW n PROVE Operation(g, R, G, rs, n)
BY DEF Operation, Working, Locked, Steps

\* What a step of one tab has to show for the invariant to hold after it.
Kept(p) ==
    /\ DOMAIN pages' = Page /\ ShapedPage(pages'[p]) /\ \A q \in Page \ {p} : pages'[q] = pages[q]
    /\ (\A c \in Ids : DOMAIN kases[c] = CaseFields)'
    /\ Shaped(recs') /\ Shaped(bundle'.recs) /\ DOMAIN bundle' = {"recs", "case", "whole"}
    /\ DOMAIN nextIds' = Tables \cup {"cases"} /\ nextIds'.cases \in Nat /\ nextIds.cases <= nextIds'.cases
    /\ condemned \subseteq condemned'
    /\ Numbered'
    /\ Locked(pages'[p]) => \A q \in Page \ {p} : Locked(pages[q]) => pages[q].c # pages'[p].c
    /\ Operation(pages'[p], Restoring', condemned', recs', nextIds'.cases)
    /\ \A q \in Page \ {p} :
          Locked(pages[q]) /\ pages[q].c \in Restoring /\ pages[q].c \notin condemned' =>
              pages[q].c \in Restoring' /\ InCase(recs', pages[q].c) \subseteq InCase(recs, pages[q].c)
    /\ NothingWithoutCase'

\* With that shown, the invariant holds after the step.
LEMMA StepKeeps == ASSUME SessionInv, NEW p \in Page, Kept(p) PROVE SessionInv'
<1>1. Shapes'
  BY DEF SessionInv, Kept, Shapes
<1>2. Exclusive'
  BY DEF SessionInv, Kept, Exclusive
<1>3. ASSUME NEW q \in Page PROVE Operation(pages'[q], Restoring', condemned', recs', nextIds'.cases)
  <2>1. CASE q = p
    BY <2>1 DEF Kept
  <2>2. CASE q # p
    <3>1. pages'[q] = pages[q] /\ Operation(pages[q], Restoring, condemned, recs, nextIds.cases)
      BY <2>2 DEF Kept, SessionInv, Operations
    <3>2. /\ nextIds.cases \in Nat /\ nextIds'.cases \in Nat /\ nextIds.cases <= nextIds'.cases
          /\ condemned \subseteq condemned'
      BY DEF Kept, SessionInv, Shapes
    <3>3. Locked(pages[q]) /\ pages[q].c \in Restoring /\ pages[q].c \notin condemned' =>
              pages[q].c \in Restoring' /\ InCase(recs', pages[q].c) \subseteq InCase(recs, pages[q].c)
      BY <2>2 DEF Kept
    <3> QED
      BY <3>1, <3>2, <3>3, Undisturbed
  <2> QED
    BY <2>1, <2>2
<1>4. Operations'
  BY <1>3 DEF Operations
<1> QED
  BY <1>1, <1>2, <1>4 DEF Kept, SessionInv

\* A step of the tab p is one of its page alone, with these fields.
LEMMA OwnPage ==
    ASSUME SessionInv, NEW p \in Page, NEW g, pages' = [pages EXCEPT ![p] = g]
    PROVE  DOMAIN pages' = Page /\ pages'[p] = g /\ \A q \in Page \ {p} : pages'[q] = pages[q]
BY DEF SessionInv, Shapes

\* Rows only go, cases only come, and the tab neither deletes nor restores after the step.
Calm(p) ==
    /\ DOMAIN pages' = Page /\ ShapedPage(pages'[p]) /\ \A q \in Page \ {p} : pages'[q] = pages[q]
    /\ ~Working(pages'[p])
    /\ (\A c \in Ids : DOMAIN kases[c] = CaseFields)' /\ Numbered'
    /\ Ids \subseteq Ids' /\ Restoring \subseteq Restoring'
    /\ recs' \subseteq recs /\ Shaped(bundle'.recs) /\ DOMAIN bundle' = {"recs", "case", "whole"}
    /\ DOMAIN nextIds' = Tables \cup {"cases"} /\ nextIds'.cases \in Nat /\ nextIds.cases <= nextIds'.cases
    /\ condemned' = condemned

\* Such a step keeps the invariant.
LEMMA CalmKeeps == ASSUME SessionInv, NEW p \in Page, Calm(p) PROVE SessionInv'
<1>1. Shaped(recs') /\ NothingWithoutCase'
  BY DEF SessionInv, Shapes, Shaped, NothingWithoutCase, Calm
<1>2. ~Locked(pages'[p])
  BY DEF Calm, Working, Locked
<1>3. Operation(pages'[p], Restoring', condemned', recs', nextIds'.cases)
  BY AtRest DEF Calm
<1>4. \A c : InCase(recs', c) \subseteq InCase(recs, c)
  BY DEF InCase, Calm
<1>5. Kept(p)
  BY <1>1, <1>2, <1>3, <1>4 DEF Kept, Calm
<1> QED
  BY <1>5, StepKeeps

\* The tables stay as they are.
LEMMA Same ==
    ASSUME SessionInv, kases' = kases, nextIds' = nextIds
    PROVE  /\ (\A c \in Ids : DOMAIN kases[c] = CaseFields)' /\ Numbered'
           /\ Ids' = Ids /\ Restoring' = Restoring
           /\ DOMAIN nextIds' = Tables \cup {"cases"} /\ nextIds'.cases \in Nat /\ nextIds.cases <= nextIds'.cases
BY DEF SessionInv, Shapes, Numbered, Ids, Restoring

\* A new case has a new id, and the others stay.
LEMMA CaseAdded ==
    ASSUME SessionInv, NEW row, DOMAIN row = CaseFields,
           AddCase(nextIds.cases, row), nextIds' = [nextIds EXCEPT !.cases = @ + 1]
    PROVE  /\ (\A c \in Ids : DOMAIN kases[c] = CaseFields)' /\ Numbered'
           /\ Ids' = Ids \cup {nextIds.cases} /\ nextIds.cases \notin Ids
           /\ Restoring' = IF row.restoring THEN Restoring \cup {nextIds.cases} ELSE Restoring
           /\ DOMAIN nextIds' = Tables \cup {"cases"} /\ nextIds'.cases = nextIds.cases + 1
           /\ nextIds.cases \in Nat \ {0}
<1>1. /\ DOMAIN nextIds' = Tables \cup {"cases"} /\ nextIds'.cases = nextIds.cases + 1
      /\ nextIds.cases \in Nat \ {0}
  BY DEF SessionInv, Shapes
<1>2. Ids' = Ids \cup {nextIds.cases} /\ nextIds.cases \notin Ids
  BY DEF AddCase, Ids, SessionInv, Numbered, Shapes
<1>3. /\ \A c \in Ids : kases'[c] = kases[c]
      /\ kases'[nextIds.cases] = row
  BY <1>2 DEF AddCase
<1>4. (\A c \in Ids : DOMAIN kases[c] = CaseFields)'
  BY <1>2, <1>3 DEF SessionInv, Shapes
<1>5. Numbered'
  BY <1>1, <1>2 DEF SessionInv, Numbered
<1>6. Restoring' = IF row.restoring THEN Restoring \cup {nextIds.cases} ELSE Restoring
  <2> DEFINE W == Restoring'  V == Restoring
  <2>1. \A c : c \in W <=> c \in Ids' /\ kases'[c].restoring
    BY DEF Restoring
  <2>2. \A c : c \in V <=> c \in Ids /\ kases[c].restoring
    BY DEF Restoring
  <2> HIDE DEF W, V
  <2>3. \A c : c \in W <=> c \in V \/ (c = nextIds.cases /\ row.restoring)
    BY <2>1, <2>2, <1>2, <1>3
  <2>4. W = IF row.restoring THEN V \cup {nextIds.cases} ELSE V
    BY <2>3
  <2> QED
    BY <2>4 DEF W, V
<1> QED
  BY <1>1, <1>2, <1>4, <1>5, <1>6

\* A change of one case's name or history changes neither which cases there are nor which are restoring.
LEMMA CasesKept ==
    ASSUME SessionInv, DOMAIN kases' = Ids, nextIds' = nextIds,
           \A c \in Ids : DOMAIN kases'[c] = CaseFields /\ kases'[c].restoring = kases[c].restoring
    PROVE  /\ (\A c \in Ids : DOMAIN kases[c] = CaseFields)' /\ Numbered'
           /\ Ids' = Ids /\ Restoring' = Restoring
           /\ DOMAIN nextIds' = Tables \cup {"cases"} /\ nextIds'.cases \in Nat /\ nextIds.cases <= nextIds'.cases
<1>1. Ids' = Ids /\ Restoring' = Restoring
  BY DEF Ids, Restoring
<1> QED
  BY <1>1 DEF SessionInv, Shapes, Numbered

\* Giving a case up changes only what its bundle is owed.
LEMMA CaseGivenUp ==
    ASSUME SessionInv, NEW c, Condemn(c), nextIds' = nextIds
    PROVE  /\ (\A i \in Ids : DOMAIN kases[i] = CaseFields)' /\ Numbered'
           /\ Ids' = Ids /\ Restoring' = Restoring
           /\ DOMAIN nextIds' = Tables \cup {"cases"} /\ nextIds'.cases \in Nat /\ nextIds.cases <= nextIds'.cases
<1>1. DOMAIN kases' = Ids
  BY DEF Condemn
<1>2. \A i \in Ids : DOMAIN kases'[i] = CaseFields /\ kases'[i].restoring = kases[i].restoring
  BY DEF Condemn, SessionInv, Shapes, CaseFields
<1> QED
  BY <1>1, <1>2, CasesKept

-----------------------------------------------------------------------------
(* Steps that neither delete nor restore *)

\* A tab opens and lists the cases still restoring.
LEMMA BootKeeps == ASSUME SessionInv, NEW p \in Page, Boot(p) PROVE SessionInv'
<1> DEFINE g == [pages[p] EXCEPT !.pc = "sweep", !.todo = Restoring]
<1>1. pages' = [pages EXCEPT ![p] = g]
  BY DEF Boot
<1>2. ShapedPage(g) /\ g.pc = "sweep"
  BY DEF SessionInv, Shapes, ShapedPage, PageFields
<1> HIDE DEF g
<1>3. ~Working(g)
  BY <1>2 DEF Working, Steps
<1>4. Calm(p)
  BY <1>1, <1>2, <1>3, OwnPage, Same DEF Boot, Calm, SessionInv, Shapes
<1> QED
  BY <1>4, CalmKeeps

\* The case shown last, or the first of the list, is opened.
LEMMA OpenLastKeeps == ASSUME SessionInv, NEW p \in Page, OpenLast(p) PROVE SessionInv'
<1> DEFINE g == [pages[p] EXCEPT !.pc = "idle", !.left = {},
                                 !.open = IF lastCase \in pages[p].left THEN lastCase ELSE Min(pages[p].left)]
<1>1. pages' = [pages EXCEPT ![p] = g]
  BY DEF OpenLast
<1>2. ShapedPage(g) /\ g.pc = "idle"
  BY DEF SessionInv, Shapes, ShapedPage, PageFields, Shaped
<1> HIDE DEF g
<1>3. ~Working(g)
  BY <1>2 DEF Working, Steps
<1>4. Calm(p)
  BY <1>1, <1>2, <1>3, OwnPage, Same DEF OpenLast, Calm, SessionInv, Shapes
<1> QED
  BY <1>4, CalmKeeps

\* startCase reads whether the only case is untouched.
LEMMA StartReadKeeps == ASSUME SessionInv, NEW p \in Page, StartRead(p) PROVE SessionInv'
<1> DEFINE g == [pages[p] EXCEPT !.pc = "start", !.left = Untouched]
<1>1. pages' = [pages EXCEPT ![p] = g]
  BY DEF StartRead
<1>2. ShapedPage(g) /\ g.pc = "start"
  BY DEF SessionInv, Shapes, ShapedPage, PageFields, Shaped
<1> HIDE DEF g
<1>3. ~Working(g)
  BY <1>2 DEF Working, Steps
<1>4. Calm(p)
  BY <1>1, <1>2, <1>3, OwnPage, Same DEF StartRead, Calm, SessionInv, Shapes
<1> QED
  BY <1>4, CalmKeeps

\* A bundle is finished: its records have the fields of a record.
LEMMA ExportRestKeeps == ASSUME SessionInv, NEW p \in Page, ExportRest(p) PROVE SessionInv'
<1> DEFINE g == [pages[p] EXCEPT !.pc = "idle", !.part = {}, !.c = 0]
<1>1. pages' = [pages EXCEPT ![p] = g]
  BY DEF ExportRest
<1>2. ShapedPage(g) /\ g.pc = "idle"
  BY DEF SessionInv, Shapes, ShapedPage, PageFields, Shaped
<1> HIDE DEF g
<1>3. ~Working(g)
  BY <1>2 DEF Working, Steps
<1>4. Shaped(bundle'.recs) /\ DOMAIN bundle' = {"recs", "case", "whole"}
  <2>1. Shaped(pages[p].part) /\ Shaped(recs)
    BY DEF SessionInv, Shapes, ShapedPage
  <2>2. Shaped(LastPart(recs, pages[p].c))
    BY <2>1 DEF LastPart, RulesUsed, Of, InCase, Shaped, RecordFields
  <2>3. Shaped(pages[p].part \cup LastPart(recs, pages[p].c))
    BY <2>1, <2>2 DEF Shaped
  <2> QED
    BY <2>3 DEF ExportRest
<1>5. Calm(p)
  BY <1>1, <1>2, <1>3, <1>4, OwnPage, Same DEF ExportRest, Calm
<1> QED
  BY <1>5, CalmKeeps

\* A bundle's rows are read.
LEMMA ExportRowsKeeps == ASSUME SessionInv, NEW p \in Page, ExportRows(p) PROVE SessionInv'
<1> DEFINE g == [pages[p] EXCEPT !.pc = "export", !.c = pages[p].open, !.part = RowsPart(recs, pages[p].open)]
<1>1. pages' = [pages EXCEPT ![p] = g]
  BY DEF ExportRows
<1>2. ShapedPage(g) /\ g.pc = "export"
  BY DEF SessionInv, Shapes, ShapedPage, PageFields, Shaped, RowsPart, InCase
<1> HIDE DEF g
<1>3. ~Working(g)
  BY <1>2 DEF Working, Steps
<1>4. Calm(p)
  BY <1>1, <1>2, <1>3, OwnPage, Same DEF ExportRows, Calm, SessionInv, Shapes
<1> QED
  BY <1>4, CalmKeeps

\* A closed tab leaves its case restoring, and its lock is free.
LEMMA CloseKeeps == ASSUME SessionInv, NEW p \in Page, Close(p) PROVE SessionInv'
<1>1. pages' = [pages EXCEPT ![p] = Gone]
  BY DEF Close
<1>2. ShapedPage(Gone) /\ ~Working(Gone)
  BY DEF Gone, ShapedPage, PageFields, Shaped, Working, Steps
<1> HIDE DEF Gone
<1>3. Calm(p)
  BY <1>1, <1>2, OwnPage, Same DEF Close, Calm, SessionInv, Shapes
<1> QED
  BY <1>3, CalmKeeps

\* A tab that shows a case has ended its operation.
LEMMA Shown ==
    ASSUME SessionInv, NEW p \in Page, NEW c, Shows(p, c)
    PROVE  /\ DOMAIN pages' = Page /\ ShapedPage(pages'[p]) /\ ~Working(pages'[p])
           /\ \A q \in Page \ {p} : pages'[q] = pages[q]
<1> DEFINE g == [pages[p] EXCEPT !.pc = "idle", !.open = c]
<1>1. pages' = [pages EXCEPT ![p] = g]
  BY DEF Shows
<1>2. ShapedPage(g) /\ g.pc = "idle"
  BY DEF SessionInv, Shapes, ShapedPage, PageFields
<1> HIDE DEF g
<1> QED
  BY <1>1, <1>2, OwnPage DEF Working, Steps

\* So has one that waits for the next of its steps.
LEMMA Waits ==
    ASSUME SessionInv, NEW p \in Page, NEW pc \in {"fresh", "fetch"}, Goes(p, pc)
    PROVE  /\ DOMAIN pages' = Page /\ ShapedPage(pages'[p]) /\ ~Working(pages'[p])
           /\ \A q \in Page \ {p} : pages'[q] = pages[q]
<1> DEFINE g == [pages[p] EXCEPT !.pc = pc]
<1>1. pages' = [pages EXCEPT ![p] = g]
  BY DEF Goes
<1>2. ShapedPage(g) /\ g.pc = pc
  BY DEF SessionInv, Shapes, ShapedPage, PageFields
<1> HIDE DEF g
<1> QED
  BY <1>1, <1>2, OwnPage DEF Working, Steps

\* Another case is shown.
LEMMA SwitchToKeeps == ASSUME SessionInv, NEW p \in Page, SwitchTo(p) PROVE SessionInv'
<1>1. PICK c : Shows(p, c)
  BY DEF SwitchTo
<1>2. Calm(p)
  BY <1>1, Shown, Same DEF SwitchTo, Calm, SessionInv, Shapes
<1> QED
  BY <1>2, CalmKeeps

\* After a deletion another case is shown, or none is left.
LEMMA ShowNextKeeps == ASSUME SessionInv, NEW p \in Page, ShowNext(p) PROVE SessionInv'
<1>1. (\E c : Shows(p, c)) \/ Goes(p, "fresh")
  BY DEF ShowNext
<1>2. /\ DOMAIN pages' = Page /\ ShapedPage(pages'[p]) /\ ~Working(pages'[p])
      /\ \A q \in Page \ {p} : pages'[q] = pages[q]
  BY <1>1, Shown, Waits
<1>3. Calm(p)
  BY <1>2, Same DEF ShowNext, Calm, SessionInv, Shapes
<1> QED
  BY <1>3, CalmKeeps

\* A new case of the analyst's own is shown at once.
LEMMA OwnCaseKeeps ==
    ASSUME SessionInv, NEW p \in Page, NEW name, AddAndShow(p, name), UNCHANGED <<recs, bundle, condemned>>
    PROVE  SessionInv'
<1>1. /\ AddCase(nextIds.cases, NewCase(name)) /\ nextIds' = [nextIds EXCEPT !.cases = @ + 1]
      /\ Shows(p, nextIds.cases)
  BY DEF AddAndShow
<1>2. DOMAIN NewCase(name) = CaseFields /\ ~NewCase(name).restoring
  BY DEF NewCase, CaseFields
<1> HIDE DEF NewCase, AddCase, Shows
<1>3. Calm(p)
  BY <1>1, <1>2, CaseAdded, Shown DEF Calm, SessionInv, Shapes
<1> QED
  BY <1>3, CalmKeeps

\* removeCase adds a case when none is left.
LEMMA FreshCaseKeeps == ASSUME SessionInv, NEW p \in Page, FreshCase(p) PROVE SessionInv'
BY OwnCaseKeeps DEF FreshCase

\* The data of a case goes, and nothing comes.
LEMMA WipeKeeps == ASSUME SessionInv, NEW p \in Page, Wipe(p) PROVE SessionInv'
<1>1. DOMAIN kases' = Ids
  BY DEF Wipe, Ids
<1>2. \A i \in Ids : DOMAIN kases'[i] = CaseFields /\ kases'[i].restoring = kases[i].restoring
  BY DEF Wipe, Ids, SessionInv, Shapes, CaseFields
<1>3. ~Working(pages[p]) /\ pages' = pages
  BY DEF Wipe, Working, Steps
<1>4. recs' \subseteq recs
  BY DEF Wipe
<1>5. Calm(p)
  BY <1>1, <1>2, <1>3, <1>4, CasesKept DEF Wipe, Calm, SessionInv, Shapes
<1> QED
  BY <1>5, CalmKeeps

\* A tab that finds no case adds the default one.
LEMMA DefaultCaseKeeps == ASSUME SessionInv, NEW p \in Page, DefaultCase(p) PROVE SessionInv'
<1> DEFINE g == [pages[p] EXCEPT !.pc = "opening", !.left = DOMAIN kases']
<1>1. pages' = [pages EXCEPT ![p] = g]
  BY DEF DefaultCase
<1>2. ShapedPage(g) /\ g.pc = "opening"
  BY DEF SessionInv, Shapes, ShapedPage, PageFields
<1> HIDE DEF g
<1>3. ~Working(g)
  BY <1>2 DEF Working, Steps
<1>4. /\ (\A c \in Ids : DOMAIN kases[c] = CaseFields)' /\ Numbered'
      /\ Ids \subseteq Ids' /\ Restoring \subseteq Restoring'
      /\ DOMAIN nextIds' = Tables \cup {"cases"} /\ nextIds'.cases \in Nat /\ nextIds.cases <= nextIds'.cases
  <2>1. CASE AddCase(nextIds.cases, NewCase("Case 1")) /\ nextIds' = [nextIds EXCEPT !.cases = @ + 1]
    <3>1. PICK row : row = NewCase("Case 1")
      BY Zenon
    <3>2. DOMAIN row = CaseFields /\ ~row.restoring
      BY <3>1 DEF NewCase, CaseFields
    <3>3. AddCase(nextIds.cases, row) /\ nextIds' = [nextIds EXCEPT !.cases = @ + 1]
      BY <2>1, <3>1, Zenon
    <3> HIDE DEF NewCase, AddCase
    <3>4. /\ (\A c \in Ids : DOMAIN kases[c] = CaseFields)' /\ Numbered'
          /\ Ids' = Ids \cup {nextIds.cases} /\ Restoring' = Restoring
          /\ DOMAIN nextIds' = Tables \cup {"cases"} /\ nextIds'.cases = nextIds.cases + 1
          /\ nextIds.cases \in Nat \ {0}
      BY <3>2, <3>3, CaseAdded
    <3> QED
      BY <3>4
  <2>2. CASE kases' = kases /\ nextIds' = nextIds
    BY <2>2, Same
  <2> QED
    BY <2>1, <2>2 DEF DefaultCase
<1>5. Calm(p)
  BY <1>1, <1>2, <1>3, <1>4, OwnPage DEF DefaultCase, Calm, SessionInv, Shapes
<1> QED
  BY <1>5, CalmKeeps

\* startCase writes what it has read: a new case, or the name of the one there was.
LEMMA StartWriteKeeps == ASSUME SessionInv, NEW p \in Page, StartWrite(p) PROVE SessionInv'
<1>1. CASE AddAndShow(p, "mine")
  BY <1>1, OwnCaseKeeps DEF StartWrite
<1>2. CASE \E c \in pages[p].left :
              /\ kases' = [i \in Ids |-> IF i = c THEN [kases[i] EXCEPT !.name = "mine"] ELSE kases[i]]
              /\ lastCase' = c /\ nextIds' = nextIds
              /\ pages' = [pages EXCEPT ![p].pc = "idle", ![p].left = {}, ![p].open = IF c \in Ids THEN c ELSE 0]
  <2>1. PICK c \in pages[p].left :
              /\ kases' = [i \in Ids |-> IF i = c THEN [kases[i] EXCEPT !.name = "mine"] ELSE kases[i]]
              /\ lastCase' = c /\ nextIds' = nextIds
              /\ pages' = [pages EXCEPT ![p].pc = "idle", ![p].left = {}, ![p].open = IF c \in Ids THEN c ELSE 0]
    BY <1>2
  <2> DEFINE g == [pages[p] EXCEPT !.pc = "idle", !.left = {}, !.open = IF c \in Ids THEN c ELSE 0]
  <2>2. pages' = [pages EXCEPT ![p] = g]
    BY <2>1
  <2>3. ShapedPage(g) /\ g.pc = "idle"
    BY DEF SessionInv, Shapes, ShapedPage, PageFields
  <2> HIDE DEF g
  <2>4. ~Working(g)
    BY <2>3 DEF Working, Steps
  <2>5. DOMAIN kases' = Ids
    BY <2>1
  <2>6. \A i \in Ids : DOMAIN kases'[i] = CaseFields /\ kases'[i].restoring = kases[i].restoring
    BY <2>1 DEF SessionInv, Shapes, CaseFields
  <2>7. nextIds' = nextIds /\ UNCHANGED <<recs, bundle, condemned>>
    BY <2>1 DEF StartWrite
  <2>8. Calm(p)
    BY <2>2, <2>3, <2>4, <2>5, <2>6, <2>7, OwnPage, CasesKept DEF Calm, SessionInv, Shapes
  <2> QED
    BY <2>8, CalmKeeps
<1> QED
  BY <1>1, <1>2 DEF StartWrite

-----------------------------------------------------------------------------
(* Deleting *)

\* The end of a deletion, and what it was part of.
LEMMA DeleteEndKeeps == ASSUME SessionInv, NEW p \in Page, DeleteEnd(p) PROVE SessionInv'
<1>1. pages[p].then \in Sequels
  BY DEF DeleteEnd, SessionInv, Operations, Operation, Steps
<1> DEFINE g == [pages[p] EXCEPT !.pc = IF pages[p].then = "failed" THEN "idle" ELSE pages[p].then, !.c = 0]
<1>2. pages' = [pages EXCEPT ![p] = g]
  BY DEF DeleteEnd
<1>3. ShapedPage(g) /\ g.pc \in {"idle", "next", "sweep", "fetch"}
  BY <1>1 DEF SessionInv, Shapes, ShapedPage, PageFields, Sequels
<1> HIDE DEF g
<1>4. ~Working(g)
  BY <1>3 DEF Working, Steps
<1>5. Calm(p)
  BY <1>2, <1>3, <1>4, OwnPage, Same DEF DeleteEnd, Calm, SessionInv, Shapes
<1> QED
  BY <1>5, CalmKeeps

\* A deletion begins: the tab has the lock of a restoring case, or the case is given up.
LEMMA BeginKeeps ==
    ASSUME SessionInv, NEW p \in Page, NEW g, pages' = [pages EXCEPT ![p] = g], ShapedPage(g),
           g.pc = "delData", g.then \in Sequels,
           Locked(g) => /\ \A q \in Page \ {p} : Locked(pages[q]) => pages[q].c # g.c
                        /\ g.c \in Restoring,
           ~Locked(g) => g.c \in condemned',
           (\A c \in Ids : DOMAIN kases[c] = CaseFields)', Numbered', Ids' = Ids, Restoring' = Restoring,
           condemned \subseteq condemned', UNCHANGED <<recs, bundle, nextIds>>
    PROVE  SessionInv'
<1>1. DOMAIN pages' = Page /\ pages'[p] = g /\ \A q \in Page \ {p} : pages'[q] = pages[q]
  BY OwnPage
<1>2. NothingWithoutCase'
  BY DEF SessionInv, NothingWithoutCase
<1>3. Locked(g) => g.c \in Nat \ {0} /\ g.c < nextIds.cases
  BY DEF Restoring, SessionInv, Numbered
<1>4. Operation(g, Restoring', condemned', recs', nextIds'.cases)
  BY <1>3 DEF Operation, Steps
<1>5. Shaped(recs') /\ Shaped(bundle'.recs) /\ DOMAIN bundle' = {"recs", "case", "whole"}
      /\ DOMAIN nextIds' = Tables \cup {"cases"} /\ nextIds'.cases \in Nat /\ nextIds.cases <= nextIds'.cases
  BY DEF SessionInv, Shapes
<1>6. Kept(p)
  BY <1>1, <1>2, <1>4, <1>5 DEF Kept
<1> QED
  BY <1>6, StepKeeps

\* The start of a tab takes the lock of an interrupted restore, or leaves it to whoever has it.
LEMMA SweepKeeps == ASSUME SessionInv, NEW p \in Page, Sweep(p) PROVE SessionInv'
<1> DEFINE c == Min(pages[p].todo)
<1>1. CASE LockFree(c) /\ c \in Restoring
  <2> DEFINE g == [pages[p] EXCEPT !.todo = @ \ {c}, !.pc = "delData", !.c = c, !.then = "sweep"]
  <2>1. pages' = [pages EXCEPT ![p] = g]
    BY <1>1 DEF Sweep
  <2>2. ShapedPage(g) /\ g.pc = "delData" /\ g.then = "sweep" /\ g.c = c
    BY DEF SessionInv, Shapes, ShapedPage, PageFields
  <2> HIDE DEF g
  <2>3. \A q \in Page : Locked(pages[q]) => pages[q].c # c
    BY <1>1 DEF LockFree, Holds, Locked, Deleting, Steps
  <2>4. Locked(g)
    BY <2>2 DEF Locked, Steps
  <2> QED
    BY <1>1, <2>1, <2>2, <2>3, <2>4, BeginKeeps, Same DEF Sweep, Sequels
<1>2. CASE ~(LockFree(c) /\ c \in Restoring)
  <2> DEFINE g == [pages[p] EXCEPT !.todo = @ \ {c}]
  <2>1. pages' = [pages EXCEPT ![p] = g]
    BY <1>2 DEF Sweep
  <2>2. ShapedPage(g) /\ g.pc = "sweep"
    BY DEF SessionInv, Shapes, ShapedPage, PageFields, Sweep
  <2> HIDE DEF g
  <2>3. ~Working(g)
    BY <2>2 DEF Working, Steps
  <2>4. Calm(p)
    BY <2>1, <2>2, <2>3, OwnPage, Same DEF Sweep, Calm, SessionInv, Shapes
  <2> QED
    BY <2>4, CalmKeeps
<1> QED
  BY <1>1, <1>2

\* An analyst deletes the case shown: it is given up.
LEMMA DestroyKeeps == ASSUME SessionInv, NEW p \in Page, Destroy(p) PROVE SessionInv'
<1> DEFINE g == [pages[p] EXCEPT !.pc = "delData", !.c = pages[p].open, !.then = "next"]
<1>1. pages' = [pages EXCEPT ![p] = g]
  BY DEF Destroy, BeginDelete
<1>2. ShapedPage(g) /\ g.pc = "delData" /\ g.then = "next" /\ g.c = pages[p].open
  BY DEF SessionInv, Shapes, ShapedPage, PageFields
<1> HIDE DEF g
<1>3. ~Locked(g)
  BY <1>2 DEF Locked
<1>4. Condemn(pages[p].open) /\ UNCHANGED <<recs, bundle, nextIds>>
  BY DEF Destroy
<1>5. condemned' = condemned \cup {g.c}
  BY <1>2, <1>4 DEF Condemn
<1> QED
  BY <1>1, <1>2, <1>3, <1>4, <1>5, BeginKeeps, CaseGivenUp DEF Sequels

\* The demo is shown, deleted as empty (given up), or fetched.
LEMMA OpenDemoKeeps == ASSUME SessionInv, NEW p \in Page, OpenDemo(p) PROVE SessionInv'
<1> DEFINE demos == {c \in Ids : kases[c].name = "demo" /\ ~kases[c].restoring}
           c == Min(demos)
<1>1. UNCHANGED <<recs, bundle, nextIds>>
  BY DEF OpenDemo
<1>2. CASE UNCHANGED <<kases, condemned>> /\ (Goes(p, "fetch") \/ Shows(p, c))
  <2>1. /\ DOMAIN pages' = Page /\ ShapedPage(pages'[p]) /\ ~Working(pages'[p])
        /\ \A q \in Page \ {p} : pages'[q] = pages[q]
    BY <1>2, Shown, Waits
  <2>2. Calm(p)
    BY <1>1, <1>2, <2>1, Same DEF Calm, SessionInv, Shapes
  <2> QED
    BY <2>2, CalmKeeps
<1>3. CASE BeginDelete(p, c, "fetch") /\ Condemn(c)
  <2> DEFINE g == [pages[p] EXCEPT !.pc = "delData", !.c = c, !.then = "fetch"]
  <2>1. pages' = [pages EXCEPT ![p] = g]
    BY <1>3 DEF BeginDelete
  <2>2. ShapedPage(g) /\ g.pc = "delData" /\ g.then = "fetch" /\ g.c = c
    BY DEF SessionInv, Shapes, ShapedPage, PageFields
  <2> HIDE DEF g
  <2>3. ~Locked(g)
    BY <2>2 DEF Locked
  <2>4. condemned' = condemned \cup {g.c}
    BY <1>3, <2>2 DEF Condemn
  <2> QED
    BY <1>1, <1>3, <2>1, <2>2, <2>3, <2>4, BeginKeeps, CaseGivenUp DEF Sequels
<1> QED
  BY <1>2, <1>3 DEF OpenDemo

\* A tab that goes on with its deletion keeps its case and its lock.
LEMMA NextStep ==
    ASSUME SessionInv, NEW p \in Page, pages[p].pc \in Steps, pages[p].pc # "delLast",
           NEW pc \in Steps, Goes(p, pc)
    PROVE  /\ DOMAIN pages' = Page /\ ShapedPage(pages'[p]) /\ \A q \in Page \ {p} : pages'[q] = pages[q]
           /\ pages'[p].pc = pc /\ pages'[p].c = pages[p].c /\ pages'[p].then \in Sequels
           /\ Locked(pages'[p]) <=> Locked(pages[p])
           /\ Locked(pages[p]) => /\ pages[p].c \in Nat \ {0} /\ pages[p].c < nextIds.cases
                                  /\ \A q \in Page \ {p} : Locked(pages[q]) => pages[q].c # pages[p].c
           /\ pages[p].c \notin condemned => Locked(pages[p]) /\ pages[p].c \in Restoring
<1> DEFINE g == [pages[p] EXCEPT !.pc = pc]
<1>1. pages' = [pages EXCEPT ![p] = g]
  BY DEF Goes
<1>2. ShapedPage(g) /\ g.pc = pc /\ g.c = pages[p].c /\ g.then = pages[p].then
  BY DEF SessionInv, Shapes, ShapedPage, PageFields
<1> HIDE DEF g
<1>3. DOMAIN pages' = Page /\ pages'[p] = g /\ \A q \in Page \ {p} : pages'[q] = pages[q]
  BY <1>1, OwnPage
<1>4. Locked(g) <=> Locked(pages[p])
  BY <1>2 DEF Locked, Steps
<1>5. Operation(pages[p], Restoring, condemned, recs, nextIds.cases)
  BY DEF SessionInv, Operations
<1>6. Locked(pages[p]) => \A q \in Page \ {p} : Locked(pages[q]) => pages[q].c # pages[p].c
  BY DEF SessionInv, Exclusive
<1> QED
  BY <1>2, <1>3, <1>4, <1>5, <1>6 DEF Operation

\* A step of a deletion clears its part of the case; the last of them takes the case itself.
LEMMA DeleteStepKeeps == ASSUME SessionInv, NEW p \in Page, DeleteStep(p) PROVE SessionInv'
<1> DEFINE c == pages[p].c
<1>1. UNCHANGED <<bundle, nextIds, condemned>>
  BY DEF DeleteStep
<1>2. Operation(pages[p], Restoring, condemned, recs, nextIds.cases)
  BY DEF SessionInv, Operations
<1>3. Shaped(bundle'.recs) /\ DOMAIN bundle' = {"recs", "case", "whole"}
  BY <1>1 DEF SessionInv, Shapes
<1>4. CASE kases' = kases /\ recs' \subseteq recs /\ \E pc \in {"delRules", "delCase"} :
              /\ pages[p].pc \in Steps /\ pages[p].pc # "delLast" /\ Goes(p, pc)
              /\ pc = "delRules" /\ c \notin condemned => \A r \in InCase(recs', c) : r.t = "customRules"
              /\ pc = "delCase" /\ c \notin condemned => InCase(recs', c) = {}
  <2>1. PICK pc \in {"delRules", "delCase"} :
              /\ pages[p].pc \in Steps /\ pages[p].pc # "delLast" /\ Goes(p, pc)
              /\ pc = "delRules" /\ c \notin condemned => \A r \in InCase(recs', c) : r.t = "customRules"
              /\ pc = "delCase" /\ c \notin condemned => InCase(recs', c) = {}
    BY <1>4
  <2>2. pc \in Steps
    BY DEF Steps
  <2>3. /\ DOMAIN pages' = Page /\ ShapedPage(pages'[p]) /\ \A q \in Page \ {p} : pages'[q] = pages[q]
        /\ pages'[p].pc = pc /\ pages'[p].c = c /\ pages'[p].then \in Sequels
        /\ Locked(pages'[p]) <=> Locked(pages[p])
        /\ Locked(pages[p]) => /\ c \in Nat \ {0} /\ c < nextIds.cases
                               /\ \A q \in Page \ {p} : Locked(pages[q]) => pages[q].c # c
        /\ c \notin condemned => Locked(pages[p]) /\ c \in Restoring
    BY <2>1, <2>2, NextStep
  <2>4. /\ (\A i \in Ids : DOMAIN kases[i] = CaseFields)' /\ Numbered'
        /\ Ids' = Ids /\ Restoring' = Restoring
        /\ DOMAIN nextIds' = Tables \cup {"cases"} /\ nextIds'.cases \in Nat /\ nextIds.cases <= nextIds'.cases
    BY <1>1, <1>4, Same
  <2>5. Operation(pages'[p], Restoring', condemned', recs', nextIds'.cases)
    BY <1>1, <2>1, <2>3, <2>4 DEF Operation
  <2>6. Shaped(recs') /\ NothingWithoutCase'
    BY <1>1, <1>4, <2>4 DEF SessionInv, Shapes, Shaped, NothingWithoutCase
  <2>7. \A i : InCase(recs', i) \subseteq InCase(recs, i)
    BY <1>4 DEF InCase
  <2>8. Kept(p)
    BY <1>1, <1>3, <2>3, <2>4, <2>5, <2>6, <2>7 DEF Kept
  <2> QED
    BY <2>8, StepKeeps
<1>5. CASE pages[p].pc = "delCase" /\ kases' = [i \in Ids \ {c} |-> kases[i]] /\ recs' = recs /\ Goes(p, "delLast")
  <2>1. pages[p].pc \in Steps /\ pages[p].pc # "delLast" /\ "delLast" \in Steps
    BY <1>5 DEF Steps
  <2>2. /\ DOMAIN pages' = Page /\ ShapedPage(pages'[p]) /\ \A q \in Page \ {p} : pages'[q] = pages[q]
        /\ pages'[p].pc = "delLast" /\ pages'[p].c = c /\ pages'[p].then \in Sequels
        /\ Locked(pages'[p]) <=> Locked(pages[p])
        /\ Locked(pages[p]) => /\ c \in Nat \ {0} /\ c < nextIds.cases
                               /\ \A q \in Page \ {p} : Locked(pages[q]) => pages[q].c # c
        /\ c \notin condemned => Locked(pages[p]) /\ c \in Restoring
    BY <1>5, <2>1, NextStep
  <2>3. Ids' = Ids \ {c} /\ \A i \in Ids \ {c} : kases'[i] = kases[i]
    BY <1>5 DEF Ids
  <2>4. Restoring' = Restoring \ {c}
    <3> DEFINE W == Restoring'  V == Restoring
    <3>1. \A i : i \in W <=> i \in Ids' /\ kases'[i].restoring
      BY DEF Restoring
    <3>2. \A i : i \in V <=> i \in Ids /\ kases[i].restoring
      BY DEF Restoring
    <3> HIDE DEF W, V
    <3>3. W = V \ {c}
      BY <3>1, <3>2, <2>3
    <3> QED
      BY <3>3 DEF W, V
  <2>5. /\ (\A i \in Ids : DOMAIN kases[i] = CaseFields)' /\ Numbered' /\ Shaped(recs')
        /\ DOMAIN nextIds' = Tables \cup {"cases"} /\ nextIds'.cases \in Nat /\ nextIds.cases <= nextIds'.cases
    BY <1>1, <1>5, <2>3 DEF SessionInv, Shapes, Numbered
  <2>6. Operation(pages'[p], Restoring', condemned', recs', nextIds'.cases)
    BY <1>1, <2>2 DEF Operation
  <2>7. NothingWithoutCase'
    <3>1. c \notin condemned => InCase(recs, c) = {}
      BY <1>2, <1>5 DEF Operation
    <3>2. SUFFICES ASSUME NEW r \in recs PROVE r.case \in Ids' \cup condemned \cup {0}
      BY <1>1, <1>5 DEF NothingWithoutCase
    <3>3. r.case \in Ids \cup condemned \cup {0}
      BY DEF SessionInv, NothingWithoutCase
    <3>4. r.case = c => c \in condemned
      BY <3>1 DEF InCase
    <3> QED
      BY <3>3, <3>4, <2>3
  <2>8. \A q \in Page \ {p} : Locked(pages[q]) /\ pages[q].c \notin condemned => pages[q].c # c
    BY <2>2
  <2>9. Kept(p)
    BY <1>1, <1>3, <1>5, <2>2, <2>4, <2>5, <2>6, <2>7, <2>8 DEF Kept
  <2> QED
    BY <2>9, StepKeeps
<1>6. CASE /\ pages[p].pc = "delData" /\ recs' = {r \in recs : r.case = c => r.t = "customRules"}
           /\ kases' = kases /\ Goes(p, "delRules")
  <2>1. recs' \subseteq recs /\ \A r \in InCase(recs', c) : r.t = "customRules"
    BY <1>6 DEF InCase
  <2> QED
    BY <1>4, <1>6, <2>1 DEF Steps
<1>7. CASE /\ pages[p].pc = "delRules" /\ recs' = {r \in recs : r.case = c => r.t # "customRules"}
           /\ kases' = kases /\ Goes(p, "delCase")
  <2>1. recs' \subseteq recs
    BY <1>7
  <2>2. c \notin condemned => \A r \in InCase(recs, c) : r.t = "customRules"
    BY <1>2, <1>7 DEF Operation
  <2>3. c \notin condemned => InCase(recs', c) = {}
    BY <2>2, <1>7 DEF InCase
  <2> QED
    BY <1>4, <1>7, <2>1, <2>3 DEF Steps
<1> QED
  BY <1>5, <1>6, <1>7 DEF DeleteStep

-----------------------------------------------------------------------------
(* Restoring *)

\* A restore begins with the lock of a case nobody has worked on.
LEMMA BeginRestoreKeeps ==
    ASSUME SessionInv, NEW p \in Page, NEW b, NEW owed, NEW name, NEW then, BeginRestore(p, b, owed, name, then),
           Shaped(b.recs), UNCHANGED <<recs, bundle, condemned>>
    PROVE  SessionInv'
<1>1. PICK row : row = [name |-> name, restoring |-> TRUE, whole |-> IF owed.whole THEN owed.recs ELSE {}]
  BY Zenon
<1>2. DOMAIN row = CaseFields /\ row.restoring
  BY <1>1 DEF CaseFields
<1>3. AddCase(nextIds.cases, row) /\ nextIds' = [nextIds EXCEPT !.cases = @ + 1]
  BY <1>1, Zenon DEF BeginRestore
<1>4. /\ (\A c \in Ids : DOMAIN kases[c] = CaseFields)' /\ Numbered'
      /\ Ids' = Ids \cup {nextIds.cases} /\ nextIds.cases \notin Ids
      /\ Restoring' = Restoring \cup {nextIds.cases}
      /\ DOMAIN nextIds' = Tables \cup {"cases"} /\ nextIds'.cases = nextIds.cases + 1
      /\ nextIds.cases \in Nat \ {0}
  BY <1>2, <1>3, CaseAdded
<1> DEFINE g == [pages[p] EXCEPT !.pc = "fill", !.c = nextIds.cases, !.from = b.recs,
                                 !.off = Offsets(recs), !.left = Tables, !.then = then]
<1>5. pages' = [pages EXCEPT ![p] = g]
  BY Zenon DEF BeginRestore
<1>6. ShapedPage(g) /\ g.pc = "fill" /\ g.c = nextIds.cases /\ g.left = Tables
  <2>1. DOMAIN pages[p] = PageFields /\ Shaped(pages[p].part)
    BY DEF SessionInv, Shapes, ShapedPage
  <2> HIDE DEF Tables, Offsets
  <2>2. DOMAIN g = PageFields /\ g.from = b.recs /\ g.part = pages[p].part /\ g.pc = "fill" /\ g.c = nextIds.cases
         /\ g.left = Tables
    BY <2>1 DEF PageFields
  <2> QED
    BY <2>1, <2>2 DEF ShapedPage
<1> HIDE DEF g
<1>7. DOMAIN pages' = Page /\ pages'[p] = g /\ \A q \in Page \ {p} : pages'[q] = pages[q]
  BY <1>5, OwnPage
<1>8. \A q \in Page \ {p} : Locked(pages[q]) => pages[q].c # nextIds.cases
  BY <1>4 DEF SessionInv, Operations, Operation
<1>9. Operation(g, Restoring', condemned', recs', nextIds'.cases)
  <2>1. Tables # {}
    BY DEF Tables, TABLES
  <2> QED
    BY <1>4, <1>6, <2>1 DEF Operation, Steps
<1>10. Shaped(recs') /\ Shaped(bundle'.recs) /\ DOMAIN bundle' = {"recs", "case", "whole"} /\ NothingWithoutCase'
  BY <1>4 DEF SessionInv, Shapes, NothingWithoutCase
<1>11. Kept(p)
  BY <1>4, <1>6, <1>7, <1>8, <1>9, <1>10 DEF Kept
<1> QED
  BY <1>11, StepKeeps

\* The demo's restore begins.
LEMMA FetchDemoKeeps == ASSUME SessionInv, NEW p \in Page, FetchDemo(p) PROVE SessionInv'
<1> DEFINE demo == [recs |-> Demo, case |-> 1, whole |-> TRUE]
<1>1. Shaped(demo.recs)
  BY CaseSessionAssumption DEF Shaped
<1>2. BeginRestore(p, demo, demo, "demo", "demo") /\ UNCHANGED <<recs, bundle, condemned>>
  BY DEF FetchDemo
<1> HIDE DEF demo
<1> QED
  BY <1>1, <1>2, BeginRestoreKeeps

\* A verified file begins a restore, a damaged one changes nothing.
LEMMA ImportBundleKeeps == ASSUME SessionInv, NEW p \in Page, ImportBundle(p) PROVE SessionInv'
<1>1. PICK file \in Copies(bundle.recs) :
           IF Verified(file) THEN BeginRestore(p, [bundle EXCEPT !.recs = file.recs], bundle, "imported", "imported")
           ELSE UNCHANGED <<kases, nextIds, pages>>
  BY DEF ImportBundle
<1>2. UNCHANGED <<recs, bundle, condemned>> /\ pages[p].pc = "idle"
  BY DEF ImportBundle
<1>3. CASE Verified(file)
  <2>1. file.recs \subseteq bundle.recs
    BY DEF Copies, Written, Of
  <2>2. PICK b : b = [bundle EXCEPT !.recs = file.recs]
    BY Zenon
  <2>3. Shaped(b.recs)
    BY <2>1, <2>2 DEF SessionInv, Shapes, Shaped
  <2>4. BeginRestore(p, b, bundle, "imported", "imported")
    BY <1>1, <1>3, <2>2, Zenon
  <2> QED
    BY <1>2, <2>3, <2>4, BeginRestoreKeeps
<1>4. CASE ~Verified(file)
  <2>1. pages' = pages /\ kases' = kases /\ nextIds' = nextIds /\ ~Working(pages[p])
    BY <1>1, <1>2, <1>4 DEF Working, Steps
  <2>2. Calm(p)
    BY <1>2, <2>1, Same DEF Calm, SessionInv, Shapes
  <2> QED
    BY <2>2, CalmKeeps
<1> QED
  BY <1>3, <1>4

\* The table that is filled next is one of the four; no key generator of the cases moves.
LEMMA NextIsTable ==
    ASSUME NEW p \in Page, pages[p].left # {}, pages[p].left \subseteq Tables
    PROVE  NextTable(p) \in pages[p].left /\ NextTable(p) # "cases"
<1> DEFINE K == {k \in DOMAIN TABLES : TABLES[k] \in pages[p].left}
<1>1. K \subseteq {1, 2, 3, 4} /\ K # {}
  BY DEF Tables, TABLES
<1> HIDE DEF K
<1>2. \E k \in K : \A l \in K : k <= l
  <2>1. CASE 1 \in K
    BY <1>1, <2>1
  <2>2. CASE 1 \notin K /\ 2 \in K
    BY <1>1, <2>2
  <2>3. CASE 1 \notin K /\ 2 \notin K /\ 3 \in K
    BY <1>1, <2>3
  <2>4. CASE K = {4}
    BY <2>4
  <2>5. 1 \in K \/ 2 \in K \/ 3 \in K \/ K = {4}
    BY <1>1
  <2> QED
    BY <2>1, <2>2, <2>3, <2>4, <2>5
<1>3. Min(K) \in K
  BY <1>2 DEF Min
<1>4. TABLES[Min(K)] \in pages[p].left
  BY <1>3 DEF K
<1>5. "cases" \notin Tables
  BY DEF Tables, TABLES
<1> QED
  BY <1>4, <1>5 DEF NextTable, K

\* A batch has the shape of its bundle's records and the case of the restore.
LEMMA BatchIsOfCase ==
    ASSUME SessionInv, NEW p \in Page
    PROVE  \A r \in BatchOf(p) : DOMAIN r = RecordFields /\ r.case = pages[p].c
<1>1. \A r \in pages[p].from : DOMAIN r = RecordFields
  BY DEF SessionInv, Shapes, ShapedPage, Shaped
<1>2. \A r \in Of(pages[p].from, NextTable(p)) : DOMAIN r = RecordFields
  BY <1>1 DEF Of
<1>3. ASSUME NEW r, DOMAIN r = RecordFields, NEW b, NEW off, NEW c
      PROVE  DOMAIN Remap(b, off, c, r) = RecordFields /\ Remap(b, off, c, r).case = c
  BY <1>3 DEF Remap, RecordFields
<1> QED
  BY <1>2, <1>3 DEF BatchOf

\* What a restore adds goes into its own case: whatever tab holds another lock does not see it.
LEMMA Filled ==
    ASSUME SessionInv, NEW p \in Page, pages[p].pc = "fill", NEW some \in SUBSET BatchOf(p), recs' = recs \cup some,
           kases' = kases, UNCHANGED <<bundle, condemned>>,
           DOMAIN nextIds' = Tables \cup {"cases"}, nextIds'.cases = nextIds.cases,
           NEW g, pages' = [pages EXCEPT ![p] = g], ShapedPage(g), g.c = pages[p].c, Locked(g), g.pc # "delLast",
           g.pc \in Steps => g.pc = "delData" /\ g.then \in Sequels,
           g.pc = "fill" => g.left # {} /\ g.left \subseteq Tables
    PROVE  SessionInv'
<1> DEFINE c == pages[p].c
<1>1. Operation(pages[p], Restoring, condemned, recs, nextIds.cases) /\ Locked(pages[p])
  BY DEF SessionInv, Operations, Locked
<1>2. c \in Nat \ {0} /\ c < nextIds.cases /\ (c \notin condemned => c \in Restoring)
  BY <1>1 DEF Operation
<1>3. Ids' = Ids /\ Restoring' = Restoring /\ (\A i \in Ids : DOMAIN kases[i] = CaseFields)' /\ Numbered'
      /\ nextIds'.cases \in Nat /\ nextIds.cases <= nextIds'.cases
  BY DEF SessionInv, Shapes, Numbered, Ids, Restoring
<1>4. \A r \in some : DOMAIN r = RecordFields /\ r.case = c
  BY BatchIsOfCase
<1>5. Shaped(recs') /\ Shaped(bundle'.recs) /\ DOMAIN bundle' = {"recs", "case", "whole"}
  BY <1>4 DEF SessionInv, Shapes, Shaped
<1>6. NothingWithoutCase'
  <2>1. c \in Ids \cup condemned
    BY <1>2 DEF Restoring
  <2> QED
    BY <1>3, <1>4, <2>1 DEF SessionInv, NothingWithoutCase
<1>7. DOMAIN pages' = Page /\ pages'[p] = g /\ \A q \in Page \ {p} : pages'[q] = pages[q]
  BY OwnPage
<1>8. \A q \in Page \ {p} : Locked(pages[q]) => pages[q].c # c
  BY <1>1 DEF SessionInv, Exclusive
<1>9. \A i : i # c => InCase(recs', i) \subseteq InCase(recs, i)
  BY <1>4 DEF InCase
<1>10. Operation(g, Restoring', condemned', recs', nextIds'.cases)
  <2>1. g.pc # "delRules" /\ g.pc # "delCase"
    BY DEF Steps
  <2> QED
    BY <1>2, <1>3, <2>1 DEF Operation
<1>11. Kept(p)
  BY <1>3, <1>5, <1>6, <1>7, <1>8, <1>9, <1>10 DEF Kept
<1> QED
  BY <1>11, StepKeeps

\* A batch goes in whole.
LEMMA FillKeeps == ASSUME SessionInv, NEW p \in Page, Fill(p) PROVE SessionInv'
<1>1. pages[p].pc = "fill" /\ pages[p].left # {} /\ pages[p].left \subseteq Tables
  BY DEF Fill, SessionInv, Operations, Operation
<1>2. NextTable(p) \in pages[p].left /\ NextTable(p) # "cases"
  BY <1>1, NextIsTable
<1> DEFINE g == [pages[p] EXCEPT !.left = @ \ {NextTable(p)},
                                 !.pc = IF pages[p].left = {NextTable(p)} THEN "finish" ELSE "fill"]
<1>3. pages' = [pages EXCEPT ![p] = g]
  BY DEF Fill
<1>4. /\ ShapedPage(g) /\ g.c = pages[p].c /\ g.left = pages[p].left \ {NextTable(p)}
      /\ g.pc = IF pages[p].left = {NextTable(p)} THEN "finish" ELSE "fill"
  BY DEF SessionInv, Shapes, ShapedPage, PageFields
<1> HIDE DEF g
<1>5. Locked(g) /\ g.pc # "delLast" /\ g.pc \notin Steps /\ (g.pc = "fill" => g.left # {} /\ g.left \subseteq Tables)
  BY <1>1, <1>2, <1>4 DEF Locked, Steps
<1>6. recs' = recs \cup BatchOf(p) /\ kases' = kases /\ UNCHANGED <<bundle, condemned>>
  BY DEF Fill
<1>7. DOMAIN nextIds' = Tables \cup {"cases"} /\ nextIds'.cases = nextIds.cases
  <2>1. \E n : nextIds' = [nextIds EXCEPT ![NextTable(p)] = n]
    BY DEF Fill
  <2> QED
    BY <1>2, <2>1 DEF SessionInv, Shapes
<1> QED
  BY <1>1, <1>3, <1>4, <1>5, <1>6, <1>7, Filled

\* A batch that is refused leaves a part of it in the case, which the tab then deletes under its lock.
LEMMA FillFailsKeeps == ASSUME SessionInv, NEW p \in Page, FillFails(p) PROVE SessionInv'
<1> DEFINE g == [pages[p] EXCEPT !.pc = "delData", !.then = "failed", !.left = {}]
           some == {r \in BatchOf(p) : ~Taken(recs, r)}
<1>1. pages' = [pages EXCEPT ![p] = g]
  BY DEF FillFails
<1>2. ShapedPage(g) /\ g.c = pages[p].c /\ g.pc = "delData" /\ g.then = "failed"
  BY DEF SessionInv, Shapes, ShapedPage, PageFields
<1> HIDE DEF g
<1>3. Locked(g)
  BY <1>2 DEF Locked, Steps
<1>4. recs' = recs \cup some /\ pages[p].pc = "fill" /\ UNCHANGED <<kases, bundle, nextIds, condemned>>
  BY DEF FillFails
<1>5. some \in SUBSET BatchOf(p)
  OBVIOUS
<1>6. DOMAIN nextIds' = Tables \cup {"cases"} /\ nextIds'.cases = nextIds.cases
  BY <1>4 DEF SessionInv, Shapes
<1> HIDE DEF some
<1> QED
  BY <1>1, <1>2, <1>3, <1>4, <1>5, <1>6, Filled DEF Sequels

\* The end of a restore: its case is no longer restoring, and nobody else is at work on it.
LEMMA FinishRestoreKeeps == ASSUME SessionInv, NEW p \in Page, FinishRestore(p) PROVE SessionInv'
<1> DEFINE c == pages[p].c
           open == IF pages[p].then = "imported" THEN pages[p].open ELSE IF c \in Ids THEN c ELSE 0
           g == [Gone EXCEPT !.pc = "idle", !.open = open]
<1>1. pages' = [pages EXCEPT ![p] = g]
  BY DEF FinishRestore
<1>2. ShapedPage(g) /\ g.pc = "idle"
  BY DEF Gone, ShapedPage, Shaped, PageFields
<1> HIDE DEF g
<1>3. ~Working(g) /\ ~Locked(g)
  BY <1>2 DEF Working, Locked, Steps
<1>4. UNCHANGED <<recs, bundle, nextIds, condemned>> /\ Locked(pages[p])
  BY DEF FinishRestore, Locked
<1>5. /\ Ids' = Ids
      /\ \A i \in Ids : kases'[i] = IF i = c THEN [kases[i] EXCEPT !.restoring = FALSE] ELSE kases[i]
  BY DEF FinishRestore, Ids
<1>6. /\ (\A i \in Ids : DOMAIN kases[i] = CaseFields)' /\ Numbered'
      /\ DOMAIN nextIds' = Tables \cup {"cases"} /\ nextIds'.cases \in Nat /\ nextIds.cases <= nextIds'.cases
      /\ Shaped(recs') /\ Shaped(bundle'.recs) /\ DOMAIN bundle' = {"recs", "case", "whole"}
      /\ NothingWithoutCase'
  <2>1. \A i \in Ids : DOMAIN kases'[i] = CaseFields
    BY <1>5 DEF SessionInv, Shapes
  <2> QED
    BY <1>4, <1>5, <2>1 DEF SessionInv, Shapes, Numbered, NothingWithoutCase
<1>7. \A i \in Restoring : i # c => i \in Restoring'
  <2> DEFINE W == Restoring'
  <2>1. \A i : i \in W <=> i \in Ids' /\ kases'[i].restoring
    BY DEF Restoring
  <2> HIDE DEF W
  <2>2. \A i \in Restoring : i # c => i \in W
    BY <1>5, <2>1 DEF Restoring
  <2> QED
    BY <2>2 DEF W
<1>8. \A q \in Page \ {p} : Locked(pages[q]) => pages[q].c # c
  BY <1>4 DEF SessionInv, Exclusive
<1>9. DOMAIN pages' = Page /\ pages'[p] = g /\ \A q \in Page \ {p} : pages'[q] = pages[q]
  BY <1>1, OwnPage
<1>10. Operation(g, Restoring', condemned', recs', nextIds'.cases)
  BY <1>3, AtRest
<1>11. Kept(p)
  BY <1>2, <1>3, <1>4, <1>6, <1>7, <1>8, <1>9, <1>10 DEF Kept
<1> QED
  BY <1>11, StepKeeps

-----------------------------------------------------------------------------
(* What the rest of the program writes *)

\* What is written: a record of the case shown or of none, with a text of its own.
LEMMA WrittenRecord ==
    ASSUME NEW p \in Page, Write(p)
    PROVE  \E r : /\ DOMAIN r = RecordFields /\ r.case \in {0, pages[p].open} /\ r.t \in Tables
                  /\ r.text = spent.writes /\ recs' = recs \cup {r}
                  /\ nextIds' = nextIds \/ \E t, n : t # "cases" /\ nextIds' = [nextIds EXCEPT ![t] = n]
<1> DEFINE c == pages[p].open
<1>1. ASSUME NEW t, NEW key, NEW rule, NEW ref, NEW means
      PROVE  /\ DOMAIN NewRecord(c, t, key, rule, ref, means) = RecordFields
             /\ NewRecord(c, t, key, rule, ref, means).case \in {0, c}
             /\ NewRecord(c, t, key, rule, ref, means).t = t
             /\ NewRecord(c, t, key, rule, ref, means).text = spent.writes
  BY DEF NewRecord, RecordFields
<1>2. PICK r \in Writable(c) :
            /\ recs' = recs \cup {r}
            /\ nextIds' = IF r.t = "kv" THEN nextIds ELSE [nextIds EXCEPT ![r.t] = @ + 1]
  BY DEF Write
<1> DEFINE Good(x) == /\ DOMAIN x = RecordFields /\ x.case \in {0, c} /\ x.text = spent.writes
                      /\ x.t \in {"evidence", "customRules", "findings", "kv"}
           mine == InCase(recs, c)
           rules == {BUILT_IN} \cup {s.rule : s \in {u \in Of(recs, "customRules") : u.case \in {0, c}}}
<1>3. \A rule, ref, means, key : /\ Good(NewRecord(c, "evidence", key, rule, ref, means))
                               /\ Good(NewRecord(c, "customRules", key, rule, ref, means))
                               /\ Good(NewRecord(c, "findings", key, rule, ref, means))
                               /\ Good(NewRecord(c, "kv", key, rule, ref, means))
  BY <1>1
<1> HIDE DEF Good
<1>4. Good(r)
  <2>1. CASE r \in {NewRecord(c, "evidence", Keyless, BUILT_IN, 0, 0),
                   NewRecord(c, "customRules", Keyless, "custom", 0, 0)}
    BY <1>3, <2>1
  <2>2. CASE r \in {NewRecord(c, "findings", Keyless, rule, e.id, e.text) : e \in Of(mine, "evidence"), rule \in rules}
    BY <1>3, <2>2
  <2>3. CASE r \in {NewRecord(c, "kv", key, f.rule, f.ref, f.text) : f \in Of(mine, "findings"), key \in StoryKeys}
    BY <1>3, <2>3
  <2> QED
    BY <1>2, <2>1, <2>2, <2>3 DEF Writable
<1> USE DEF Good
<1>5. r.t # "cases" /\ r.t \in Tables
  BY <1>4 DEF Tables, TABLES
<1> QED
  BY <1>2, <1>4, <1>5

\* A record written into the case a tab shows: either that case is whole, and nobody deletes it,
\* or the case is one where such a record may be left behind.
LEMMA WriteKeeps == ASSUME SessionInv, NEW p \in Page, Write(p) PROVE SessionInv'
<1> DEFINE c == pages[p].open
<1>1. PICK r : /\ DOMAIN r = RecordFields /\ r.case \in {0, c}
               /\ recs' = recs \cup {r}
               /\ nextIds' = nextIds \/ \E t, n : t # "cases" /\ nextIds' = [nextIds EXCEPT ![t] = n]
  BY WrittenRecord
<1>2. /\ kases' = kases /\ bundle' = bundle /\ pages' = pages /\ c # 0
      /\ condemned' = IF c \in Ids \ Restoring THEN condemned ELSE condemned \cup {c}
  BY DEF Write
<1>3. /\ DOMAIN nextIds' = Tables \cup {"cases"} /\ nextIds'.cases = nextIds.cases
      /\ nextIds'.cases \in Nat /\ nextIds.cases <= nextIds'.cases
  BY <1>1 DEF SessionInv, Shapes
<1>4. Ids' = Ids /\ Restoring' = Restoring /\ (\A i \in Ids : DOMAIN kases[i] = CaseFields)' /\ Numbered'
  BY <1>2, <1>3 DEF SessionInv, Shapes, Numbered, Ids, Restoring
<1>5. Shaped(recs') /\ Shaped(bundle'.recs) /\ DOMAIN bundle' = {"recs", "case", "whole"} /\ condemned \subseteq condemned'
  BY <1>1, <1>2 DEF SessionInv, Shapes, Shaped
<1>6. NothingWithoutCase'
  <2>1. c \in Ids \cup condemned'
    BY <1>2
  <2> QED
    BY <1>1, <1>4, <1>5, <2>1 DEF SessionInv, NothingWithoutCase
<1>7. ASSUME NEW q \in Page, Locked(pages[q]), pages[q].c \in Restoring, pages[q].c \notin condemned'
      PROVE  InCase(recs', pages[q].c) \subseteq InCase(recs, pages[q].c)
  <2>1. pages[q].c # 0
    BY <1>7 DEF Restoring, SessionInv, Numbered
  <2>2. pages[q].c # c
    BY <1>2, <1>7
  <2> QED
    BY <1>1, <2>1, <2>2 DEF InCase
<1>8. Operation(pages[p], Restoring, condemned, recs, nextIds.cases) /\ nextIds.cases \in Nat
  BY DEF SessionInv, Operations, Shapes
<1>9. Operation(pages[p], Restoring', condemned', recs', nextIds'.cases)
  BY <1>3, <1>4, <1>5, <1>7, <1>8, Undisturbed
<1>10. /\ DOMAIN pages' = Page /\ ShapedPage(pages'[p]) /\ pages'[p] = pages[p]
       /\ \A q \in Page \ {p} : pages'[q] = pages[q]
  BY <1>2 DEF SessionInv, Shapes
<1>11. Locked(pages[p]) => \A q \in Page \ {p} : Locked(pages[q]) => pages[q].c # pages[p].c
  BY DEF SessionInv, Exclusive
<1>12. Kept(p)
  BY <1>3, <1>4, <1>5, <1>6, <1>7, <1>9, <1>10, <1>11 DEF Kept
<1> QED
  BY <1>12, StepKeeps

-----------------------------------------------------------------------------
(* The invariant *)

\* A browser starts with no case, or with an emptied demo.
LEMMA SessionStarts == SessionInit => SessionInv
<1> SUFFICES ASSUME SessionInit PROVE SessionInv
  OBVIOUS
<1>1. pages = [p \in Page |-> Gone] /\ (FreshBrowser \/ EmptiedDemo)
  BY DEF SessionInit
<1>2. ShapedPage(Gone) /\ ~Working(Gone) /\ ~Locked(Gone)
  BY DEF Gone, ShapedPage, Shaped, PageFields, Working, Locked, Steps
<1>3. \A r \in Demo : DOMAIN r = RecordFields /\ r.case = 1
  BY CaseSessionAssumption
<1>4. Shaped(recs) /\ Shaped(bundle.recs) /\ DOMAIN bundle = {"recs", "case", "whole"}
  BY <1>1, <1>3 DEF FreshBrowser, EmptiedDemo, NoBundle, Shaped, Of
<1>5. DOMAIN nextIds = Tables \cup {"cases"} /\ nextIds.cases \in Nat \ {0}
  BY <1>1 DEF FreshBrowser, EmptiedDemo
<1>6. (\A c \in Ids : DOMAIN kases[c] = CaseFields) /\ Numbered /\ NothingWithoutCase
  <2>1. CASE FreshBrowser
    BY <2>1 DEF FreshBrowser, Ids, Numbered, NothingWithoutCase
  <2>2. CASE EmptiedDemo
    <3>1. Ids = {1} /\ kases[1] = NewCase("demo") /\ nextIds.cases = 2
      BY <2>2 DEF EmptiedDemo, Ids
    <3>2. \A r \in recs : r.case = 1
      BY <2>2, <1>3 DEF EmptiedDemo, Of
    <3> QED
      BY <3>1, <3>2 DEF Numbered, NothingWithoutCase, NewCase, CaseFields
  <2> QED
    BY <1>1, <2>1, <2>2
<1> HIDE DEF Gone
<1>7. Exclusive
  BY <1>1, <1>2 DEF Exclusive
<1>8. Operations
  BY <1>1, <1>2, AtRest DEF Operations
<1>9. Shapes
  BY <1>1, <1>2, <1>4, <1>5, <1>6 DEF Shapes
<1> QED
  BY <1>6, <1>7, <1>8, <1>9 DEF SessionInv

\* Every step keeps the invariant.
LEMMA SessionKeeps == SessionInv /\ [SessionNext]_caseTabs => SessionInv'
<1> SUFFICES ASSUME SessionInv, [SessionNext]_caseTabs PROVE SessionInv'
  OBVIOUS
<1>1. CASE UNCHANGED caseTabs
  BY <1>1 DEF caseTabs, SessionInv, Shapes, Numbered, Exclusive, Operations, NothingWithoutCase, Ids, Restoring
<1>2. CASE SessionNext
  <2>1. PICK p \in Page :
        \/ Boot(p) \/ Sweep(p) \/ DefaultCase(p) \/ OpenLast(p) \/ Close(p)
        \/ SwitchTo(p) \/ StartRead(p) \/ StartWrite(p)
        \/ Destroy(p) \/ DeleteStep(p) \/ DeleteEnd(p) \/ ShowNext(p) \/ FreshCase(p) \/ Wipe(p)
        \/ ExportRows(p) \/ ExportRest(p) \/ ImportBundle(p) \/ OpenDemo(p) \/ FetchDemo(p)
        \/ Fill(p) \/ FillFails(p) \/ FinishRestore(p)
        \/ Write(p)
    BY <1>2 DEF SessionNext
  <2> QED
    BY <2>1, BootKeeps, SweepKeeps, DefaultCaseKeeps, OpenLastKeeps, CloseKeeps, SwitchToKeeps, StartReadKeeps,
       StartWriteKeeps, DestroyKeeps, DeleteStepKeeps, DeleteEndKeeps, ShowNextKeeps, FreshCaseKeeps, WipeKeeps,
       ExportRowsKeeps, ExportRestKeeps, ImportBundleKeeps, OpenDemoKeeps, FetchDemoKeeps, FillKeeps,
       FillFailsKeeps, FinishRestoreKeeps, WriteKeeps
<1> QED
  BY <1>1, <1>2

\* The invariant of the cases of a browser: what each tab's deletion or restore has done to its case, who holds
\* which lock, which cases are given up (deleteCase, removeInterruptedRestores, restoreRecords).
THEOREM SessionInvariant == SessionSpec => []SessionInv
BY SessionStarts, SessionKeeps, PTL DEF SessionSpec

\* No record is left of a case that is gone, wherever a deletion or a restore stopped or a tab was closed,
\* but for a case an analyst deleted, or wrote into while it was not whole (schema.ts, deleteCase).
THEOREM NothingLeftBehind == SessionSpec => []NothingWithoutCase
<1>1. SessionInv => NothingWithoutCase
  BY DEF SessionInv
<1> QED
  BY <1>1, SessionInvariant, PTL

-----------------------------------------------------------------------------
(* What a restored case holds: the inductive invariant *)

\* Records a step may copy: of one of the tables, and with a text no record will be given again.
Known(rs, writes) == \A r \in rs : DOMAIN r = RecordFields /\ r.t \in Tables /\ r.text \notin 1..writes

\* The case c holds the records of a bundle, under ids moved by off, of every table but those still left,
\* and a record of the case with a mark of the bundle came from it.
Entered(rs, from, off, c, left) ==
    /\ \A b \in from : b.t \notin left => Remap(from, off, c, b) \in rs
    /\ \A r \in InCase(rs, c) : Mark(r) \in Marks(from) => \E b \in from : r = Remap(from, off, c, b)

\* What a whole case owes, and what a tab that restores one has done so far.
CaseOwes(ks, rs, c) ==
    ks[c].whole # {} /\ ~ks[c].restoring => \E off : Entered(rs, ks[c].whole, off, c, {})
PageOwes(g, ks, rs) ==
    g.pc \in {"fill", "finish"} /\ g.c \in DOMAIN ks /\ ks[g.c].whole # {} =>
        /\ g.from = ks[g.c].whole
        /\ g.pc = "finish" => g.left = {}
        /\ Entered(rs, g.from, g.off, g.c, g.left)

\* A tab with the lock of a case has it restoring as long as it is there, and a deletion without the lock is one
\* of a case given up.
Held(g, ks) ==
    g.c \in DOMAIN ks => /\ Locked(g) /\ g.pc # "delLast" => ks[g.c].restoring
                         /\ g.pc \in Steps /\ ~Locked(g) => ks[g.c].whole = {}

\* No tab and no record names a case that is yet to come.
Bounded(g, n) ==
    /\ g.open \in Nat /\ g.open < n
    /\ g.pc \in Steps => g.c \in Nat /\ g.c < n
    /\ g.pc \in {"opening", "start"} => \A c \in g.left : c \in Nat /\ c < n
    /\ g.pc = "opening" => g.left # {}

PageFits(g, ks, rs, n, writes) ==
    PageOwes(g, ks, rs) /\ Held(g, ks) /\ Bounded(g, n) /\ Known(g.from, writes) /\ Known(g.part, writes)

RestoreInv ==
    /\ spent.writes \in Nat /\ DOMAIN spent = {"uses", "writes", "ends", "failures"}
    /\ \A r \in recs : r.case \in Nat /\ r.case < nextIds.cases
    /\ Known(recs, spent.writes) /\ Known(bundle.recs, spent.writes) /\ Known(Demo, spent.writes)
    /\ \A c \in Ids : Known(kases[c].whole, spent.writes) /\ CaseOwes(kases, recs, c)
    /\ \A p \in Page : PageFits(pages[p], kases, recs, nextIds.cases, spent.writes)

-----------------------------------------------------------------------------
(* What a step leaves of it *)

\* No bound is given back.
Less == DOMAIN spent' = DOMAIN spent /\ spent'.writes \in Nat /\ spent'.writes <= spent.writes

\* The records of the case c stay, and none comes that could be taken for one of the bundle.
Intact(rs, rs2, c, from) ==
    InCase(rs, c) \subseteq rs2 /\ \A r \in InCase(rs2, c) \ rs : Mark(r) \notin Marks(from)

\* A bound is used.
LEMMA Spent == ASSUME RestoreInv, NEW what \in {"uses", "writes", "ends", "failures"}, Spend(what) PROVE Less
<1>1. spent' = [spent EXCEPT ![what] = @ - 1] /\ spent[what] > 0
  BY DEF Spend
<1>2. spent.writes \in Nat /\ DOMAIN spent = {"uses", "writes", "ends", "failures"}
  BY DEF RestoreInv
<1>3. CASE what = "writes"
  BY <1>1, <1>2, <1>3 DEF Less
<1>4. CASE what # "writes"
  BY <1>1, <1>2, <1>4 DEF Less
<1> QED
  BY <1>3, <1>4

\* So is none when nothing of them is said.
LEMMA NotSpent == ASSUME RestoreInv, spent' = spent PROVE Less
BY DEF RestoreInv, Less

\* What is known of records stays known when fewer texts are to come.
LEMMA KnownLater ==
    ASSUME NEW rs, NEW w \in Nat, NEW w2 \in Nat, w2 <= w, Known(rs, w) PROVE Known(rs, w2)
BY DEF Known

\* A record of a bundle comes into the case that restores it.
LEMMA RemapIsOfCase ==
    ASSUME NEW b, DOMAIN b = RecordFields, NEW from, NEW off, NEW c
    PROVE  LET r == Remap(from, off, c, b) IN
           /\ DOMAIN r = RecordFields /\ r.case = c
           /\ r.t = b.t /\ r.text = b.text /\ r.means = b.means /\ r.rule = b.rule /\ r.key = b.key
BY DEF Remap, RecordFields

\* What a case has of a bundle, it keeps.
LEMMA EnteredStays ==
    ASSUME NEW rs, NEW rs2, NEW from, NEW off, NEW c, NEW left, NEW w,
           Known(from, w), Entered(rs, from, off, c, left), Intact(rs, rs2, c, from)
    PROVE  Entered(rs2, from, off, c, left)
<1>1. ASSUME NEW b \in from, b.t \notin left PROVE Remap(from, off, c, b) \in rs2
  <2>1. Remap(from, off, c, b).case = c
    BY RemapIsOfCase DEF Known
  <2>2. Remap(from, off, c, b) \in InCase(rs, c)
    BY <1>1, <2>1 DEF Entered, InCase
  <2> QED
    BY <2>2 DEF Intact
<1>2. ASSUME NEW r \in InCase(rs2, c), Mark(r) \in Marks(from) PROVE \E b \in from : r = Remap(from, off, c, b)
  <2>1. r \in InCase(rs, c)
    BY <1>2 DEF Intact, InCase
  <2> QED
    BY <1>2, <2>1 DEF Entered
<1> QED
  BY <1>1, <1>2 DEF Entered

\* A tab that neither deletes nor restores owes nothing.
LEMMA OwesNothing ==
    ASSUME NEW g, ~Working(g), NEW ks, NEW rs, NEW n, NEW w, Bounded(g, n), Known(g.from, w), Known(g.part, w)
    PROVE  PageFits(g, ks, rs, n, w)
BY DEF PageFits, PageOwes, Held, Working, Locked, Steps

\* What a step of the tab p has to show.
CaseKept(p, c) ==
    /\ kases'[c].whole \in {kases[c].whole, {}}
    /\ kases[c].restoring /\ ~kases'[c].restoring => Locked(pages[p]) /\ c = pages[p].c
    /\ kases'[c].whole # {} =>
           IF Locked(pages[p]) /\ c = pages[p].c THEN CaseOwes(kases', recs', c)
                                                 ELSE Intact(recs, recs', c, kases[c].whole)
RestoreKept(p) ==
    /\ Less /\ nextIds'.cases \in Nat /\ nextIds.cases <= nextIds'.cases
    /\ \A r \in recs' : r.case \in Nat /\ r.case < nextIds'.cases
    /\ Known(recs', spent'.writes) /\ Known(bundle'.recs, spent'.writes)
    /\ \A q \in Page \ {p} : pages'[q] = pages[q]
    /\ PageFits(pages'[p], kases', recs', nextIds'.cases, spent'.writes)
    /\ \A c \in Ids' : \/ c \in Ids /\ CaseKept(p, c)
                       \/ c = nextIds.cases /\ Known(kases'[c].whole, spent'.writes) /\ CaseOwes(kases', recs', c)

\* A case owes no more than before, and what it owes is there, after a step that leaves its records.
LEMMA CaseGoesOn ==
    ASSUME SessionInv, RestoreInv, NEW p \in Page, RestoreKept(p), NEW c \in Ids, CaseKept(p, c)
    PROVE  Known(kases'[c].whole, spent'.writes) /\ CaseOwes(kases', recs', c)
<1>1. Known(kases[c].whole, spent.writes) /\ CaseOwes(kases, recs, c) /\ spent.writes \in Nat
  BY DEF RestoreInv
<1>2. Known(kases[c].whole, spent'.writes) /\ Known({}, spent'.writes)
  <2>1. Known(kases[c].whole, spent'.writes)
    BY <1>1, KnownLater DEF RestoreKept, Less
  <2> QED
    BY <2>1 DEF Known
<1>3. Known(kases'[c].whole, spent'.writes)
  BY <1>2 DEF CaseKept
<1>4. ASSUME kases'[c].whole # {}, ~kases'[c].restoring, ~(Locked(pages[p]) /\ c = pages[p].c)
      PROVE  \E off : Entered(recs', kases'[c].whole, off, c, {})
  <2>1. kases'[c].whole = kases[c].whole /\ ~kases[c].restoring /\ Intact(recs, recs', c, kases[c].whole)
    BY <1>4 DEF CaseKept
  <2>2. PICK off : Entered(recs, kases[c].whole, off, c, {})
    BY <1>1, <1>4, <2>1 DEF CaseOwes
  <2>3. Entered(recs', kases[c].whole, off, c, {})
    BY <1>1, <2>1, <2>2, EnteredStays
  <2> QED
    BY <2>1, <2>3
<1>5. CaseOwes(kases', recs', c)
  BY <1>4 DEF CaseOwes, CaseKept
<1> QED
  BY <1>3, <1>5

\* Another tab goes on with what it does.
LEMMA PageGoesOn ==
    ASSUME SessionInv, RestoreInv, NEW p \in Page, RestoreKept(p), NEW q \in Page, q # p
    PROVE  PageFits(pages[q], kases', recs', nextIds'.cases, spent'.writes)
<1> DEFINE g == pages[q]
<1>1. /\ PageOwes(g, kases, recs) /\ Held(g, kases) /\ Bounded(g, nextIds.cases)
      /\ Known(g.from, spent.writes) /\ Known(g.part, spent.writes)
      /\ spent.writes \in Nat
  BY DEF RestoreInv, PageFits
<1>2. Known(g.from, spent'.writes) /\ Known(g.part, spent'.writes)
  BY <1>1, KnownLater DEF RestoreKept, Less
<1>3. nextIds.cases \in Nat /\ nextIds'.cases \in Nat /\ nextIds.cases <= nextIds'.cases
  BY DEF RestoreKept, SessionInv, Shapes
<1>4. Bounded(g, nextIds'.cases)
  BY <1>1, <1>3 DEF Bounded
<1>5. Locked(g) => g.c \in Nat /\ g.c < nextIds.cases
  BY DEF SessionInv, Operations, Operation
<1>6. (Locked(g) \/ g.pc \in Steps) /\ g.c \in DOMAIN kases' => g.c \in Ids /\ CaseKept(p, g.c)
  BY <1>1, <1>3, <1>5 DEF RestoreKept, Bounded, Ids
<1>7. Locked(g) /\ Locked(pages[p]) => g.c # pages[p].c
  BY DEF SessionInv, Exclusive
<1>8. Held(g, kases')
  BY <1>1, <1>6, <1>7 DEF Held, CaseKept, Ids
<1>9. ASSUME g.pc \in {"fill", "finish"}, g.c \in DOMAIN kases', kases'[g.c].whole # {}
      PROVE  /\ g.from = kases'[g.c].whole
             /\ g.pc = "finish" => g.left = {}
             /\ Entered(recs', g.from, g.off, g.c, g.left)
  <2>1. Locked(g)
    BY <1>9 DEF Locked
  <2>2. g.c \in Ids /\ CaseKept(p, g.c) /\ ~(Locked(pages[p]) /\ g.c = pages[p].c)
    BY <1>6, <1>7, <1>9, <2>1
  <2>3. kases'[g.c].whole = kases[g.c].whole /\ Intact(recs, recs', g.c, kases[g.c].whole)
    BY <1>9, <2>2 DEF CaseKept
  <2>4. g.from = kases[g.c].whole /\ (g.pc = "finish" => g.left = {}) /\ Entered(recs, g.from, g.off, g.c, g.left)
    BY <1>1, <1>9, <2>2, <2>3 DEF PageOwes, Ids
  <2>5. Entered(recs', g.from, g.off, g.c, g.left)
    BY <1>1, <2>3, <2>4, EnteredStays
  <2> QED
    BY <2>3, <2>4, <2>5
<1>10. PageOwes(g, kases', recs')
  BY <1>9 DEF PageOwes
<1> QED
  BY <1>2, <1>4, <1>8, <1>10 DEF PageFits

\* With that shown, the invariant holds after the step.
LEMMA RestoreStep == ASSUME SessionInv, RestoreInv, NEW p \in Page, RestoreKept(p) PROVE RestoreInv'
<1>1. \A c \in Ids' : Known(kases'[c].whole, spent'.writes) /\ CaseOwes(kases', recs', c)
  <2>1. SUFFICES ASSUME NEW c \in Ids' PROVE Known(kases'[c].whole, spent'.writes) /\ CaseOwes(kases', recs', c)
    OBVIOUS
  <2>2. CASE c \in Ids /\ CaseKept(p, c)
    BY <2>2, CaseGoesOn
  <2> QED
    BY <2>2 DEF RestoreKept
<1>2. \A q \in Page : PageFits(pages'[q], kases', recs', nextIds'.cases, spent'.writes)
  BY PageGoesOn DEF RestoreKept
<1>3. Known(Demo, spent'.writes)
  BY KnownLater DEF RestoreKept, Less, RestoreInv
<1>4. /\ spent'.writes \in Nat /\ DOMAIN spent' = {"uses", "writes", "ends", "failures"}
      /\ \A r \in recs' : r.case \in Nat /\ r.case < nextIds'.cases
      /\ Known(recs', spent'.writes) /\ Known(bundle'.recs, spent'.writes)
  BY DEF RestoreKept, Less, RestoreInv
<1> QED
  BY <1>1, <1>2, <1>3, <1>4 DEF RestoreInv

\* A step that leaves the records and the cases.
Quiet(p) ==
    /\ kases' = kases /\ recs' = recs /\ nextIds' = nextIds /\ Less
    /\ Known(bundle'.recs, spent'.writes)
    /\ \A q \in Page \ {p} : pages'[q] = pages[q]
    /\ PageFits(pages'[p], kases, recs, nextIds.cases, spent'.writes)

\* It keeps the invariant.
LEMMA QuietKeeps == ASSUME SessionInv, RestoreInv, NEW p \in Page, Quiet(p) PROVE RestoreInv'
<1>1. \A c \in Ids : CaseKept(p, c)
  <2>1. SUFFICES ASSUME NEW c \in Ids PROVE CaseKept(p, c)
    OBVIOUS
  <2>2. Intact(recs, recs', c, kases[c].whole)
    BY DEF Quiet, Intact, InCase
  <2>3. CaseOwes(kases', recs', c)
    BY DEF Quiet, RestoreInv
  <2> QED
    BY <2>2, <2>3 DEF CaseKept, Quiet
<1>2. Ids' = Ids
  BY DEF Quiet, Ids
<1>3. Known(recs', spent'.writes)
  BY KnownLater DEF Quiet, Less, RestoreInv
<1>4. nextIds'.cases \in Nat /\ nextIds.cases <= nextIds'.cases
  BY DEF Quiet, SessionInv, Shapes
<1>5. RestoreKept(p)
  BY <1>1, <1>2, <1>3, <1>4 DEF RestoreKept, Quiet, RestoreInv
<1> QED
  BY <1>5, RestoreStep

-----------------------------------------------------------------------------
(* Steps that leave the records and the cases *)

\* What the invariant says of one tab.
LEMMA PageKnown ==
    ASSUME SessionInv, RestoreInv, NEW p \in Page
    PROVE  /\ DOMAIN pages[p] = PageFields /\ Bounded(pages[p], nextIds.cases)
           /\ Known(pages[p].from, spent.writes) /\ Known(pages[p].part, spent.writes)
           /\ nextIds.cases \in Nat \ {0} /\ spent.writes \in Nat
           /\ \A c \in Ids : c \in Nat \ {0} /\ c < nextIds.cases
BY DEF SessionInv, Shapes, ShapedPage, Numbered, RestoreInv, PageFits

\* A step of one tab to a state in which it neither deletes nor restores.
LEMMA RestsAfter ==
    ASSUME SessionInv, RestoreInv, NEW p \in Page, NEW g, pages' = [pages EXCEPT ![p] = g],
           kases' = kases, recs' = recs, nextIds' = nextIds, Less, Known(bundle'.recs, spent.writes),
           ~Working(g), Bounded(g, nextIds.cases), Known(g.from, spent.writes), Known(g.part, spent.writes)
    PROVE  RestoreInv'
<1>1. pages'[p] = g /\ \A q \in Page \ {p} : pages'[q] = pages[q]
  BY OwnPage
<1>2. spent.writes \in Nat /\ spent'.writes \in Nat /\ spent'.writes <= spent.writes
  BY DEF Less, RestoreInv
<1>3. Known(g.from, spent'.writes) /\ Known(g.part, spent'.writes) /\ Known(bundle'.recs, spent'.writes)
  BY <1>2, KnownLater
<1>4. PageFits(g, kases, recs, nextIds.cases, spent'.writes)
  BY <1>3, OwesNothing
<1>5. Quiet(p)
  BY <1>1, <1>3, <1>4 DEF Quiet
<1> QED
  BY <1>5, QuietKeeps

\* A tab opens.
LEMMA BootRestores == ASSUME SessionInv, RestoreInv, NEW p \in Page, Boot(p) PROVE RestoreInv'
<1> DEFINE g == [pages[p] EXCEPT !.pc = "sweep", !.todo = Restoring]
<1>1. pages' = [pages EXCEPT ![p] = g]
  BY DEF Boot
<1>2. /\ g.pc = "sweep" /\ g.open = pages[p].open /\ g.from = pages[p].from /\ g.part = pages[p].part
  BY PageKnown DEF PageFields
<1> HIDE DEF g
<1>3. ~Working(g) /\ Bounded(g, nextIds.cases)
  BY <1>2, PageKnown DEF Working, Steps, Bounded
<1>4. kases' = kases /\ recs' = recs /\ nextIds' = nextIds /\ bundle' = bundle /\ Less
  BY NotSpent DEF Boot
<1>5. Known(bundle'.recs, spent.writes)
  BY <1>4 DEF RestoreInv
<1> QED
  BY <1>1, <1>2, <1>3, <1>4, <1>5, PageKnown, RestsAfter

\* A set of naturals that is not empty has its minimum.
LEMMA MinIsLeast == ASSUME NEW S, S \subseteq Nat, S # {} PROVE Min(S) \in S
<1> DEFINE R == {ss \in Nat \X Nat : ss[1] < ss[2]}
<1>1. IsWellFoundedOn(R, Nat)
  BY NatLessThanWellFounded DEF OpToRel
<1>2. PICK x \in S : \A y \in S : ~(<<y, x>> \in R)
  <2> HIDE DEF R
  <2> QED
    BY <1>1, WFMin
<1>3. \A y \in S : x <= y
  <2>1. SUFFICES ASSUME NEW y \in S PROVE x <= y
    OBVIOUS
  <2>2. x \in Nat /\ y \in Nat /\ ~(<<y, x>> \in R)
    BY <1>2
  <2>3. <<y, x>> \in Nat \X Nat /\ <<y, x>>[1] = y /\ <<y, x>>[2] = x
    BY <2>2
  <2>4. ~(y < x)
    BY <2>2, <2>3
  <2> QED
    BY <2>2, <2>4
<1> QED
  BY <1>2, <1>3 DEF Min

\* The list a tab opens from is not empty, and names cases there are or were.
LEMMA OpenLastRestores == ASSUME SessionInv, RestoreInv, NEW p \in Page, OpenLast(p) PROVE RestoreInv'
<1> DEFINE c == IF lastCase \in pages[p].left THEN lastCase ELSE Min(pages[p].left)
           g == [pages[p] EXCEPT !.pc = "idle", !.open = c, !.left = {}]
<1>1. pages' = [pages EXCEPT ![p] = g]
  BY DEF OpenLast
<1>2. /\ g.pc = "idle" /\ g.open = c /\ g.from = pages[p].from /\ g.part = pages[p].part
  BY PageKnown DEF PageFields
<1>3. c \in pages[p].left
  <2>1. pages[p].left # {} /\ pages[p].left \subseteq Nat
    BY PageKnown DEF OpenLast, Bounded
  <2> QED
    BY <2>1, MinIsLeast
<1>4. c \in Nat /\ c < nextIds.cases
  BY <1>3, PageKnown DEF OpenLast, Bounded
<1> HIDE DEF g, c
<1>5. ~Working(g) /\ Bounded(g, nextIds.cases)
  BY <1>2, <1>4, PageKnown DEF Working, Steps, Bounded
<1>6. kases' = kases /\ recs' = recs /\ nextIds' = nextIds /\ bundle' = bundle /\ Less
  BY NotSpent DEF OpenLast
<1>7. Known(bundle'.recs, spent.writes)
  BY <1>6 DEF RestoreInv
<1> QED
  BY <1>1, <1>2, <1>5, <1>6, <1>7, PageKnown, RestsAfter

\* What startCase has read is a case there is.
LEMMA StartReadRestores == ASSUME SessionInv, RestoreInv, NEW p \in Page, StartRead(p) PROVE RestoreInv'
<1> DEFINE g == [pages[p] EXCEPT !.pc = "start", !.left = Untouched]
<1>1. pages' = [pages EXCEPT ![p] = g]
  BY DEF StartRead
<1>2. /\ g.pc = "start" /\ g.open = pages[p].open /\ g.left = Untouched
      /\ g.from = pages[p].from /\ g.part = pages[p].part
  BY PageKnown DEF PageFields
<1> HIDE DEF g
<1>3. Untouched \subseteq Ids
  BY DEF Untouched
<1>4. ~Working(g) /\ Bounded(g, nextIds.cases)
  BY <1>2, <1>3, PageKnown DEF Working, Steps, Bounded
<1>5. kases' = kases /\ recs' = recs /\ nextIds' = nextIds /\ bundle' = bundle /\ Less
  BY Spent DEF StartRead
<1>6. Known(bundle'.recs, spent.writes)
  BY <1>5 DEF RestoreInv
<1> QED
  BY <1>1, <1>2, <1>4, <1>5, <1>6, PageKnown, RestsAfter

\* The rows of an export are records of the database.
LEMMA ExportRowsRestores == ASSUME SessionInv, RestoreInv, NEW p \in Page, ExportRows(p) PROVE RestoreInv'
<1> DEFINE g == [pages[p] EXCEPT !.pc = "export", !.c = pages[p].open, !.part = RowsPart(recs, pages[p].open)]
<1>1. pages' = [pages EXCEPT ![p] = g]
  BY DEF ExportRows
<1>2. /\ g.pc = "export" /\ g.open = pages[p].open /\ g.from = pages[p].from
      /\ g.part = RowsPart(recs, pages[p].open)
  BY PageKnown DEF PageFields
<1> HIDE DEF g
<1>3. ~Working(g) /\ Bounded(g, nextIds.cases)
  BY <1>2, PageKnown DEF Working, Steps, Bounded
<1>4. kases' = kases /\ recs' = recs /\ nextIds' = nextIds /\ bundle' = bundle /\ Less
  BY Spent DEF ExportRows
<1>5. Known(bundle'.recs, spent.writes) /\ Known(RowsPart(recs, pages[p].open), spent.writes)
  BY <1>4 DEF RestoreInv, Known, RowsPart, InCase
<1> QED
  BY <1>1, <1>2, <1>3, <1>4, <1>5, PageKnown, RestsAfter

\* So is the rest of it, but for the custom rules, which come under the case.
LEMMA ExportRestRestores == ASSUME SessionInv, RestoreInv, NEW p \in Page, ExportRest(p) PROVE RestoreInv'
<1> DEFINE g == [pages[p] EXCEPT !.pc = "idle", !.part = {}, !.c = 0]
<1>1. pages' = [pages EXCEPT ![p] = g]
  BY DEF ExportRest
<1>2. g.pc = "idle" /\ g.open = pages[p].open /\ g.from = pages[p].from /\ g.part = {}
  BY PageKnown DEF PageFields
<1> HIDE DEF g
<1>3. ~Working(g) /\ Bounded(g, nextIds.cases) /\ Known(g.part, spent.writes)
  BY <1>2, PageKnown DEF Working, Steps, Bounded, Known
<1>4. kases' = kases /\ recs' = recs /\ nextIds' = nextIds /\ Less
  BY NotSpent DEF ExportRest
<1>5. Known(bundle'.recs, spent.writes)
  <2>1. Known(recs, spent.writes) /\ Known(pages[p].part, spent.writes)
    BY PageKnown DEF RestoreInv
  <2>2. Known(LastPart(recs, pages[p].c), spent.writes)
    <3>1. Known(RulesUsed(recs, pages[p].c), spent.writes)
      BY <2>1 DEF RulesUsed, Of, Known, RecordFields
    <3> QED
      BY <2>1, <3>1 DEF LastPart, InCase, Known
  <2>3. Known(pages[p].part \cup LastPart(recs, pages[p].c), spent.writes)
    BY <2>1, <2>2 DEF Known
  <2> QED
    BY <2>3 DEF ExportRest
<1> QED
  BY <1>1, <1>2, <1>3, <1>4, <1>5, PageKnown, RestsAfter

\* A tab is closed.
LEMMA CloseRestores == ASSUME SessionInv, RestoreInv, NEW p \in Page, Close(p) PROVE RestoreInv'
<1>1. pages' = [pages EXCEPT ![p] = Gone]
  BY DEF Close
<1>2. /\ ~Working(Gone) /\ Bounded(Gone, nextIds.cases)
      /\ Known(Gone.from, spent.writes) /\ Known(Gone.part, spent.writes)
  BY PageKnown DEF Gone, Working, Steps, Bounded, Known
<1> HIDE DEF Gone
<1>3. kases' = kases /\ recs' = recs /\ nextIds' = nextIds /\ bundle' = bundle /\ Less
  BY Spent DEF Close
<1>4. Known(bundle'.recs, spent.writes)
  BY <1>3 DEF RestoreInv
<1> QED
  BY <1>1, <1>2, <1>3, <1>4, RestsAfter

\* A tab that shows a case there is, or waits, owes nothing.
LEMMA ShownOwesNothing ==
    ASSUME SessionInv, RestoreInv, NEW p \in Page, (\E c \in Ids : Shows(p, c)) \/ Goes(p, "fresh") \/ Goes(p, "fetch"),
           kases' = kases, recs' = recs, nextIds' = nextIds, bundle' = bundle, Less
    PROVE  RestoreInv'
<1>1. \E pc \in {"idle", "fresh", "fetch"}, c \in Nat :
          pages' = [pages EXCEPT ![p] = [pages[p] EXCEPT !.pc = pc, !.open = c]] /\ c < nextIds.cases
  <2>1. CASE \E c \in Ids : Shows(p, c)
    <3>1. PICK c \in Ids : pages' = [pages EXCEPT ![p] = [pages[p] EXCEPT !.pc = "idle", !.open = c]]
      BY <2>1 DEF Shows
    <3>2. c \in Nat /\ c < nextIds.cases
      BY PageKnown
    <3> QED
      BY <3>1, <3>2
  <2>2. ASSUME NEW pc \in {"fresh", "fetch"}, Goes(p, pc)
        PROVE  pages' = [pages EXCEPT ![p] = [pages[p] EXCEPT !.pc = pc, !.open = pages[p].open]]
    BY <2>2, PageKnown DEF Goes, PageFields
  <2>3. pages[p].open \in Nat /\ pages[p].open < nextIds.cases
    BY PageKnown DEF Bounded
  <2> QED
    BY <2>1, <2>2, <2>3
<1>2. PICK pc \in {"idle", "fresh", "fetch"}, c \in Nat :
          pages' = [pages EXCEPT ![p] = [pages[p] EXCEPT !.pc = pc, !.open = c]] /\ c < nextIds.cases
  BY <1>1
<1> DEFINE g == [pages[p] EXCEPT !.pc = pc, !.open = c]
<1>3. g.pc = pc /\ g.open = c /\ g.from = pages[p].from /\ g.part = pages[p].part
  BY PageKnown DEF PageFields
<1>4. pages' = [pages EXCEPT ![p] = g]
  BY <1>2
<1> HIDE DEF g
<1>5. ~Working(g) /\ Bounded(g, nextIds.cases)
  BY <1>2, <1>3 DEF Working, Steps, Bounded
<1>6. Known(bundle'.recs, spent.writes)
  BY DEF RestoreInv
<1> QED
  BY <1>3, <1>4, <1>5, <1>6, PageKnown, RestsAfter

\* Another case is shown.
LEMMA SwitchToRestores == ASSUME SessionInv, RestoreInv, NEW p \in Page, SwitchTo(p) PROVE RestoreInv'
BY ShownOwesNothing, Spent DEF SwitchTo

\* The case after a deleted one is shown.
LEMMA ShowNextRestores == ASSUME SessionInv, RestoreInv, NEW p \in Page, ShowNext(p) PROVE RestoreInv'
BY ShownOwesNothing, NotSpent DEF ShowNext

\* A deletion ends.
LEMMA DeleteEndRestores == ASSUME SessionInv, RestoreInv, NEW p \in Page, DeleteEnd(p) PROVE RestoreInv'
<1>1. pages[p].then \in Sequels
  BY DEF DeleteEnd, SessionInv, Operations, Operation, Steps
<1> DEFINE g == [pages[p] EXCEPT !.pc = IF pages[p].then = "failed" THEN "idle" ELSE pages[p].then, !.c = 0]
<1>2. pages' = [pages EXCEPT ![p] = g]
  BY DEF DeleteEnd
<1>3. /\ g.pc \in {"idle", "next", "sweep", "fetch"}
      /\ g.open = pages[p].open /\ g.from = pages[p].from /\ g.part = pages[p].part
  BY <1>1, PageKnown DEF PageFields, Sequels
<1> HIDE DEF g
<1>4. ~Working(g) /\ Bounded(g, nextIds.cases)
  BY <1>3, PageKnown DEF Working, Steps, Bounded
<1>5. kases' = kases /\ recs' = recs /\ nextIds' = nextIds /\ bundle' = bundle /\ Less
  BY NotSpent DEF DeleteEnd
<1>6. Known(bundle'.recs, spent.writes)
  BY <1>5 DEF RestoreInv
<1> QED
  BY <1>2, <1>3, <1>4, <1>5, <1>6, PageKnown, RestsAfter

-----------------------------------------------------------------------------
(* Steps that change the cases or take records *)

\* What a case owes it still has, when its records stay.
LEMMA OwesStill ==
    ASSUME RestoreInv, NEW c \in Ids, kases'[c].whole \in {kases[c].whole, {}},
           kases'[c].restoring = kases[c].restoring, Intact(recs, recs', c, kases[c].whole)
    PROVE  CaseOwes(kases', recs', c)
<1>1. SUFFICES ASSUME kases'[c].whole # {}, ~kases'[c].restoring
               PROVE  \E off : Entered(recs', kases'[c].whole, off, c, {})
  BY DEF CaseOwes
<1>2. Known(kases[c].whole, spent.writes) /\ CaseOwes(kases, recs, c)
  BY DEF RestoreInv
<1>3. PICK off : Entered(recs, kases[c].whole, off, c, {})
  BY <1>1, <1>2 DEF CaseOwes
<1>4. Entered(recs', kases[c].whole, off, c, {})
  BY <1>2, <1>3, EnteredStays
<1> QED
  BY <1>1, <1>4

\* A new case owes nothing, or nothing yet.
LEMMA CaseComes ==
    ASSUME SessionInv, RestoreInv, NEW p \in Page, NEW row, DOMAIN row = CaseFields,
           AddCase(nextIds.cases, row), nextIds' = [nextIds EXCEPT !.cases = @ + 1],
           row.whole = {} \/ row.restoring, Known(row.whole, spent.writes),
           recs' = recs, bundle' = bundle, Less, \A q \in Page \ {p} : pages'[q] = pages[q],
           PageFits(pages'[p], kases', recs, nextIds.cases + 1, spent'.writes)
    PROVE  RestoreInv'
<1>1. /\ Ids' = Ids \cup {nextIds.cases} /\ nextIds.cases \notin Ids
      /\ nextIds'.cases = nextIds.cases + 1 /\ nextIds.cases \in Nat \ {0}
  BY CaseAdded
<1>2. (\A c \in Ids : kases'[c] = kases[c]) /\ kases'[nextIds.cases] = row
  BY <1>1 DEF AddCase
<1>3. ASSUME NEW c \in Ids PROVE CaseKept(p, c)
  <2>1. Intact(recs, recs', c, kases[c].whole)
    BY DEF Intact, InCase
  <2>2. CaseOwes(kases', recs', c)
    BY <1>2, <2>1, OwesStill
  <2> QED
    BY <1>2, <2>1, <2>2 DEF CaseKept
<1>4. spent.writes \in Nat /\ spent'.writes \in Nat /\ spent'.writes <= spent.writes
  BY DEF Less, RestoreInv
<1>5. /\ Known(recs', spent'.writes) /\ Known(bundle'.recs, spent'.writes)
      /\ Known(kases'[nextIds.cases].whole, spent'.writes)
  BY <1>2, <1>4, KnownLater DEF RestoreInv
<1>6. CaseOwes(kases', recs', nextIds.cases)
  BY <1>2 DEF CaseOwes
<1>7. \A r \in recs' : r.case \in Nat /\ r.case < nextIds'.cases
  BY <1>1 DEF RestoreInv
<1>8. RestoreKept(p)
  BY <1>1, <1>3, <1>5, <1>6, <1>7 DEF RestoreKept
<1> QED
  BY <1>8, RestoreStep

\* Records and cases go, and a case that still owes something keeps its records.
LEMMA RecordsGo ==
    ASSUME SessionInv, RestoreInv, NEW p \in Page, recs' \subseteq recs, nextIds' = nextIds, bundle' = bundle, Less,
           \A q \in Page \ {p} : pages'[q] = pages[q],
           PageFits(pages'[p], kases', recs', nextIds.cases, spent'.writes),
           Ids' \subseteq Ids,
           \A c \in Ids' : /\ kases'[c].whole \in {kases[c].whole, {}} /\ kases'[c].restoring = kases[c].restoring
                           /\ \/ kases'[c].whole = {} \/ InCase(recs, c) \subseteq recs'
                              \/ Locked(pages[p]) /\ c = pages[p].c /\ kases[c].restoring
    PROVE  RestoreInv'
<1>1. ASSUME NEW c \in Ids' PROVE c \in Ids /\ CaseKept(p, c)
  <2>1. c \in Ids /\ kases'[c].whole \in {kases[c].whole, {}} /\ kases'[c].restoring = kases[c].restoring
    OBVIOUS
  <2>2. CASE InCase(recs, c) \subseteq recs'
    <3>1. Intact(recs, recs', c, kases[c].whole)
      BY <2>2 DEF Intact, InCase
    <3>2. CaseOwes(kases', recs', c)
      BY <2>1, <3>1, OwesStill
    <3> QED
      BY <2>1, <3>1, <3>2 DEF CaseKept
  <2>3. CASE kases'[c].whole = {}
    BY <2>1, <2>3 DEF CaseKept
  <2>4. CASE Locked(pages[p]) /\ c = pages[p].c /\ kases[c].restoring
    BY <2>1, <2>4 DEF CaseKept, CaseOwes
  <2> QED
    BY <2>1, <2>2, <2>3, <2>4
<1>2. spent.writes \in Nat /\ spent'.writes \in Nat /\ spent'.writes <= spent.writes
  BY DEF Less, RestoreInv
<1>3. Known(recs', spent'.writes) /\ Known(bundle'.recs, spent'.writes)
  <2>1. Known(recs, spent'.writes) /\ Known(bundle'.recs, spent'.writes)
    BY <1>2, KnownLater DEF RestoreInv
  <2> QED
    BY <2>1 DEF Known
<1>4. nextIds'.cases \in Nat /\ nextIds.cases <= nextIds'.cases /\ nextIds'.cases = nextIds.cases
  BY DEF SessionInv, Shapes
<1>5. \A r \in recs' : r.case \in Nat /\ r.case < nextIds'.cases
  BY <1>4 DEF RestoreInv
<1>6. RestoreKept(p)
  BY <1>1, <1>3, <1>4, <1>5 DEF RestoreKept
<1> QED
  BY <1>6, RestoreStep

\* A tab that finds no case adds the default one.
LEMMA DefaultCaseRestores == ASSUME SessionInv, RestoreInv, NEW p \in Page, DefaultCase(p) PROVE RestoreInv'
<1> DEFINE g == [pages[p] EXCEPT !.pc = "opening", !.left = DOMAIN kases']
<1>1. pages' = [pages EXCEPT ![p] = g]
  BY DEF DefaultCase
<1>2. /\ g.pc = "opening" /\ g.open = pages[p].open /\ g.left = DOMAIN kases'
      /\ g.from = pages[p].from /\ g.part = pages[p].part
  BY PageKnown DEF PageFields
<1> HIDE DEF g
<1>3. pages'[p] = g /\ \A q \in Page \ {p} : pages'[q] = pages[q]
  BY <1>1, OwnPage
<1>4. ~Working(g)
  BY <1>2 DEF Working, Steps
<1>5. recs' = recs /\ bundle' = bundle /\ Less
  BY NotSpent DEF DefaultCase
<1>6. Known(g.from, spent'.writes) /\ Known(g.part, spent'.writes)
  BY <1>2, <1>5, PageKnown, KnownLater DEF Less
<1>7. CASE AddCase(nextIds.cases, NewCase("Case 1")) /\ nextIds' = [nextIds EXCEPT !.cases = @ + 1]
  <2>1. PICK row : row = NewCase("Case 1")
    BY Zenon
  <2>2. DOMAIN row = CaseFields /\ row.whole = {} /\ ~row.restoring
    BY <2>1 DEF NewCase, CaseFields
  <2>3. AddCase(nextIds.cases, row) /\ nextIds' = [nextIds EXCEPT !.cases = @ + 1]
    BY <1>7, <2>1, Zenon
  <2> HIDE DEF NewCase, AddCase
  <2>4. Ids' = Ids \cup {nextIds.cases} /\ nextIds.cases \in Nat \ {0}
    BY <2>2, <2>3, CaseAdded
  <2>5. Bounded(g, nextIds.cases + 1)
    BY <1>2, <2>4, PageKnown DEF Bounded, Ids, Steps
  <2>6. PageFits(pages'[p], kases', recs, nextIds.cases + 1, spent'.writes)
    BY <1>3, <1>4, <1>6, <2>5, OwesNothing
  <2>7. Known(row.whole, spent.writes)
    BY <2>2 DEF Known
  <2> QED
    BY <1>3, <1>5, <2>2, <2>3, <2>6, <2>7, CaseComes
<1>8. CASE Ids # {} /\ kases' = kases /\ nextIds' = nextIds
  <2>1. Bounded(g, nextIds.cases)
    BY <1>2, <1>8, PageKnown DEF Bounded, Ids, Steps
  <2>2. Known(bundle'.recs, spent.writes) /\ Known(g.from, spent.writes) /\ Known(g.part, spent.writes)
    BY <1>2, <1>5, PageKnown DEF RestoreInv
  <2> QED
    BY <1>1, <1>4, <1>5, <1>8, <2>1, <2>2, RestsAfter
<1> QED
  BY <1>7, <1>8 DEF DefaultCase

\* A new case of the analyst's own is shown.
LEMMA OwnCaseRestores ==
    ASSUME SessionInv, RestoreInv, NEW p \in Page, NEW name, AddAndShow(p, name),
           recs' = recs, bundle' = bundle, spent' = spent
    PROVE  RestoreInv'
<1> DEFINE g == [pages[p] EXCEPT !.pc = "idle", !.open = nextIds.cases]
<1>1. pages' = [pages EXCEPT ![p] = g]
  BY DEF AddAndShow, Shows
<1>2. g.pc = "idle" /\ g.open = nextIds.cases /\ g.from = pages[p].from /\ g.part = pages[p].part
  BY PageKnown DEF PageFields
<1> HIDE DEF g
<1>3. pages'[p] = g /\ \A q \in Page \ {p} : pages'[q] = pages[q]
  BY <1>1, OwnPage
<1>4. ~Working(g) /\ Bounded(g, nextIds.cases + 1)
  BY <1>2, PageKnown DEF Working, Steps, Bounded
<1>5. Less
  BY NotSpent
<1>6. Known(g.from, spent'.writes) /\ Known(g.part, spent'.writes)
  BY <1>2, <1>5, PageKnown, KnownLater DEF Less
<1>7. PageFits(pages'[p], kases', recs, nextIds.cases + 1, spent'.writes)
  BY <1>3, <1>4, <1>6, OwesNothing
<1>8. AddCase(nextIds.cases, NewCase(name)) /\ nextIds' = [nextIds EXCEPT !.cases = @ + 1]
  BY DEF AddAndShow
<1>9. DOMAIN NewCase(name) = CaseFields /\ NewCase(name).whole = {} /\ Known(NewCase(name).whole, spent.writes)
  BY DEF NewCase, CaseFields, Known
<1> HIDE DEF NewCase, AddCase
<1> QED
  BY <1>3, <1>5, <1>7, <1>8, <1>9, CaseComes

\* removeCase adds a case when none is left.
LEMMA FreshCaseRestores == ASSUME SessionInv, RestoreInv, NEW p \in Page, FreshCase(p) PROVE RestoreInv'
BY OwnCaseRestores DEF FreshCase

\* startCase adds a case, or names the one there was.
LEMMA StartWriteRestores == ASSUME SessionInv, RestoreInv, NEW p \in Page, StartWrite(p) PROVE RestoreInv'
<1>1. CASE AddAndShow(p, "mine")
  BY <1>1, OwnCaseRestores DEF StartWrite
<1>2. CASE \E c \in pages[p].left :
              /\ kases' = [i \in Ids |-> IF i = c THEN [kases[i] EXCEPT !.name = "mine"] ELSE kases[i]]
              /\ lastCase' = c /\ nextIds' = nextIds
              /\ pages' = [pages EXCEPT ![p].pc = "idle", ![p].left = {}, ![p].open = IF c \in Ids THEN c ELSE 0]
  <2>1. PICK c \in pages[p].left :
              /\ kases' = [i \in Ids |-> IF i = c THEN [kases[i] EXCEPT !.name = "mine"] ELSE kases[i]]
              /\ lastCase' = c /\ nextIds' = nextIds
              /\ pages' = [pages EXCEPT ![p].pc = "idle", ![p].left = {}, ![p].open = IF c \in Ids THEN c ELSE 0]
    BY <1>2
  <2> DEFINE open == IF c \in Ids THEN c ELSE 0
             g == [pages[p] EXCEPT !.pc = "idle", !.left = {}, !.open = open]
  <2>2. pages' = [pages EXCEPT ![p] = g]
    BY <2>1
  <2>3. g.pc = "idle" /\ g.open = open /\ g.from = pages[p].from /\ g.part = pages[p].part
    BY PageKnown DEF PageFields
  <2>4. open \in Nat /\ open < nextIds.cases
    BY PageKnown
  <2> HIDE DEF g, open
  <2>5. ~Working(g) /\ Bounded(g, nextIds.cases)
    BY <2>3, <2>4 DEF Working, Steps, Bounded
  <2>6. recs' = recs /\ bundle' = bundle /\ nextIds' = nextIds /\ Less
    BY <2>1, NotSpent DEF StartWrite
  <2>7. Known(g.from, spent'.writes) /\ Known(g.part, spent'.writes)
    BY <2>3, <2>6, PageKnown, KnownLater DEF Less
  <2>8. pages'[p] = g /\ \A q \in Page \ {p} : pages'[q] = pages[q]
    BY <2>2, OwnPage
  <2>9. PageFits(pages'[p], kases', recs', nextIds.cases, spent'.writes)
    BY <2>5, <2>7, <2>8, OwesNothing
  <2>10. Ids' = Ids
    BY <2>1 DEF Ids
  <2>11. \A i \in Ids : kases'[i].whole = kases[i].whole /\ kases'[i].restoring = kases[i].restoring
    BY <2>1 DEF SessionInv, Shapes, CaseFields
  <2>12. \A i \in Ids : InCase(recs, i) \subseteq recs'
    BY <2>6 DEF InCase
  <2> QED
    BY <2>6, <2>8, <2>9, <2>10, <2>11, <2>12, RecordsGo
<1> QED
  BY <1>1, <1>2 DEF StartWrite

\* The data of a case goes, and the case owes nothing any more.
LEMMA WipeRestores == ASSUME SessionInv, RestoreInv, NEW p \in Page, Wipe(p) PROVE RestoreInv'
<1> DEFINE c == pages[p].open
<1>1. /\ pages' = pages /\ nextIds' = nextIds /\ bundle' = bundle /\ Less /\ pages[p].pc = "idle" /\ c \in Ids
  BY Spent DEF Wipe
<1>2. /\ recs' = {r \in recs : r.case = c => r.t = "customRules"}
      /\ kases' = [kases EXCEPT ![c].whole = {}]
  BY DEF Wipe
<1>3. Ids' = Ids
  BY <1>2 DEF Ids
<1>4. \A i \in Ids : /\ kases'[i].restoring = kases[i].restoring
                     /\ kases'[i].whole = IF i = c THEN {} ELSE kases[i].whole
  BY <1>1, <1>2 DEF Ids, SessionInv, Shapes, CaseFields
<1>5. \A i \in Ids : i # c => InCase(recs, i) \subseteq recs'
  BY <1>2 DEF InCase
<1>6. PageFits(pages'[p], kases', recs', nextIds.cases, spent'.writes)
  <2>1. ~Working(pages[p])
    BY <1>1 DEF Working, Steps
  <2>2. Known(pages[p].from, spent'.writes) /\ Known(pages[p].part, spent'.writes)
    BY <1>1, PageKnown, KnownLater DEF Less
  <2> QED
    BY <1>1, <2>1, <2>2, PageKnown, OwesNothing
<1>7. recs' \subseteq recs
  BY <1>2
<1>8. \A i \in Ids' : /\ kases'[i].whole \in {kases[i].whole, {}} /\ kases'[i].restoring = kases[i].restoring
                      /\ kases'[i].whole = {} \/ InCase(recs, i) \subseteq recs'
  BY <1>3, <1>4, <1>5
<1>9. \A q \in Page \ {p} : pages'[q] = pages[q]
  BY <1>1
<1> QED
  BY <1>1, <1>3, <1>6, <1>7, <1>8, <1>9, RecordsGo

\* A deletion begins of a case given up: it owes nothing.
LEMMA GivenUpRestores ==
    ASSUME SessionInv, RestoreInv, NEW p \in Page, NEW c \in Nat, c < nextIds.cases, NEW then \in {"next", "fetch"},
           Condemn(c), BeginDelete(p, c, then), recs' = recs, nextIds' = nextIds, bundle' = bundle, Less
    PROVE  RestoreInv'
<1> DEFINE g == [pages[p] EXCEPT !.pc = "delData", !.c = c, !.then = then]
<1>1. pages' = [pages EXCEPT ![p] = g]
  BY DEF BeginDelete
<1>2. /\ g.pc = "delData" /\ g.then = then /\ g.c = c /\ g.open = pages[p].open
      /\ g.from = pages[p].from /\ g.part = pages[p].part
  BY PageKnown DEF PageFields
<1> HIDE DEF g
<1>3. pages'[p] = g /\ \A q \in Page \ {p} : pages'[q] = pages[q]
  BY <1>1, OwnPage
<1>4. /\ Ids' = Ids
      /\ \A i \in Ids : /\ kases'[i].restoring = kases[i].restoring
                        /\ kases'[i].whole = IF i = c THEN {} ELSE kases[i].whole
  <2>1. kases' = [i \in Ids |-> IF i = c THEN [kases[i] EXCEPT !.whole = {}] ELSE kases[i]]
    BY DEF Condemn
  <2> QED
    BY <2>1 DEF Ids, SessionInv, Shapes, CaseFields
<1>5. PageFits(g, kases', recs', nextIds.cases, spent'.writes)
  <2>1. ~Locked(g)
    BY <1>2 DEF Locked
  <2>2. Held(g, kases')
    BY <1>2, <1>4, <2>1 DEF Held, Ids
  <2>3. Bounded(g, nextIds.cases)
    BY <1>2, PageKnown DEF Bounded
  <2>4. PageOwes(g, kases', recs')
    BY <1>2 DEF PageOwes
  <2>5. Known(g.from, spent'.writes) /\ Known(g.part, spent'.writes)
    BY <1>2, PageKnown, KnownLater DEF Less
  <2> QED
    BY <2>2, <2>3, <2>4, <2>5 DEF PageFits
<1>6. \A i \in Ids : InCase(recs, i) \subseteq recs'
  BY DEF InCase
<1> QED
  BY <1>3, <1>4, <1>5, <1>6, RecordsGo

\* An analyst deletes the case shown.
LEMMA DestroyRestores == ASSUME SessionInv, RestoreInv, NEW p \in Page, Destroy(p) PROVE RestoreInv'
<1>1. pages[p].open \in Nat /\ pages[p].open < nextIds.cases
  BY PageKnown DEF Bounded
<1> QED
  BY <1>1, Spent, GivenUpRestores DEF Destroy

\* The demo is shown, deleted as empty, or fetched.
LEMMA OpenDemoRestores == ASSUME SessionInv, RestoreInv, NEW p \in Page, OpenDemo(p) PROVE RestoreInv'
<1> DEFINE demos == {c \in Ids : kases[c].name = "demo" /\ ~kases[c].restoring}
           c == Min(demos)
<1>1. recs' = recs /\ bundle' = bundle /\ nextIds' = nextIds /\ Less
  BY Spent DEF OpenDemo
<1>2. demos # {} => c \in Ids
  <2>1. demos \subseteq Nat
    BY PageKnown
  <2> HIDE DEF demos
  <2>2. demos # {} => c \in demos
    BY <2>1, MinIsLeast
  <2> QED
    BY <2>2 DEF demos
<1> HIDE DEF c, demos
<1>3. CASE kases' = kases /\ Goes(p, "fetch")
  BY <1>1, <1>3, ShownOwesNothing
<1>4. CASE kases' = kases /\ c \in Ids /\ Shows(p, c)
  BY <1>1, <1>4, ShownOwesNothing
<1>5. CASE BeginDelete(p, c, "fetch") /\ Condemn(c) /\ c \in Ids
  BY <1>1, <1>5, PageKnown, GivenUpRestores
<1> QED
  BY <1>2, <1>3, <1>4, <1>5 DEF OpenDemo, c, demos

\* The start of a tab takes the lock of a case that is restoring.
LEMMA SweepRestores == ASSUME SessionInv, RestoreInv, NEW p \in Page, Sweep(p) PROVE RestoreInv'
<1> DEFINE c == Min(pages[p].todo)
<1>1. kases' = kases /\ recs' = recs /\ bundle' = bundle /\ nextIds' = nextIds /\ Less /\ pages[p].pc = "sweep"
  BY NotSpent DEF Sweep
<1>2. Known(bundle'.recs, spent.writes)
  BY <1>1 DEF RestoreInv
<1>3. CASE LockFree(c) /\ c \in Restoring
  <2> DEFINE g == [pages[p] EXCEPT !.todo = @ \ {c}, !.pc = "delData", !.c = c, !.then = "sweep"]
  <2>1. pages' = [pages EXCEPT ![p] = g]
    BY <1>3 DEF Sweep
  <2>2. /\ g.pc = "delData" /\ g.then = "sweep" /\ g.c = c /\ g.open = pages[p].open
        /\ g.from = pages[p].from /\ g.part = pages[p].part
    BY PageKnown DEF PageFields
  <2>3. c \in Ids /\ kases[c].restoring
    BY <1>3 DEF Restoring
  <2> HIDE DEF g, c
  <2>4. Locked(g)
    BY <2>2 DEF Locked, Steps
  <2>5. Held(g, kases)
    BY <2>2, <2>3, <2>4 DEF Held
  <2>6. Bounded(g, nextIds.cases)
    BY <2>2, <2>3, PageKnown DEF Bounded
  <2>7. PageOwes(g, kases, recs)
    BY <2>2 DEF PageOwes
  <2>8. Known(g.from, spent'.writes) /\ Known(g.part, spent'.writes) /\ Known(bundle'.recs, spent'.writes)
    BY <1>1, <1>2, <2>2, PageKnown, KnownLater DEF Less
  <2>9. PageFits(g, kases, recs, nextIds.cases, spent'.writes)
    BY <2>5, <2>6, <2>7, <2>8 DEF PageFits
  <2>10. Quiet(p)
    BY <1>1, <2>1, <2>8, <2>9, OwnPage DEF Quiet
  <2> QED
    BY <2>10, QuietKeeps
<1>4. CASE ~(LockFree(c) /\ c \in Restoring)
  <2> DEFINE g == [pages[p] EXCEPT !.todo = @ \ {c}]
  <2>1. pages' = [pages EXCEPT ![p] = g]
    BY <1>4 DEF Sweep
  <2>2. g.pc = "sweep" /\ g.open = pages[p].open /\ g.from = pages[p].from /\ g.part = pages[p].part
    BY <1>1, PageKnown DEF PageFields
  <2> HIDE DEF g
  <2>3. ~Working(g) /\ Bounded(g, nextIds.cases)
    BY <2>2, PageKnown DEF Working, Steps, Bounded
  <2> QED
    BY <1>1, <1>2, <2>1, <2>2, <2>3, PageKnown, RestsAfter
<1> QED
  BY <1>3, <1>4

\* A tab that goes on with its deletion.
LEMMA NextStepFits ==
    ASSUME SessionInv, RestoreInv, NEW p \in Page, pages[p].pc \in Steps, pages[p].pc # "delLast", NEW pc \in Steps,
           Goes(p, pc), Less, NEW ks, NEW rs,
           pages[p].c \in DOMAIN ks => pages[p].c \in Ids /\ ks[pages[p].c] = kases[pages[p].c]
    PROVE  /\ \A q \in Page \ {p} : pages'[q] = pages[q]
           /\ PageFits(pages'[p], ks, rs, nextIds.cases, spent'.writes)
<1> DEFINE g == [pages[p] EXCEPT !.pc = pc]
<1>1. pages' = [pages EXCEPT ![p] = g]
  BY DEF Goes
<1>2. /\ g.pc = pc /\ g.c = pages[p].c /\ g.then = pages[p].then /\ g.open = pages[p].open
      /\ g.from = pages[p].from /\ g.part = pages[p].part
  BY PageKnown DEF PageFields
<1> HIDE DEF g
<1>3. pages'[p] = g /\ \A q \in Page \ {p} : pages'[q] = pages[q]
  BY <1>1, OwnPage
<1>4. Locked(g) <=> Locked(pages[p])
  BY <1>2 DEF Locked, Steps
<1>5. Held(pages[p], kases)
  BY DEF RestoreInv, PageFits
<1>6. Held(g, ks)
  BY <1>2, <1>4, <1>5 DEF Held, Ids
<1>7. Bounded(g, nextIds.cases)
  BY <1>2, PageKnown DEF Bounded, Steps
<1>8. PageOwes(g, ks, rs)
  BY <1>2 DEF PageOwes, Steps
<1>9. Known(g.from, spent'.writes) /\ Known(g.part, spent'.writes)
  BY <1>2, PageKnown, KnownLater DEF Less
<1> QED
  BY <1>3, <1>6, <1>7, <1>8, <1>9 DEF PageFits

\* A step of a deletion takes records only of a case that is restoring or owes nothing.
LEMMA DeleteStepRestores == ASSUME SessionInv, RestoreInv, NEW p \in Page, DeleteStep(p) PROVE RestoreInv'
<1> DEFINE c == pages[p].c
<1>1. nextIds' = nextIds /\ bundle' = bundle /\ Less /\ pages[p].pc \in Steps /\ pages[p].pc # "delLast"
  BY NotSpent DEF DeleteStep, Steps
<1>2. c \in Ids => (Locked(pages[p]) /\ kases[c].restoring) \/ kases[c].whole = {}
  BY <1>1 DEF RestoreInv, PageFits, Held, Ids
<1>3. CASE kases' = kases /\ recs' \subseteq recs /\ (\A i : i # c => InCase(recs, i) \subseteq recs')
           /\ \E pc \in Steps : Goes(p, pc)
  <2>1. (\A q \in Page \ {p} : pages'[q] = pages[q]) /\ PageFits(pages'[p], kases', recs', nextIds.cases, spent'.writes)
    BY <1>1, <1>3, NextStepFits DEF Ids
  <2>2. Ids' = Ids
    BY <1>3 DEF Ids
  <2> QED
    BY <1>1, <1>2, <1>3, <2>1, <2>2, RecordsGo
<1>4. CASE pages[p].pc = "delCase" /\ kases' = [i \in Ids \ {c} |-> kases[i]] /\ recs' = recs /\ Goes(p, "delLast")
  <2>1. Ids' = Ids \ {c} /\ \A i \in Ids' : kases'[i] = kases[i]
    BY <1>4 DEF Ids
  <2>2. (\A q \in Page \ {p} : pages'[q] = pages[q]) /\ PageFits(pages'[p], kases', recs', nextIds.cases, spent'.writes)
    BY <1>1, <1>4, <2>1, NextStepFits DEF Ids, Steps
  <2>3. \A i : InCase(recs, i) \subseteq recs'
    BY <1>4 DEF InCase
  <2> QED
    BY <1>1, <1>4, <2>1, <2>2, <2>3, RecordsGo
<1>5. CASE /\ recs' = {r \in recs : r.case = c => r.t = "customRules"}
           /\ kases' = kases /\ Goes(p, "delRules")
  BY <1>3, <1>5 DEF InCase, Steps
<1>6. CASE /\ recs' = {r \in recs : r.case = c => r.t # "customRules"}
           /\ kases' = kases /\ Goes(p, "delCase")
  BY <1>3, <1>6 DEF InCase, Steps
<1> QED
  BY <1>4, <1>5, <1>6 DEF DeleteStep

-----------------------------------------------------------------------------
(* Restoring a bundle *)

\* A restore begins: its case is new, so that no record is in it yet.
LEMMA BeginRestores ==
    ASSUME SessionInv, RestoreInv, NEW p \in Page, NEW b, NEW owed, NEW name, NEW then,
           BeginRestore(p, b, owed, name, then), b.recs = owed.recs, Known(b.recs, spent.writes),
           recs' = recs, bundle' = bundle, Less
    PROVE  RestoreInv'
<1> DEFINE n == nextIds.cases
<1>1. PICK row : row = [name |-> name, restoring |-> TRUE, whole |-> IF owed.whole THEN owed.recs ELSE {}]
  BY Zenon
<1>2. DOMAIN row = CaseFields /\ row.restoring /\ (row.whole # {} => row.whole = b.recs)
  BY <1>1 DEF CaseFields
<1>3. AddCase(nextIds.cases, row) /\ nextIds' = [nextIds EXCEPT !.cases = @ + 1]
  BY <1>1, Zenon DEF BeginRestore
<1>4. Ids' = Ids \cup {n} /\ kases'[n] = row
  <2>1. Ids' = Ids \cup {n}
    BY <1>2, <1>3, CaseAdded
  <2> QED
    BY <1>3, <2>1 DEF AddCase
<1> DEFINE g == [pages[p] EXCEPT !.pc = "fill", !.c = nextIds.cases, !.from = b.recs,
                                 !.off = Offsets(recs), !.left = Tables, !.then = then]
<1>5. pages' = [pages EXCEPT ![p] = g]
  BY Zenon DEF BeginRestore
<1>6. /\ g.pc = "fill" /\ g.c = n /\ g.left = Tables /\ g.open = pages[p].open
      /\ g.from = b.recs /\ g.part = pages[p].part
  <2>1. DOMAIN pages[p] = PageFields
    BY PageKnown
  <2> HIDE DEF Tables, Offsets
  <2> QED
    BY <2>1 DEF PageFields
<1> HIDE DEF g
<1>7. pages'[p] = g /\ \A q \in Page \ {p} : pages'[q] = pages[q]
  BY <1>5, OwnPage
<1>8. Entered(recs, g.from, g.off, g.c, g.left)
  <2>1. \A r \in g.from : r.t \in g.left
    BY <1>6 DEF Known
  <2>2. InCase(recs, g.c) = {}
    BY <1>6, PageKnown DEF InCase, RestoreInv
  <2> QED
    BY <2>1, <2>2 DEF Entered
<1>9. PageFits(g, kases', recs, n + 1, spent'.writes)
  <2>1. PageOwes(g, kases', recs)
    BY <1>2, <1>4, <1>6, <1>8 DEF PageOwes
  <2>2. Held(g, kases')
    BY <1>2, <1>4, <1>6 DEF Held, Steps
  <2>3. Bounded(g, n + 1)
    BY <1>6, PageKnown DEF Bounded, Steps
  <2>4. Known(g.from, spent'.writes) /\ Known(g.part, spent'.writes)
    BY <1>6, PageKnown, KnownLater DEF Less
  <2> QED
    BY <2>1, <2>2, <2>3, <2>4 DEF PageFits
<1>10. Known(row.whole, spent.writes)
  BY <1>2 DEF Known
<1> HIDE DEF AddCase
<1> QED
  BY <1>2, <1>3, <1>7, <1>9, <1>10, CaseComes

\* The demo's restore begins.
LEMMA FetchDemoRestores == ASSUME SessionInv, RestoreInv, NEW p \in Page, FetchDemo(p) PROVE RestoreInv'
<1> DEFINE demo == [recs |-> Demo, case |-> 1, whole |-> TRUE]
<1>1. Known(demo.recs, spent.writes)
  BY DEF RestoreInv
<1>2. BeginRestore(p, demo, demo, "demo", "demo") /\ recs' = recs /\ bundle' = bundle /\ Less
  BY NotSpent DEF FetchDemo
<1> HIDE DEF demo
<1> QED
  BY <1>1, <1>2, BeginRestores

\* A file that is verified is the one that was written.
LEMMA VerifiedIsWritten ==
    ASSUME NEW rs, NEW file \in Copies(rs), Verified(file) PROVE file.recs = rs
BY DEF Copies, Verified, Written

\* A verified file begins a restore, a damaged one changes nothing.
LEMMA ImportBundleRestores == ASSUME SessionInv, RestoreInv, NEW p \in Page, ImportBundle(p) PROVE RestoreInv'
<1>1. PICK file \in Copies(bundle.recs) :
           IF Verified(file) THEN BeginRestore(p, [bundle EXCEPT !.recs = file.recs], bundle, "imported", "imported")
           ELSE UNCHANGED <<kases, nextIds, pages>>
  BY DEF ImportBundle
<1>2. recs' = recs /\ bundle' = bundle /\ Less /\ pages[p].pc = "idle"
  BY Spent DEF ImportBundle
<1>3. CASE Verified(file)
  <2>1. PICK b : b = [bundle EXCEPT !.recs = file.recs]
    BY Zenon
  <2>2. b.recs = bundle.recs
    BY <1>3, <2>1, VerifiedIsWritten DEF SessionInv, Shapes
  <2>3. Known(b.recs, spent.writes)
    BY <2>2 DEF RestoreInv
  <2>4. BeginRestore(p, b, bundle, "imported", "imported")
    BY <1>1, <1>3, <2>1, Zenon
  <2> QED
    BY <1>2, <2>2, <2>3, <2>4, BeginRestores
<1>4. CASE ~Verified(file)
  <2>1. pages' = pages /\ kases' = kases /\ nextIds' = nextIds /\ ~Working(pages[p])
    BY <1>1, <1>2, <1>4 DEF Working, Steps
  <2>2. /\ Known(pages[p].from, spent'.writes) /\ Known(pages[p].part, spent'.writes)
        /\ Known(bundle'.recs, spent'.writes)
    BY <1>2, PageKnown, KnownLater DEF Less, RestoreInv
  <2>3. PageFits(pages'[p], kases, recs, nextIds.cases, spent'.writes)
    BY <2>1, <2>2, PageKnown, OwesNothing
  <2>4. Quiet(p)
    BY <1>2, <2>1, <2>2, <2>3 DEF Quiet
  <2> QED
    BY <2>4, QuietKeeps
<1> QED
  BY <1>3, <1>4

\* A batch enters the records of its table, all with marks of the bundle.
LEMMA BatchEnters ==
    ASSUME NEW rs, NEW from, NEW off, NEW c, NEW left, NEW t, Entered(rs, from, off, c, left)
    PROVE  Entered(rs \cup {Remap(from, off, c, r) : r \in Of(from, t)}, from, off, c, left \ {t})
<1> DEFINE batch == {Remap(from, off, c, r) : r \in Of(from, t)}
<1>1. \A b \in from : b.t = t => Remap(from, off, c, b) \in batch
  BY DEF Of
<1>2. \A r \in batch : \E b \in from : r = Remap(from, off, c, b)
  BY DEF Of
<1> HIDE DEF batch
<1>3. \A b \in from : b.t \notin left \ {t} => Remap(from, off, c, b) \in rs \cup batch
  BY <1>1 DEF Entered
<1>4. \A r \in InCase(rs \cup batch, c) : r \in InCase(rs, c) \/ r \in batch
  BY DEF InCase
<1>5. \A r \in InCase(rs \cup batch, c) : Mark(r) \in Marks(from) => \E b \in from : r = Remap(from, off, c, b)
  BY <1>2, <1>4 DEF Entered
<1>6. Entered(rs \cup batch, from, off, c, left \ {t})
  BY <1>3, <1>5 DEF Entered
<1> QED
  BY <1>6 DEF batch

\* What a restore adds is of its own case, which is restoring: no other case loses or gains.
LEMMA FilledRestores ==
    ASSUME SessionInv, RestoreInv, NEW p \in Page, pages[p].pc = "fill", NEW some \in SUBSET BatchOf(p),
           recs' = recs \cup some, kases' = kases, bundle' = bundle, Less,
           nextIds'.cases = nextIds.cases, NEW g, pages' = [pages EXCEPT ![p] = g],
           PageFits(g, kases, recs', nextIds.cases, spent'.writes)
    PROVE  RestoreInv'
<1> DEFINE c == pages[p].c
<1>1. Locked(pages[p]) /\ pages[p].pc # "delLast" /\ c \in Nat \ {0} /\ c < nextIds.cases
  BY DEF Locked, SessionInv, Operations, Operation
<1>2. c \in Ids => kases[c].restoring
  BY <1>1 DEF RestoreInv, PageFits, Held, Ids
<1>3. \A r \in some : r.case = c
  BY BatchIsOfCase
<1>4. Known(some, spent.writes)
  <2>1. \A b \in pages[p].from : DOMAIN b = RecordFields /\ b.t \in Tables /\ b.text \notin 1..spent.writes
    BY PageKnown DEF Known
  <2>2. \A r \in BatchOf(p) : \E b \in pages[p].from : r = Remap(pages[p].from, pages[p].off, pages[p].c, b)
    BY DEF BatchOf, Of
  <2>3. \A b \in pages[p].from :
            LET r == Remap(pages[p].from, pages[p].off, pages[p].c, b) IN
            DOMAIN r = RecordFields /\ r.t = b.t /\ r.text = b.text
    BY <2>1, RemapIsOfCase
  <2>4. \A r \in BatchOf(p) : \E b \in pages[p].from : DOMAIN r = RecordFields /\ r.t = b.t /\ r.text = b.text
    BY <2>2, <2>3
  <2> QED
    BY <2>1, <2>4 DEF Known
<1>5. spent.writes \in Nat /\ spent'.writes \in Nat /\ spent'.writes <= spent.writes
  BY DEF Less, RestoreInv
<1>6. Known(recs', spent'.writes) /\ Known(bundle'.recs, spent'.writes)
  <2>1. Known(recs', spent.writes)
    BY <1>4 DEF Known, RestoreInv
  <2> QED
    BY <1>5, <2>1, KnownLater DEF RestoreInv
<1>7. ASSUME NEW i \in Ids PROVE CaseKept(p, i)
  <2>1. CASE i = c
    BY <1>1, <1>2, <2>1 DEF CaseKept, CaseOwes
  <2>2. CASE i # c
    <3>1. Intact(recs, recs', i, kases[i].whole)
      BY <1>3, <2>2 DEF Intact, InCase
    <3> QED
      BY <2>2, <3>1 DEF CaseKept
  <2> QED
    BY <2>1, <2>2
<1>8. \A r \in recs' : r.case \in Nat /\ r.case < nextIds'.cases
  BY <1>1, <1>3 DEF RestoreInv
<1>9. pages'[p] = g /\ \A q \in Page \ {p} : pages'[q] = pages[q]
  BY OwnPage
<1>10. Ids' = Ids /\ nextIds.cases \in Nat /\ nextIds'.cases \in Nat /\ nextIds.cases <= nextIds'.cases
  BY PageKnown DEF Ids
<1>11. RestoreKept(p)
  BY <1>6, <1>7, <1>8, <1>9, <1>10 DEF RestoreKept
<1> QED
  BY <1>11, RestoreStep

\* A batch goes in whole: one table less is left.
LEMMA FillRestores == ASSUME SessionInv, RestoreInv, NEW p \in Page, Fill(p) PROVE RestoreInv'
<1>1. pages[p].pc = "fill" /\ pages[p].left # {} /\ pages[p].left \subseteq Tables
  BY DEF Fill, SessionInv, Operations, Operation
<1>2. NextTable(p) \in pages[p].left /\ NextTable(p) # "cases"
  BY <1>1, NextIsTable
<1> DEFINE g == [pages[p] EXCEPT !.left = @ \ {NextTable(p)},
                                 !.pc = IF pages[p].left = {NextTable(p)} THEN "finish" ELSE "fill"]
<1>3. pages' = [pages EXCEPT ![p] = g]
  BY DEF Fill
<1>4. /\ g.c = pages[p].c /\ g.left = pages[p].left \ {NextTable(p)} /\ g.open = pages[p].open
      /\ g.from = pages[p].from /\ g.part = pages[p].part /\ g.off = pages[p].off
      /\ g.pc = IF pages[p].left = {NextTable(p)} THEN "finish" ELSE "fill"
  BY PageKnown DEF PageFields
<1> HIDE DEF g
<1>5. recs' = recs \cup BatchOf(p) /\ kases' = kases /\ bundle' = bundle /\ Less
  BY NotSpent DEF Fill
<1>6. nextIds'.cases = nextIds.cases
  <2>1. \E n : nextIds' = [nextIds EXCEPT ![NextTable(p)] = n]
    BY DEF Fill
  <2> QED
    BY <1>2, <2>1 DEF SessionInv, Shapes
<1>7. PageFits(g, kases, recs', nextIds.cases, spent'.writes)
  <2>1. PageOwes(pages[p], kases, recs) /\ Held(pages[p], kases) /\ Bounded(pages[p], nextIds.cases)
    BY DEF RestoreInv, PageFits
  <2>2. ASSUME g.c \in DOMAIN kases, kases[g.c].whole # {}
        PROVE  /\ g.from = kases[g.c].whole
               /\ g.pc = "finish" => g.left = {}
               /\ Entered(recs', g.from, g.off, g.c, g.left)
    <3>1. pages[p].from = kases[g.c].whole /\ Entered(recs, g.from, g.off, g.c, pages[p].left)
      BY <1>1, <1>4, <2>1, <2>2 DEF PageOwes
    <3>2. Entered(recs \cup {Remap(g.from, g.off, g.c, r) : r \in Of(g.from, NextTable(p))}, g.from, g.off, g.c,
                  pages[p].left \ {NextTable(p)})
      BY <3>1, BatchEnters
    <3>3. BatchOf(p) = {Remap(g.from, g.off, g.c, r) : r \in Of(g.from, NextTable(p))}
      BY <1>4 DEF BatchOf
    <3>4. Entered(recs', g.from, g.off, g.c, g.left)
      BY <1>4, <1>5, <3>2, <3>3
    <3> QED
      BY <1>4, <3>1, <3>4
  <2>3. PageOwes(g, kases, recs')
    BY <2>2 DEF PageOwes
  <2>4. Held(g, kases)
    BY <1>1, <1>4, <2>1 DEF Held, Locked, Steps
  <2>5. Bounded(g, nextIds.cases)
    BY <1>4, <2>1 DEF Bounded, Steps
  <2>6. Known(g.from, spent'.writes) /\ Known(g.part, spent'.writes)
    BY <1>4, <1>5, PageKnown, KnownLater DEF Less
  <2> QED
    BY <2>3, <2>4, <2>5, <2>6 DEF PageFits
<1> QED
  BY <1>1, <1>3, <1>5, <1>6, <1>7, FilledRestores

\* A batch that is refused: the tab deletes the case under its lock.
LEMMA FillFailsRestores == ASSUME SessionInv, RestoreInv, NEW p \in Page, FillFails(p) PROVE RestoreInv'
<1> DEFINE g == [pages[p] EXCEPT !.pc = "delData", !.then = "failed", !.left = {}]
           some == {r \in BatchOf(p) : ~Taken(recs, r)}
<1>1. pages' = [pages EXCEPT ![p] = g]
  BY DEF FillFails
<1>2. /\ g.c = pages[p].c /\ g.pc = "delData" /\ g.then = "failed" /\ g.open = pages[p].open
      /\ g.from = pages[p].from /\ g.part = pages[p].part
  BY PageKnown DEF PageFields
<1> HIDE DEF g
<1>3. recs' = recs \cup some /\ pages[p].pc = "fill" /\ kases' = kases /\ bundle' = bundle /\ nextIds' = nextIds
  BY DEF FillFails
<1>4. Less
  BY NotSpent, Spent DEF FillFails
<1>5. some \in SUBSET BatchOf(p)
  OBVIOUS
<1> HIDE DEF some
<1>6. Locked(g) /\ Locked(pages[p]) /\ pages[p].c \in Nat /\ pages[p].c < nextIds.cases
  BY <1>2, <1>3 DEF Locked, Steps, SessionInv, Operations, Operation
<1>7. PageFits(g, kases, recs', nextIds.cases, spent'.writes)
  <2>1. Held(pages[p], kases)
    BY DEF RestoreInv, PageFits
  <2>2. Held(g, kases)
    BY <1>2, <1>3, <1>6, <2>1 DEF Held
  <2>3. PageOwes(g, kases, recs')
    BY <1>2 DEF PageOwes
  <2>4. Bounded(g, nextIds.cases)
    BY <1>2, <1>6, PageKnown DEF Bounded
  <2>5. Known(g.from, spent'.writes) /\ Known(g.part, spent'.writes)
    BY <1>2, <1>4, PageKnown, KnownLater DEF Less
  <2> QED
    BY <2>2, <2>3, <2>4, <2>5 DEF PageFits
<1> QED
  BY <1>1, <1>3, <1>4, <1>5, <1>7, FilledRestores

\* The end of a restore: what the tab has entered is what the case owes.
LEMMA FinishRestores == ASSUME SessionInv, RestoreInv, NEW p \in Page, FinishRestore(p) PROVE RestoreInv'
<1> DEFINE c == pages[p].c
           open == IF pages[p].then = "imported" THEN pages[p].open ELSE IF c \in Ids THEN c ELSE 0
           g == [Gone EXCEPT !.pc = "idle", !.open = open]
<1>1. pages' = [pages EXCEPT ![p] = g]
  BY DEF FinishRestore
<1>2. g.pc = "idle" /\ g.open = open /\ g.from = {} /\ g.part = {}
  BY DEF Gone
<1>3. open \in Nat /\ open < nextIds.cases
  BY PageKnown DEF Bounded
<1> HIDE DEF g, open
<1>4. ~Working(g) /\ Bounded(g, nextIds.cases)
  BY <1>2, <1>3 DEF Working, Steps, Bounded
<1>5. recs' = recs /\ bundle' = bundle /\ nextIds' = nextIds /\ Less /\ pages[p].pc = "finish" /\ Locked(pages[p])
  BY NotSpent DEF FinishRestore, Locked
<1>6. /\ Ids' = Ids
      /\ \A i \in Ids : kases'[i].whole = kases[i].whole
      /\ \A i \in Ids : i # c => kases'[i] = kases[i]
  BY DEF FinishRestore, Ids, SessionInv, Shapes, CaseFields
<1>7. ASSUME NEW i \in Ids PROVE CaseKept(p, i)
  <2>1. CASE i = c
    <3>1. kases[i].whole # {} => Entered(recs, kases[i].whole, pages[p].off, c, {})
      BY <1>5, <2>1 DEF RestoreInv, PageFits, PageOwes, Ids
    <3>2. CaseOwes(kases', recs', i)
      BY <1>5, <1>6, <2>1, <3>1 DEF CaseOwes
    <3> QED
      BY <1>5, <1>6, <2>1, <3>2 DEF CaseKept
  <2>2. CASE i # c
    <3>1. Intact(recs, recs', i, kases[i].whole)
      BY <1>5 DEF Intact, InCase
    <3> QED
      BY <1>6, <2>2, <3>1 DEF CaseKept
  <2> QED
    BY <2>1, <2>2
<1>8. Known({}, spent'.writes)
  BY DEF Known
<1>9. PageFits(g, kases', recs', nextIds.cases, spent'.writes)
  BY <1>2, <1>4, <1>8, OwesNothing
<1>10. pages'[p] = g /\ \A q \in Page \ {p} : pages'[q] = pages[q]
  BY <1>1, OwnPage
<1>11. Known(recs', spent'.writes) /\ Known(bundle'.recs, spent'.writes)
  BY <1>5, KnownLater DEF Less, RestoreInv
<1>12. /\ nextIds'.cases \in Nat /\ nextIds.cases <= nextIds'.cases /\ nextIds'.cases = nextIds.cases
       /\ \A r \in recs' : r.case \in Nat /\ r.case < nextIds'.cases
  BY <1>5, PageKnown DEF RestoreInv
<1>13. RestoreKept(p)
  BY <1>5, <1>6, <1>7, <1>9, <1>10, <1>11, <1>12 DEF RestoreKept
<1> QED
  BY <1>13, RestoreStep

\* A record that is written has a text no bundle of this browser holds: no case takes it for one of its bundle's.
LEMMA WriteRestores == ASSUME SessionInv, RestoreInv, NEW p \in Page, Write(p) PROVE RestoreInv'
<1> DEFINE c == pages[p].open
<1>1. PICK r : /\ DOMAIN r = RecordFields /\ r.case \in {0, c} /\ r.t \in Tables
               /\ r.text = spent.writes /\ recs' = recs \cup {r}
               /\ nextIds' = nextIds \/ \E t, n : t # "cases" /\ nextIds' = [nextIds EXCEPT ![t] = n]
  BY WrittenRecord
<1>2. kases' = kases /\ bundle' = bundle /\ pages' = pages /\ Less
  BY Spent DEF Write
<1>3. spent.writes \in Nat /\ spent.writes > 0 /\ spent'.writes = spent.writes - 1
  BY DEF Write, Spend, RestoreInv
<1>4. nextIds'.cases = nextIds.cases /\ nextIds.cases \in Nat \ {0} /\ nextIds'.cases \in Nat
      /\ nextIds.cases <= nextIds'.cases
  BY <1>1, PageKnown DEF SessionInv, Shapes
<1>5. \A x \in recs' : x.case \in Nat /\ x.case < nextIds'.cases
  BY <1>1, <1>4, PageKnown DEF RestoreInv, Bounded
<1>6. Known(recs', spent'.writes) /\ Known(bundle'.recs, spent'.writes)
  <2>1. Known(recs, spent'.writes) /\ Known(bundle'.recs, spent'.writes)
    BY <1>2, KnownLater DEF Less, RestoreInv
  <2>2. r.text \notin 1..spent'.writes
    BY <1>1, <1>3
  <2> QED
    BY <1>1, <2>1, <2>2 DEF Known
<1>7. ASSUME NEW i, NEW from, Known(from, spent.writes) PROVE Intact(recs, recs', i, from)
  <2>1. \A b \in from : b.text # r.text
    BY <1>1, <1>3, <1>7 DEF Known
  <2>2. Mark(r) \notin Marks(from)
    BY <2>1 DEF Marks, Mark
  <2> QED
    BY <1>1, <2>2 DEF Intact, InCase
<1>8. ASSUME NEW i \in Ids PROVE CaseKept(p, i)
  <2>1. Intact(recs, recs', i, kases[i].whole)
    BY <1>7 DEF RestoreInv
  <2>2. CaseOwes(kases', recs', i)
    BY <1>2, <2>1, OwesStill
  <2> QED
    BY <1>2, <2>1, <2>2 DEF CaseKept
<1>9. PageFits(pages'[p], kases', recs', nextIds'.cases, spent'.writes)
  <2> DEFINE g == pages[p]
  <2>1. PageOwes(g, kases, recs) /\ Held(g, kases) /\ Bounded(g, nextIds.cases)
    BY DEF RestoreInv, PageFits
  <2>2. Known(g.from, spent.writes)
    BY PageKnown
  <2>3. \A left : Entered(recs, g.from, g.off, g.c, left) => Entered(recs', g.from, g.off, g.c, left)
    BY <1>7, <2>2, EnteredStays
  <2>4. PageOwes(g, kases, recs')
    BY <2>1, <2>3 DEF PageOwes
  <2>5. Known(g.from, spent'.writes) /\ Known(g.part, spent'.writes)
    BY <1>2, PageKnown, KnownLater DEF Less
  <2>6. Bounded(g, nextIds'.cases)
    BY <1>4, <2>1
  <2> QED
    BY <1>2, <2>1, <2>4, <2>5, <2>6 DEF PageFits
<1>10. Ids' = Ids
  BY <1>2 DEF Ids
<1>11. RestoreKept(p)
  BY <1>2, <1>4, <1>5, <1>6, <1>8, <1>9, <1>10 DEF RestoreKept
<1> QED
  BY <1>11, RestoreStep

-----------------------------------------------------------------------------
(* A restored case is whole *)

\* Ids moved by the offsets of their tables, and keys of the bundle's own findings, keep naming what they named.
LEMMA NamesMove ==
    ASSUME NEW rs, NEW from, NEW off, NEW c, NEW w, Known(from, w), Entered(rs, from, off, c, {}),
           NEW b \in from, b.ref # 0, Resolves(from, b)
    PROVE  Resolves(rs, Remap(from, off, c, b))
<1> DEFINE r == Remap(from, off, c, b)
<1>1. PICK s \in Named(from, b) : s.text = b.means
  BY DEF Resolves
<1>2. s \in from
  BY DEF Named, InCase
<1> DEFINE x == Remap(from, off, c, s)
<1>3. x \in rs /\ x \in InCase(rs, r.case) /\ x.text = s.text /\ x.t = s.t /\ x.rule = s.rule
      /\ r.means = b.means /\ r.t = b.t /\ r.rule = b.rule
  <2>1. DOMAIN s = RecordFields /\ DOMAIN b = RecordFields
    BY <1>2 DEF Known
  <2>2. x \in rs
    BY <1>2 DEF Entered
  <2>3. /\ x.case = c /\ x.text = s.text /\ x.t = s.t /\ x.rule = s.rule
        /\ r.case = c /\ r.means = b.means /\ r.t = b.t /\ r.rule = b.rule
    BY <2>1, RemapIsOfCase
  <2> HIDE DEF x, r
  <2> QED
    BY <2>2, <2>3 DEF InCase
<1>4. CASE b.t = "findings"
  <2>1. s.t = "evidence" /\ s.id = b.ref
    BY <1>1, <1>4 DEF Named
  <2>2. r.ref = b.ref + off["evidence"]
    BY <1>2, <1>4 DEF Remap, MapId, Known, RecordFields
  <2>3. x.id = s.id + off["evidence"]
    BY <1>2, <2>1 DEF Remap, MapId, Known, RecordFields
  <2> HIDE DEF x, r
  <2>4. x \in Named(rs, r)
    BY <1>3, <1>4, <2>1, <2>2, <2>3 DEF Named
  <2> QED
    BY <1>1, <1>3, <2>4 DEF Resolves, r
<1>5. CASE b.t = "kv"
  <2>1. s.t = "findings" /\ s.rule = b.rule /\ s.ref = b.ref
    BY <1>1, <1>5 DEF Named
  <2>2. r.ref = b.ref + off["evidence"]
    <3>1. KeyMap(from, off, b.rule, b.ref) = b.ref + off["evidence"]
      BY <1>2, <2>1 DEF KeyMap, Of, MapId
    <3> QED
      BY <1>2, <1>5, <3>1 DEF Remap, Known, RecordFields
  <2>3. x.ref = s.ref + off["evidence"]
    BY <1>2, <2>1 DEF Remap, MapId, Known, RecordFields
  <2> HIDE DEF x, r
  <2>4. x \in Named(rs, r)
    BY <1>3, <1>5, <2>1, <2>2, <2>3 DEF Named
  <2> QED
    BY <1>1, <1>3, <2>4 DEF Resolves, r
<1>6. CASE b.t \notin {"findings", "kv"}
  BY <1>1, <1>6 DEF Named
<1> QED
  BY <1>4, <1>5, <1>6

\* A finding of a custom rule has it there too.
LEMMA RulesMove ==
    ASSUME NEW rs, NEW from, NEW off, NEW c, NEW w, Known(from, w), Entered(rs, from, off, c, {}),
           NEW b \in from, HasRule(from, b)
    PROVE  HasRule(rs, Remap(from, off, c, b))
<1> DEFINE r == Remap(from, off, c, b)
<1>1. PICK s \in Of(InCase(from, b.case), "customRules") : s.rule = b.rule
  BY DEF HasRule
<1>2. s \in from /\ s.t = "customRules" /\ b.t = "findings"
  BY DEF Of, InCase, HasRule
<1> DEFINE x == Remap(from, off, c, s)
<1>3. DOMAIN s = RecordFields /\ DOMAIN b = RecordFields
  BY <1>2 DEF Known
<1>4. x \in rs
  BY <1>2 DEF Entered
<1>5. /\ x.case = c /\ x.t = s.t /\ x.rule = s.rule
      /\ r.case = c /\ r.t = b.t /\ r.rule = b.rule
  BY <1>3, RemapIsOfCase
<1> HIDE DEF x, r
<1>6. x \in Of(InCase(rs, r.case), "customRules")
  BY <1>2, <1>4, <1>5 DEF Of, InCase
<1> QED
  BY <1>1, <1>2, <1>5, <1>6 DEF HasRule, r

\* A case that holds the records of its bundle is whole.
LEMMA EnteredIsWhole ==
    ASSUME NEW rs, NEW from, NEW off, NEW c, NEW w, Known(from, w), Entered(rs, from, off, c, {})
    PROVE  Whole(rs, from, c)
<1>1. ASSUME NEW b \in from
      PROVE  LET r == Remap(from, off, c, b) IN r \in InCase(rs, c) /\ Mark(r) = Mark(b)
  <2>1. Remap(from, off, c, b) \in rs
    BY DEF Entered
  <2>2. Remap(from, off, c, b).case = c /\ Mark(Remap(from, off, c, b)) = Mark(b)
    BY RemapIsOfCase DEF Known, Mark
  <2> QED
    BY <2>1, <2>2 DEF InCase
<1>2. Marks(from) \subseteq Marks(InCase(rs, c))
  BY <1>1 DEF Marks
<1>3. ASSUME NEW r \in InCase(rs, c), Mark(r) \in Marks(from)
      PROVE  \E b \in from : /\ Mark(b) = Mark(r)
                             /\ (b.ref # 0 /\ Resolves(from, b) => Resolves(rs, r))
                             /\ (HasRule(from, b) => HasRule(rs, r))
  <2>1. PICK b \in from : r = Remap(from, off, c, b)
    BY <1>3 DEF Entered
  <2>2. Mark(b) = Mark(r)
    BY <1>1, <2>1
  <2>3. b.ref # 0 /\ Resolves(from, b) => Resolves(rs, r)
    BY <2>1, NamesMove
  <2>4. HasRule(from, b) => HasRule(rs, r)
    BY <2>1, RulesMove
  <2> QED
    BY <2>2, <2>3, <2>4
<1> QED
  BY <1>2, <1>3 DEF Whole

\* A browser starts with no restored case.
LEMMA RestoreStarts == SessionInit => RestoreInv
<1> SUFFICES ASSUME SessionInit PROVE RestoreInv
  OBVIOUS
<1>1. /\ pages = [p \in Page |-> Gone] /\ (FreshBrowser \/ EmptiedDemo)
      /\ spent = [uses |-> MaxUses, writes |-> MaxWrites, ends |-> MaxEnds, failures |-> MaxFailures]
  BY DEF SessionInit
<1>2. spent.writes \in Nat /\ spent.writes = MaxWrites /\ DOMAIN spent = {"uses", "writes", "ends", "failures"}
  BY <1>1, CaseSessionAssumption
<1>3. Known(Demo, spent.writes) /\ Known({}, spent.writes) /\ \A r \in Demo : r.case = 1
  BY <1>2, CaseSessionAssumption DEF Known
<1>4. Known(recs, spent.writes) /\ Known(bundle.recs, spent.writes)
  BY <1>1, <1>3 DEF FreshBrowser, EmptiedDemo, NoBundle, Known, Of
<1>5. /\ nextIds.cases \in Nat \ {0} /\ \A r \in recs : r.case \in Nat /\ r.case < nextIds.cases
      /\ \A c \in Ids : kases[c].whole = {}
  <2>1. CASE FreshBrowser
    BY <2>1 DEF FreshBrowser, Ids
  <2>2. CASE EmptiedDemo
    <3>1. Ids = {1} /\ kases[1] = NewCase("demo") /\ nextIds.cases = 2
      BY <2>2 DEF EmptiedDemo, Ids
    <3>2. \A r \in recs : r.case = 1
      BY <2>2, <1>3 DEF EmptiedDemo, Of
    <3> QED
      BY <3>1, <3>2 DEF NewCase
  <2> QED
    BY <1>1, <2>1, <2>2
<1>6. \A p \in Page : PageFits(pages[p], kases, recs, nextIds.cases, spent.writes)
  <2>1. ~Working(Gone) /\ Bounded(Gone, nextIds.cases) /\ Gone.from = {} /\ Gone.part = {}
    BY <1>5 DEF Gone, Working, Steps, Bounded
  <2> HIDE DEF Gone
  <2>2. PageFits(Gone, kases, recs, nextIds.cases, spent.writes)
    BY <1>3, <2>1, OwesNothing
  <2> QED
    BY <1>1, <2>2
<1> QED
  BY <1>2, <1>3, <1>4, <1>5, <1>6 DEF RestoreInv, CaseOwes

\* Every step keeps the invariant.
LEMMA RestoreKeeps == SessionInv /\ RestoreInv /\ [SessionNext]_caseTabs => RestoreInv'
<1> SUFFICES ASSUME SessionInv, RestoreInv, [SessionNext]_caseTabs PROVE RestoreInv'
  OBVIOUS
<1>1. CASE UNCHANGED caseTabs
  BY <1>1 DEF caseTabs, RestoreInv, Ids
<1>2. CASE SessionNext
  <2>1. PICK p \in Page :
        \/ Boot(p) \/ Sweep(p) \/ DefaultCase(p) \/ OpenLast(p) \/ Close(p)
        \/ SwitchTo(p) \/ StartRead(p) \/ StartWrite(p)
        \/ Destroy(p) \/ DeleteStep(p) \/ DeleteEnd(p) \/ ShowNext(p) \/ FreshCase(p) \/ Wipe(p)
        \/ ExportRows(p) \/ ExportRest(p) \/ ImportBundle(p) \/ OpenDemo(p) \/ FetchDemo(p)
        \/ Fill(p) \/ FillFails(p) \/ FinishRestore(p)
        \/ Write(p)
    BY <1>2 DEF SessionNext
  <2> QED
    BY <2>1, BootRestores, SweepRestores, DefaultCaseRestores, OpenLastRestores, CloseRestores, SwitchToRestores,
       StartReadRestores, StartWriteRestores, DestroyRestores, DeleteStepRestores, DeleteEndRestores,
       ShowNextRestores, FreshCaseRestores, WipeRestores, ExportRowsRestores, ExportRestRestores,
       ImportBundleRestores, OpenDemoRestores, FetchDemoRestores, FillRestores, FillFailsRestores, FinishRestores,
       WriteRestores
<1> QED
  BY <1>1, <1>2

\* The invariant of what a restore has entered and a restored case holds (restoreRecords, deleteCase).
THEOREM RestoreInvariant == SessionSpec => []RestoreInv
BY SessionInvariant, RestoreStarts, RestoreKeeps, PTL DEF SessionSpec

\* A case that is no longer restoring has every record of the bundle it came from, and each of them names what it
\* named there: ids are moved by offsets read once, while other tabs write, delete and restore (caseBundle.ts).
THEOREM RestoresWhole == SessionSpec => []RestoredIsWhole
<1>1. RestoreInv => RestoredIsWhole
  <2>1. SUFFICES ASSUME RestoreInv, NEW c \in Ids \ Restoring, kases[c].whole # {}
                 PROVE  Whole(recs, kases[c].whole, c)
    BY DEF RestoredIsWhole
  <2>2. Known(kases[c].whole, spent.writes) /\ CaseOwes(kases, recs, c) /\ ~kases[c].restoring
    BY <2>1 DEF RestoreInv, Restoring
  <2>3. PICK off : Entered(recs, kases[c].whole, off, c, {})
    BY <2>1, <2>2 DEF CaseOwes
  <2> QED
    BY <2>2, <2>3, EnteredIsWhole
<1> QED
  BY <1>1, RestoreInvariant, PTL
=============================================================================
