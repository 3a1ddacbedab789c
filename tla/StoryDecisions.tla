--------------------------- MODULE StoryDecisions ---------------------------
(***************************************************************************)
(* The stories of a case and what the analyst decides on them              *)
(* (data/storyDecisions.ts, data/stories.ts, views/StoriesView.tsx,        *)
(* views/StoryDecisions.tsx).  The engine, at the server, builds stories   *)
(* out of the findings; the page keeps the last build with what it read,   *)
(* and lays over every build the decisions of the analyst: a call on a     *)
(* story or on a step, records taken out, a merge, a split.  A build       *)
(* renames stories and regroups their steps, so a decision is found again  *)
(* by an anchor: what its story is about and the findings on its steps.    *)
(*                                                                         *)
(* Several tabs may show the same case: the decisions, the notes and the   *)
(* snapshot are in the browser's database, each tab works on copies.       *)
(***************************************************************************)
EXTENDS Integers, FiniteSets, SequencesExt

CONSTANTS
    Tabs,         \* the tabs open on the case
    Worlds,       \* 0 .. n: what the case holds, one more after each import
    Engines,      \* the cases tried, each [Worlds -> sequence of stories]: what the engine reads in it
    SevOf,        \* [finding key -> 0 .. 5]: the weight of its severity
    Verdicts,     \* the calls on a story tried
    StepVerdicts, \* the calls on a step tried
    StepRows,     \* STEP_ROWS: the records a step call holds on to
    Reach,        \* NOTE_REACH, in days
    MaxPrinted,   \* the stories a report prints at most
    Links,        \* the stories other pages link to
    Cheap,        \* whether an out-of-date snapshot is built again unasked (AUTO_REBUILD_ROWS)
    MaxChanges,   \* bound: the decisions and notes written
    MaxBuilds     \* bound: the builds of all tabs

ASSUME WorldsAssumption == Worlds = 0 .. Cardinality(Worlds) - 1
ASSUME WeightsAssumption == \A k \in DOMAIN SevOf : SevOf[k] \in 0 .. 5
ASSUME EnginesAssumption == \A e \in Engines : DOMAIN e = Worlds

VARIABLES
    engine,    \* the case: fixed
    world,     \* the evidence and findings of the case now
    falsePos,  \* the findings marked false positive
    snapshot,  \* stories-<case>: the last build and what it read, or None
    decisions, \* story-decisions-<case>: entries by key
    notes,     \* story-notes-<case>: notes by key
    pages,      \* [Tabs -> what the tab shows]
    builds,    \* [Tabs -> the build the tab waits for, or None]
    clock      \* how many writes so far: decidedAt and updatedAt

storyVars == <<engine, world, falsePos, snapshot, decisions, notes, pages, builds, clock>>

None == [none |-> TRUE]
NoId == <<>>          \* a story's id is <<name, 1>>, its second part's <<name, 2>>
Open == "open"
dismissed(verdict) == verdict \in {"benign", "false_positive"}
needsReason(verdict) == verdict = "confirmed" \/ dismissed(verdict)

-----------------------------------------------------------------------------
(* Stories and anchors *)

keysIn(some) == UNION {st.findings : st \in some}
keysOf(steps) == keysIn(Range(steps))
refsOf(steps) == UNION {ToSet(steps[i].refs) : i \in DOMAIN steps}
IdsOf(steps) == {steps[i].id : i \in DOMAIN steps}
LastOf(s) == Max({s.start} \cup {s.steps[i].ts : i \in DOMAIN s.steps})

storyAnchor(s) == [kind |-> s.kind, subject |-> s.forms, findings |-> keysOf(s.steps), start |-> s.start]

near(t, s) == t >= s.start - Reach /\ t <= LastOf(s) + Reach

\* a fit is counted in sixtieths, exact for the shares of up to six forms or findings
ONE == 60
Lesser(a, b) == IF a < b THEN a ELSE b
FormValues(forms) == {f[2] : f \in forms}

\* A bare account name, which a namesake elsewhere shares, carries nothing over by itself.
Fit(a, now, shared, common, close) ==
    IF \/ a.kind # now.kind
       \/ shared = {}
       \/ (\E g \in a.subject : g[1] # "name") /\ \A f \in shared : \A g \in a.subject : g[2] = f[2] => g[1] = "name"
       \/ common = {} /\ ~close
    THEN 0
    ELSE ONE + (ONE * Cardinality(shared)) \div Lesser(Cardinality(FormValues(a.subject)), Cardinality(now.subject))
         + IF common = {} THEN 0
           ELSE (ONE * Cardinality(common)) \div Lesser(Cardinality(a.findings), Cardinality(now.findings))
anchorFit(a, s) ==
    LET To(now) == Fit(a, now, {f \in now.subject : f[2] \in FormValues(a.subject)}, now.findings \cap a.findings,
                       near(a.start, s))
    IN  To(storyAnchor(s))

Abs(n) == IF n < 0 THEN -n ELSE n

\* Each entry to one story and each story to one entry, the best fits first: [story id -> key].
Higher(a, b) ==
    \/ a[1] > b[1]
    \/ a[1] = b[1] /\ a[2] < b[2]
    \/ a[1] = b[1] /\ a[2] = b[2] /\ a[3] > b[3]
Place(stories, got, p) ==
    IF stories[p[2]].id \in DOMAIN got \/ \E s \in DOMAIN got : got[s] = p[1]
    THEN got ELSE got @@ (stories[p[2]].id :> p[1])
InOrder(stories, rank) ==
    LET Before(p, q) == Higher(rank[p], rank[q]) \/ (rank[p] = rank[q] /\ p[2] < q[2])
        Take(got, p) == Place(stories, got, p)
    IN  FoldLeft(Take, <<>>, SetToSortSeq({p \in DOMAIN rank : rank[p][1] > 0}, Before))
Placed(stories, all, Score(_, _)) ==
    InOrder(stories, [p \in (DOMAIN all) \X (DOMAIN stories) |->
        <<Score(p[1], stories[p[2]]), Abs(stories[p[2]].start - all[p[1]].anchor.start), all[p[1]].updatedAt>>])

\* The story that kept its id, else the one that fits.
resolveStoryDecisions(stories, all) ==
    Placed(stories, all, LAMBDA k, s : IF s.id = k THEN 100 * ONE ELSE anchorFit(all[k].anchor, s))

resolveStoryNotes(stories, all) == Placed(stories, all, LAMBDA k, s : anchorFit(all[k].anchor, s))

Orphans(placed, all) == DOMAIN all \ Range(placed)

\* The story an anchor fits best, the nearest in time on a tie; 0 when none does.
Nearest(rank) ==
    LET fits == {i \in DOMAIN rank : rank[i][1] > 0}
    IN  IF fits = {} THEN 0
        ELSE CHOOSE i \in fits : \A j \in fits \ {i} : Higher(rank[i], rank[j]) \/ (rank[i] = rank[j] /\ i < j)
bestFit(anchor, stories, among) ==
    Nearest([i \in among |-> <<anchorFit(anchor, stories[i]), Abs(stories[i].start - anchor.start), 0>>])

IndexOf(stories, id) == CHOOSE i \in DOMAIN stories : stories[i].id = id
HasStory(stories, id) == \E i \in DOMAIN stories : stories[i].id = id

\* The story an earlier one became; 0 when none.
findStory(was, stories) ==
    IF HasStory(stories, was.id) THEN IndexOf(stories, was.id)
    ELSE bestFit(storyAnchor(was), stories, DOMAIN stories)

-----------------------------------------------------------------------------
(* A build under the decisions: applyStoryDecisions *)

StepHolding(steps, ref) == {i \in DOMAIN steps : ref \in ToSet(steps[i].refs)}

\* Where a call belongs: the step of its first record, else the one of most of them; 0 when lost.
Voted(steps, held) ==
    LET voted == {i \in DOMAIN held : held[i] > 0}
    IN  IF voted = {} THEN 0
        ELSE steps[CHOOSE i \in voted : \A j \in voted : held[i] > held[j] \/ (held[i] = held[j] /\ i <= j)].id
Holders(steps, call) == [n \in DOMAIN call.rows |-> Min(StepHolding(steps, call.rows[n]) \cup {Len(steps) + 1})]
StepOfCall(steps, call) ==
    LET Of(holder) == IF holder[1] <= Len(steps) THEN steps[holder[1]].id
                      ELSE Voted(steps, [i \in DOMAIN steps |-> Cardinality({n \in DOMAIN holder : holder[n] = i})])
    IN  Of(Holders(steps, call))

\* The latest call on each step, and the calls whose step is gone.
LatestOn(calls, at, id) ==
    calls[CHOOSE i \in DOMAIN calls : at[i] = id /\ \A j \in DOMAIN calls :
            at[j] = id => calls[j].decidedAt <= calls[i].decidedAt]
matchStepCalls(steps, calls) ==
    LET Of(at) == [calls |-> [id \in Range(at) \ {0} |-> LatestOn(calls, at, id)],
                   lost |-> {calls[i] : i \in {j \in DOMAIN calls : at[j] = 0}}]
    IN  Of([i \in DOMAIN calls |-> StepOfCall(steps, calls[i])])

\* The steps left once the records taken out are gone.
Left(steps, out) ==
    LET Without(gone) == [i \in DOMAIN steps |->
                            [steps[i] EXCEPT !.refs = SelectSeq(@, LAMBDA r : r \notin gone)]]
    IN  SelectSeq(Without(UNION {ToSet(out[i].rows) : i \in DOMAIN out}), LAMBDA st : st.refs # <<>>)

NoEntry == [anchor |-> None, updatedAt |-> 0, call |-> None, steps |-> <<>>, out |-> <<>>,
            split |-> None, merge |-> None]
Prepared(source, entry, steps, match) ==
    [story |-> source.story, key |-> source.key, entry |-> entry, steps |-> steps, calls |-> match.calls,
     source |-> source, lost |-> {[call |-> c, source |-> source] : c \in match.lost},
     out |-> [i \in DOMAIN entry.out |-> [out |-> entry.out[i], source |-> source]]]
Prep(s, placed, all) ==
    LET WithSteps(source, entry, steps) == Prepared(source, entry, steps, matchStepCalls(steps, entry.steps))
        WithEntry(key, entry) == WithSteps([story |-> s, key |-> key], entry, Left(s.steps, entry.out))
    IN  IF s.id \in DOMAIN placed THEN WithEntry(placed[s.id], all[placed[s.id]]) ELSE WithEntry(NoId, NoEntry)

\* Where each story is read: itself, or the last story its merges lead to; a loop merges nothing.
\* faulty: follows a fixed number of merges and stops, loop or not
Root_Faulty(into, i) ==
    LET next(k) == IF into[k] = 0 THEN k ELSE into[k] IN next(next(next(i)))
Root(into, i) ==
    LET hop[n \in 0 .. Len(into)] == CASE n = 0 -> i
                                       [] n > 0 -> IF hop[n - 1] = 0 THEN 0 ELSE into[hop[n - 1]]
        ends == {n \in 0 .. Len(into) - 1 : hop[n] # 0 /\ hop[n + 1] = 0}
    IN  IF ends = {} THEN i ELSE hop[Min(ends)]

InTime(a, b) == a.ts < b.ts \/ (a.ts = b.ts /\ a.id < b.id)

\* The steps of merged stories as one, a step two of them hold once.
InOne(steps, more) ==
    LET both == FoldLeft(LAMBDA got, st : IF st.id \in IdsOf(got) THEN got ELSE Append(got, st), steps, more)
    IN  SortSeq(both, InTime)

\* Three techniques matched one to one to three phases.
\* faulty: a technique takes the first free phase and never moves for another one
threeInThree_Faulty(firm) ==
    LET phases(t, taken) == {f.phase : f \in {g \in firm : g.tech = t}} \ taken
        Assign(taken, t) == IF phases(t, taken) = {} THEN taken ELSE taken \cup {Min(phases(t, taken))}
    IN  Cardinality(FoldLeft(Assign, {}, SetToSortSeq({f.tech : f \in firm}, <))) >= 3
threeInThree(firm) ==
    \E three \in [1 .. 3 -> firm] : \A i, j \in 1 .. 3 :
        i # j => three[i].tech # three[j].tech /\ three[i].phase # three[j].phase

weight(k) == IF k \in DOMAIN SevOf THEN SevOf[k] ELSE 0
TopOf(kept) == Max({0} \cup {weight(k) : k \in keysIn(kept)})

\* The phases of the steps and the worst finding of each, 0 with none.
phasesOf(kept) == [p \in {st.phase : st \in kept} \ {0} |-> TopOf({st \in kept : st.phase = p})]

\* A story as the page shows it: severity, findings and confidence out of the steps not disputed.
Called(st, calls, verdict) == st.id \in DOMAIN calls /\ calls[st.id].verdict = verdict
Raises(all, kept, phases) ==
    IF \A a \in all : a.firmKnown THEN threeInThree({f \in UNION {a.firm : a \in all} : \E st \in kept : st.id = f.step})
    ELSE \E p, q, r \in DOMAIN phases : p # q /\ q # r /\ p # r /\ \A x \in {p, q, r} : phases[x] >= 2
Severity(top, raises) == IF top < 4 /\ raises THEN 4 ELSE top
Undisputed(steps, calls) == {st \in Range(steps) : ~Called(st, calls, "disputed")}
severityOf(steps, calls, all) ==
    LET Of(kept) == Severity(TopOf(kept), Raises(all, kept, phasesOf(kept))) IN Of(Undisputed(steps, calls))
strongWith(kept, calls) == \A st \in kept : st.flag => st.strong \/ Called(st, calls, "confirmed")
restate(s, steps, calls, merged, id) ==
    LET Of(kept) ==
            [s EXCEPT !.id = id,
                      !.steps = steps,
                      !.severity = severityOf(steps, calls, {s} \cup merged),
                      !.strong = strongWith(kept, calls),
                      !.findings = keysIn(kept),
                      !.start = Min({steps[i].ts : i \in DOMAIN steps} \cup (IF steps = <<>> THEN {s.start} ELSE {})),
                      !.score = Max({a.score : a \in {s} \cup merged})]
    IN  Of(Undisputed(steps, calls))

splitId(id) == <<id[1], 2>>
Ids(view) == {view.shown.id} \cup (IF view.part = "story" THEN {m.story.id : m \in view.merged} ELSE {})

\* One view: restated when the decisions change its steps, else the story as it is built.
Shown(p, merged, part, mine, changed, id) ==
    CASE changed -> restate(p.story, part, mine, {m.story : m \in Range(merged)}, id)
      [] ~changed /\ mine = <<>> -> p.story
      [] OTHER -> [p.story EXCEPT !.strong = strongWith(Undisputed(part, mine), mine)]
View(p, merged, part, mine, applied, id, name) ==
    [base |-> p.story, key |-> p.key, entry |-> p.entry, part |-> name, applied |-> applied, steps |-> mine,
     shown |-> Shown(p, merged, part, mine,
                     \/ merged # <<>> \/ applied \/ p.entry.out # <<>>
                     \/ \E step \in DOMAIN mine : mine[step].verdict = "disputed", id),
     split |-> p.entry.split, call |-> p.entry.call, sources |-> <<p.source>> \o [i \in DOMAIN merged |-> merged[i].source],
     lostSteps |-> {}, out |-> <<>>, merged |-> {}, mergeLost |-> FALSE]
CallsOn(part, calls) == [id \in DOMAIN calls \cap IdsOf(part) |-> calls[id]]
Whole(p, merged, lostMerge, part, mine, applied) ==
    [View(p, merged, part, mine, applied, p.story.id, "story") EXCEPT
        !.lostSteps = p.lost \cup UNION {m.lost : m \in Range(merged)},
        !.out = p.out \o FlattenSeq([i \in DOMAIN merged |-> merged[i].out]),
        !.merged = {[story |-> m.story, key |-> m.key, merge |-> m.entry.merge] : m \in Range(merged)},
        !.mergeLost = lostMerge]
SecondPart(p, merged, part, mine) ==
    [View(p, merged, part, mine, TRUE, splitId(p.story.id), "split") EXCEPT !.call = p.entry.split.call]

\* The views of one story that is read on its own: one, or the two parts of a split.
Parts(p, merged, lostMerge, steps, calls, at) ==
    LET First(part, applied) == Whole(p, merged, lostMerge, part, CallsOn(part, calls), applied)
        Second(part) == SecondPart(p, merged, part, CallsOn(part, calls))
    IN  IF at > 1 /\ at <= Len(steps)
        THEN <<First(SubSeq(steps, 1, at - 1), TRUE), Second(SubSeq(steps, at, Len(steps)))>>
        ELSE <<First(steps, FALSE)>>

\* The calls of the stories merged in come after, and win on a step both hold.
PartsOf(p, merged, lostMerge) ==
    LET Of(steps) ==
            Parts(p, merged, lostMerge, steps, FoldLeft(LAMBDA got, m : m.calls @@ got, p.calls, merged),
                  IF p.entry.split = None THEN 0 ELSE Min(StepHolding(steps, p.entry.split.from) \cup {Len(steps) + 1}))
    IN  Of(IF merged = <<>> THEN p.steps ELSE InOne(p.steps, FlattenSeq([i \in DOMAIN merged |-> merged[i].steps])))

MergedInto(stories, merge, i) == IF merge = None THEN 0 ELSE bestFit(merge.into, stories, DOMAIN stories \ {i})
Members(prep, root, i) ==
    LET Of(others) == [n \in DOMAIN others |-> prep[others[n]]]
    IN  Of(SelectSeq([j \in DOMAIN prep |-> j], LAMBDA j : j # i /\ root[j] = i))
Laid(prep, into, root) ==
    FlattenSeq([i \in DOMAIN prep |->
        IF root[i] = i THEN PartsOf(prep[i], Members(prep, root, i), prep[i].entry.merge # None /\ into[i] = 0)
        ELSE <<>>])
Rooted(prep, into) == Laid(prep, into, [i \in DOMAIN into |-> Root(into, i)])
Merged(stories, prep) ==
    Rooted(prep, [i \in DOMAIN stories |-> MergedInto(stories, prep[i].entry.merge, i)])
PrepAll(stories, placed, all) == [i \in DOMAIN stories |-> Prep(stories[i], placed, all)]
applyStoryDecisions(stories, all) ==
    Merged(stories, PrepAll(stories, resolveStoryDecisions(stories, all), all))

\* The view of a story by its id or the id of one merged into it, or None.
ById(views, id) ==
    IF \E i \in DOMAIN views : id \in Ids(views[i])
    THEN views[CHOOSE i \in DOMAIN views : id \in Ids(views[i])] ELSE None

isDismissed(v) == v.call # None /\ dismissed(v.call.verdict)

\* Whether a story may be merged into another.
mergeCheck(v, target) ==
    /\ v.base.id # target.base.id
    /\ v.part = "story" /\ target.part = "story"
    /\ v.split = None
    /\ ~isDismissed(target)

-----------------------------------------------------------------------------
(* The changes of an entry *)

isEmpty(d) == d.call = None /\ d.steps = <<>> /\ d.out = <<>> /\ d.split = None /\ d.merge = None

now == clock + 1

\* Open with no reason clears the call; the second part of a split has its own.
setCall(d, part, verdict, why) ==
    LET call == IF verdict = Open /\ ~why THEN None ELSE [verdict |-> verdict, why |-> why, decidedAt |-> now]
    IN  CASE part = "story" -> [d EXCEPT !.call = call]
          [] part = "split" /\ d.split # None -> [d EXCEPT !.split.call = call]
          [] OTHER -> d

FirstOf(refs, n) == SubSeq(refs, 1, Lesser(n, Len(refs)))

\* One call per step, the latest; "" takes the analyst's call back.
setStepCall(d, st, verdict) ==
    LET others == SelectSeq(d.steps, LAMBDA c : ToSet(c.rows) \cap ToSet(st.refs) = {})
        call == [verdict |-> verdict, rows |-> FirstOf(st.refs, StepRows), decidedAt |-> now]
    IN  [d EXCEPT !.steps = IF verdict = "" THEN others ELSE Append(others, call)]

dropStepCall(d, call) == [d EXCEPT !.steps = SelectSeq(@, LAMBDA c : c # call)]
takeOut(d, st) == [d EXCEPT !.out = Append(@, [rows |-> st.refs, decidedAt |-> now])]
putBack(d, out) == [d EXCEPT !.out = SelectSeq(@, LAMBDA o : o # out)]
splitAt(d, st) == [d EXCEPT !.split = [from |-> st.refs[1], decidedAt |-> now, call |-> None]]
mergeInto(d, into) == [d EXCEPT !.merge = [into |-> into, decidedAt |-> now]]

With(all, key, d) == (key :> d) @@ all
Dropped(all, key) == [k \in DOMAIN all \ {key} |-> all[k]]

\* The entry a story is decided in: the one it is decided under, or a new one under its id.
\* faulty: always under the story's id
EntryOf_Faulty(all, source) == source.story.id
EntryOf(all, source) == IF source.key \in DOMAIN all THEN source.key ELSE source.story.id

\* The entry changes, and holds on to the story as it reads now; an empty one goes.
decideStory(all, source, Change(_)) ==
    LET key == EntryOf(all, source)
        cur == IF key \in DOMAIN all THEN all[key] ELSE NoEntry
        next == Change([cur EXCEPT !.anchor = storyAnchor(source.story), !.updatedAt = now])
    IN  IF isEmpty(next) THEN Dropped(all, key) ELSE With(all, key, next)

\* A decision whose story is gone, put on another: what that story's own decision holds comes first.
attachStoryDecision(all, orphan, source) ==
    LET moved == all[orphan]
        owned == source.key # orphan /\ source.key \in DOMAIN all
        key == IF owned THEN source.key ELSE orphan
        into == IF owned THEN all[key] ELSE NoEntry
        First(a, b) == IF a # None THEN a ELSE b
        both == [anchor |-> storyAnchor(source.story), updatedAt |-> now,
                 call |-> First(into.call, moved.call), steps |-> moved.steps \o into.steps,
                 out |-> into.out \o moved.out, split |-> First(into.split, moved.split),
                 merge |-> First(into.merge, moved.merge)]
    IN  IF orphan \notin DOMAIN all THEN all
        ELSE With(IF key = orphan THEN all ELSE Dropped(all, orphan), key, both)

-----------------------------------------------------------------------------
(* Builds *)

FlagsIn(w) == UNION {keysOf(engine[w][i].steps) : i \in DOMAIN engine[w]}
storyInputs == [findings |-> FlagsIn(world) \ falsePos, evidence |-> world]

\* A snapshot that no longer reads the case as it is.
storiesStaleness(res) == res.inputs # storyInputs

\* What the engine makes of the rows it reads with the findings it was given (external).
BuiltFrom(stories, findings) ==
    LET Read(st) == [st EXCEPT !.findings = @ \cap findings]
        story(s) == LET steps == [i \in DOMAIN s.steps |-> Read(s.steps[i])]
                    IN  restate([s EXCEPT !.firm = {f \in @ : f.key \in findings}], steps, <<>>, {}, s.id)
    IN  SelectSeq([i \in DOMAIN stories |-> story(stories[i])], LAMBDA s : s.findings # {})
Built(rows, findings) == BuiltFrom(engine[rows], findings)

NotStarted == [stage |-> "none"]
Done == [stage |-> "done"]

NoPage == [res |-> None, mine |-> <<>>, noted |-> <<>>, open |-> NoId, busy |-> FALSE]

Views(t) == applyStoryDecisions(IF pages[t].res = None THEN <<>> ELSE pages[t].res.stories, pages[t].mine)
Show(t, changes) == pages' = [pages EXCEPT ![t] = changes @@ @]
FirstView(views) == IF views = <<>> THEN NoId ELSE views[1].shown.id

\* The build reads its inputs, and asks for rows; another waits for its end (the button is disabled).
Begin(t, follow) ==
    \E n \in DOMAIN builds :
        /\ builds[n] = NotStarted /\ \A m \in 1 .. n - 1 : builds[m] # NotStarted
        /\ builds' = [builds EXCEPT ![n] = [stage |-> "asked", by |-> {t}, inputs |-> storyInputs, follow |-> follow]]

\* What stays open once a build is back: the story a link asked for, or what the open one became.
ShownId(view) == IF view = None THEN NoId ELSE view.shown.id
SecondOf(views, view) == IF view = None THEN None ELSE ById(views, splitId(view.base.id))
OrFirst(follow, second, view) == IF follow.second /\ second # None THEN second ELSE view
Became(follow, views, view) == ShownId(OrFirst(follow, SecondOf(views, view), view))
BecameAt(follow, stories, views, i) == Became(follow, views, IF i = 0 THEN None ELSE ById(views, stories[i].id))
Followed(follow, stories, views) ==
    CASE follow.kind = "none" -> FirstView(views)
      [] follow.kind = "link" -> ShownId(ById(views, follow.link))
      [] follow.kind = "story" -> BecameAt(follow, stories, views, findStory(follow.story, stories))

FollowNone == [kind |-> "none", story |-> None, second |-> FALSE, link |-> NoId]
FollowLink(link) == [FollowNone EXCEPT !.kind = "link", !.link = link]
FollowStory(view) == [FollowNone EXCEPT !.kind = "story", !.story = view.shown, !.second = view.part = "split"]

Idle(t) == ~pages[t].busy

\* The page opens: the snapshot, the decisions and the notes are read, a link followed, and a case
\* with findings and no snapshot, or a cheap one out of date, is built at once.
LinkedId(views, link) == IF link = NoId THEN FirstView(views) ELSE ShownId(ById(views, link))
FollowOf(view, link) == IF view # None THEN FollowStory(view) ELSE IF link # NoId THEN FollowLink(link) ELSE FollowNone
LoadAt(t, link, views, open, build) ==
    /\ Show(t, [res |-> snapshot, mine |-> decisions, noted |-> notes, open |-> open, busy |-> build])
    /\ IF build THEN Begin(t, IF snapshot = None THEN FollowNone ELSE FollowOf(ById(views, open), link))
       ELSE UNCHANGED builds
    /\ UNCHANGED <<engine, world, falsePos, snapshot, decisions, notes, clock>>
Load(t, link) ==
    /\ pages[t] = NoPage
    /\ \E views \in {applyStoryDecisions(IF snapshot = None THEN <<>> ELSE snapshot.stories, decisions)} :
        LoadAt(t, link, views, LinkedId(views, link),
               /\ IF snapshot = None THEN FlagsIn(world) # {} ELSE Cheap /\ storiesStaleness(snapshot)
               /\ \E n \in DOMAIN builds : builds[n] = NotStarted)

\* The page is left; a build it asked for goes on and is kept.
Leave(t) ==
    /\ pages[t] # NoPage
    /\ pages' = [pages EXCEPT ![t] = NoPage]
    /\ builds' = [n \in DOMAIN builds |->
                    IF builds[n].stage \in {"asked", "read"} /\ builds[n].by = {t}
                    THEN [builds[n] EXCEPT !.by = {}] ELSE builds[n]]
    /\ UNCHANGED <<engine, world, falsePos, snapshot, decisions, notes, clock>>

Rebuild(t, open) ==
    /\ Idle(t)
    /\ Begin(t, IF open = None THEN FollowNone ELSE FollowStory(open))
    /\ Show(t, [busy |-> TRUE])
    /\ UNCHANGED <<engine, world, falsePos, snapshot, decisions, notes, clock>>

\* The rows are read, or the server reads them, after the inputs.
ReadRows(n) ==
    /\ builds[n].stage = "asked"
    /\ builds' = [builds EXCEPT ![n] = [stage |-> "read", by |-> @.by, inputs |-> @.inputs, follow |-> @.follow,
                                               stories |-> Built(world, @.inputs.findings)]]
    /\ UNCHANGED <<engine, world, falsePos, snapshot, decisions, notes, pages, clock>>

\* What a build keeps: the stories, with what was read before they were built.
\* faulty: with what the case holds once they are built
Snapshot_Faulty(b) == [stories |-> b.stories, inputs |-> storyInputs]
Snapshot(b) == [stories |-> b.stories, inputs |-> b.inputs]

\* The build is back: kept, shown with the decisions the page holds by now, and what was open followed.
buildStories(n) ==
    /\ builds[n].stage = "read"
    /\ snapshot' = Snapshot(builds[n])
    /\ LET After(t, views) == [res |-> Snapshot(builds[n]), busy |-> FALSE,
                               open |-> Followed(builds[n].follow, builds[n].stories, views)] @@ pages[t]
       IN  pages' = [t \in Tabs |-> IF t \in builds[n].by
                                   THEN After(t, applyStoryDecisions(builds[n].stories, pages[t].mine)) ELSE pages[t]]
    /\ builds' = [builds EXCEPT ![n] = Done]
    /\ UNCHANGED <<engine, world, falsePos, decisions, notes, clock>>

\* The server refuses or cannot be reached.
BuildFails(n) ==
    /\ builds[n].stage = "read"
    /\ pages' = [t \in Tabs |-> IF t \in builds[n].by THEN [pages[t] EXCEPT !.busy = FALSE] ELSE pages[t]]
    /\ builds' = [builds EXCEPT ![n] = Done]
    /\ UNCHANGED <<engine, world, falsePos, snapshot, decisions, notes, clock>>

\* Evidence comes in, with the findings of the rules over it.
Import ==
    /\ world + 1 \in Worlds
    /\ world' = world + 1
    /\ UNCHANGED <<engine, falsePos, snapshot, decisions, notes, pages, builds, clock>>

-----------------------------------------------------------------------------
(* The analyst's clicks on the open story.  Each is a transaction on the entries as they are in the *)
(* database, and the tab shows what it wrote.                                                      *)

Write(t, all, shows) ==
    /\ clock < MaxChanges
    /\ clock' = now
    /\ decisions' = all
    /\ Show(t, [mine |-> all] @@ shows)
    /\ UNCHANGED <<engine, snapshot, notes, builds, world>>

decide(t, source, Change(_), shows) == Write(t, decideStory(decisions, source, Change), shows) /\ UNCHANGED falsePos

Keep == <<>>
Goes(id) == [open |-> id]

\* The story whose build holds the step: the first of the view's.
ownerOf(v, st) ==
    LET holders == {i \in DOMAIN v.sources : st.id \in IdsOf(v.sources[i].story.steps)}
    IN  v.sources[IF holders = {} THEN 1 ELSE Min(holders)]

\* The button is there once the call or its reason is not the saved one, and a reason is given where one is due.
Call(t, v) == \E verdict \in Verdicts, why \in BOOLEAN :
    /\ IF v.call = None THEN verdict # Open \/ why ELSE verdict # v.call.verdict \/ why # v.call.why
    /\ needsReason(verdict) => why
    /\ decide(t, v.sources[1], LAMBDA d : setCall(d, v.part, verdict, why), Keep)

UndoCall(t, v) ==
    /\ v.call # None /\ v.call.verdict # Open
    /\ decide(t, v.sources[1], LAMBDA d : setCall(d, v.part, Open, FALSE), Keep)

\* A disputed step's findings are marked false positive when the analyst asks.
CallStep(t, v, st) == \E verdict \in StepVerdicts, also \in BOOLEAN :
    /\ ~(st.id \in DOMAIN v.steps /\ v.steps[st.id].verdict = verdict)
    /\ also => verdict = "disputed" /\ st.findings # {}
    /\ falsePos' = IF also THEN falsePos \cup st.findings ELSE falsePos
    /\ Write(t, decideStory(decisions, ownerOf(v, st), LAMBDA d : setStepCall(d, st, verdict)), Keep)

UndoStep(t, v, st) ==
    /\ st.id \in DOMAIN v.steps
    /\ decide(t, ownerOf(v, st), LAMBDA d : setStepCall(d, st, ""), Keep)

DropLost(t, v) == \E l \in v.lostSteps : decide(t, l.source, LAMBDA d : dropStepCall(d, l.call), Keep)

StepOut(t, v, st) == decide(t, ownerOf(v, st), LAMBDA d : takeOut(d, st), Keep)

PutBack(t, v) == \E o \in Range(v.out) : decide(t, o.source, LAMBDA d : putBack(d, o.out), Keep)

\* A story is split once, not at its first step, and the second part not at all.
Split(t, v, st) ==
    /\ v.part = "story" /\ v.split = None /\ v.shown.steps[1].id # st.id
    /\ decide(t, v.sources[1], LAMBDA d : splitAt(d, st), Goes(splitId(v.base.id)))

Unsplit(t, v) ==
    /\ v.split # None
    /\ decide(t, v.sources[1], LAMBDA d : [d EXCEPT !.split = None], Goes(v.base.id))

Merge(t, v, views) == \E target \in Range(views) :
    /\ mergeCheck(v, target)
    /\ decide(t, v.sources[1], LAMBDA d : mergeInto(d, storyAnchor(target.base)), Goes(target.shown.id))

\* A merge is undone on the story it went into, or on its own when that story is gone.
Unmerge(t, v) ==
    \E source \in {[story |-> m.story, key |-> m.key] : m \in v.merged} \cup (IF v.mergeLost THEN {v.sources[1]} ELSE {}) :
        decide(t, source, LAMBDA d : [d EXCEPT !.merge = None], Keep)

Lost(t) == Orphans(resolveStoryDecisions(IF pages[t].res = None THEN <<>> ELSE pages[t].res.stories, pages[t].mine), pages[t].mine)

\* A decision whose story is gone goes to the open story, or is deleted for good.
Attach(t, v) == \E key \in Lost(t) :
    /\ v.part = "story"
    /\ Write(t, attachStoryDecision(decisions, key, v.sources[1]), Keep)
    /\ UNCHANGED falsePos

Delete(t) == \E key \in Lost(t) : Write(t, Dropped(decisions, key), Keep) /\ UNCHANGED falsePos

selectStory(t, views) == \E v \in Range(views) :
    /\ v.shown.id # pages[t].open
    /\ Show(t, [open |-> v.shown.id])
    /\ UNCHANGED <<engine, world, falsePos, snapshot, decisions, notes, builds, clock>>

OnStep(t, v) == \E st \in Range(v.shown.steps) :
    CallStep(t, v, st) \/ UndoStep(t, v, st) \/ StepOut(t, v, st) \/ Split(t, v, st)

OnStory(t, v, views) ==
    \/ Call(t, v) \/ UndoCall(t, v) \/ DropLost(t, v) \/ PutBack(t, v)
    \/ Unsplit(t, v) \/ Merge(t, v, views) \/ Unmerge(t, v) \/ Attach(t, v)

-----------------------------------------------------------------------------
(* Notes: the analyst's reading of a story, one per story *)

WriteNotes(t, all) ==
    /\ clock < MaxChanges
    /\ clock' = now
    /\ notes' = all
    /\ Show(t, [noted |-> all])
    /\ UNCHANGED <<engine, world, falsePos, snapshot, decisions, builds>>

NotesOn(t) == resolveStoryNotes(pages[t].res.stories, pages[t].noted)
NoteAt(on, id) == IF id \in DOMAIN on THEN on[id] ELSE NoId
NoteNow(texts, s) == [texts |-> texts, updatedAt |-> now, anchor |-> storyAnchor(s)]

\* The second part of a split story has no note of its own.  A note is the texts put into it.
Noting(t, v, key, texts) ==
    \/ WriteNotes(t, With(notes, key, NoteNow(texts \cup {now}, v.shown)))
    \/ texts # {} /\ WriteNotes(t, Dropped(notes, key))
saveStoryNote(t, v, on) ==
    /\ v.part = "story"
    /\ LET At(key) == IF key = NoId THEN Noting(t, v, v.shown.id, {}) ELSE Noting(t, v, key, pages[t].noted[key].texts)
       IN  At(NoteAt(on, v.shown.id))

\* A note whose story is gone: as the open story's note, or after the one it has.
AttachTo(t, v, orphan, target) ==
    WriteNotes(t, With(IF target = orphan THEN notes ELSE Dropped(notes, orphan), target,
                       NoteNow(notes[target].texts \cup notes[orphan].texts, v.shown)))
attachStoryNote(t, v, on) == \E orphan \in Orphans(on, pages[t].noted) \cap DOMAIN notes :
    LET Onto(key) == AttachTo(t, v, orphan, IF key \in DOMAIN notes THEN key ELSE orphan)
    IN  Onto(NoteAt(on, v.shown.id))

deleteStoryNote(t, on) == \E orphan \in Orphans(on, pages[t].noted) : WriteNotes(t, Dropped(notes, orphan))

-----------------------------------------------------------------------------
(* The report *)

\* Every view that is decided goes to the verdict; dismissed ones are not printed, nor those below the
\* floor, nor, with reviewed items only, those with neither a note nor a decision.
HasNote(v, on) == v.part = "story" /\ \E id \in {v.base.id} \cup {m.story.id : m \in v.merged} : id \in DOMAIN on
isDecided(v) == v.call # None /\ v.call.verdict # Open
Ahead(v, w) == \/ v.shown.score > w.shown.score
               \/ v.shown.score = w.shown.score /\ v.shown.start < w.shown.start
Eligible(views, on, floor, onlyReviewed) ==
    {v \in views : ~isDismissed(v) /\ v.shown.severity >= floor /\ (onlyReviewed => HasNote(v, on) \/ isDecided(v))}
FirstFew(eligible) == {v \in eligible : Cardinality({w \in eligible : Ahead(w, v)}) < MaxPrinted}
Reported(views, printed, orphans) ==
    [printed |-> {v.shown.id : v \in printed},
     left |-> Cardinality(views) - Cardinality(printed) - Cardinality({v \in views : isDismissed(v)}),
     decided |-> {[id |-> v.shown.id, verdict |-> v.call.verdict, severity |-> v.shown.severity,
                   findings |-> v.shown.findings \ falsePos, printed |-> v \in printed] : v \in {w \in views : isDecided(w)}},
     orphans |-> orphans]
storiesForReport(stories, all, noted, floor, onlyReviewed) ==
    LET Of(views) == Reported(views, FirstFew(Eligible(views, resolveStoryNotes(stories, noted), floor, onlyReviewed)),
                              Orphans(resolveStoryDecisions(stories, all), all))
    IN  Of(Range(applyStoryDecisions(stories, all)))

-----------------------------------------------------------------------------
StoryInit ==
    /\ engine \in Engines
    /\ world = 0 /\ falsePos = {}
    /\ snapshot \in {None, [stories |-> Built(0, FlagsIn(0)), inputs |-> [findings |-> FlagsIn(0), evidence |-> 0]]}
    /\ decisions = <<>> /\ notes = <<>>
    /\ pages = [t \in Tabs |-> NoPage]
    /\ builds = [n \in 1 .. MaxBuilds |-> NotStarted]
    /\ clock = 0

OnNotes(t, v, on) == deleteStoryNote(t, on) \/ (v # None /\ (saveStoryNote(t, v, on) \/ attachStoryNote(t, v, on)))

Showing(t, views, v) ==
    \/ Leave(t) \/ Rebuild(t, v) \/ selectStory(t, views) \/ Delete(t)
    \/ pages[t].res # None /\ \E on \in {NotesOn(t)} : OnNotes(t, v, on)
    \/ v # None /\ (OnStory(t, v, views) \/ OnStep(t, v))

StoryNext ==
    \/ \E t \in Tabs : \E link \in Links \cup {NoId} : Load(t, link)
    \/ \E t \in Tabs : pages[t] # NoPage /\ \E views \in {Views(t)} : Showing(t, views, ById(views, pages[t].open))
    \/ \E n \in DOMAIN builds : ReadRows(n) \/ buildStories(n) \/ BuildFails(n)
    \/ Import

StorySpec == StoryInit /\ [][StoryNext]_storyVars

-----------------------------------------------------------------------------
(* Properties *)

StoryTypeOK ==
    /\ world \in Worlds /\ falsePos \subseteq DOMAIN SevOf /\ clock \in 0 .. MaxChanges
    /\ \A k \in DOMAIN decisions : ~isEmpty(decisions[k]) /\ decisions[k].updatedAt \in 1 .. clock
    /\ \A n \in DOMAIN builds : builds[n].stage \in {"none", "asked", "read", "done"}

\* Whatever is merged, split and taken out, and however a build has renamed and regrouped the stories,
\* each step the decisions leave in a story is shown in exactly one view of the page: merges that make
\* a loop after a build (applyStoryDecisions, "a loop merges nothing") hide no story.
OneView(views, story, id) ==
    Cardinality({n \in DOMAIN views :
        /\ id \in IdsOf(views[n].shown.steps)
        /\ \E k \in DOMAIN views[n].sources : views[n].sources[k].story.id = story}) = 1
EachInOneView(prep, views) == \A i \in DOMAIN prep : \A id \in IdsOf(prep[i].steps) : OneView(views, prep[i].story.id, id)
StepsShownOnce ==
    \A t \in Tabs : pages[t].res # None =>
        EachInOneView(PrepAll(pages[t].res.stories, resolveStoryDecisions(pages[t].res.stories, pages[t].mine),
                              pages[t].mine), Views(t))

\* Disputing steps never raises a story: the techniques and phases that make it high are matched
\* one to one again without the disputed steps (restate, threeInThree).
DisputeOnlyLowers ==
    \A t \in Tabs : \A v \in Range(Views(t)) :
        \A some \in SUBSET IdsOf(v.shown.steps), all \in {{v.base} \cup {m.story : m \in v.merged}} :
            severityOf(v.shown.steps, [id \in some |-> [verdict |-> "disputed"]], all)
                <= severityOf(v.shown.steps, <<>>, all)

\* A click on a page that shows the decisions as they are leaves no other decision without its story:
\* a story renamed by a build keeps the entry it is decided under (decideStory, attachStoryDecision).
DecidingKeepsTheRest ==
    [][\A t \in Tabs :
        /\ pages[t].res # None /\ decisions' # decisions
        /\ pages[t].mine = decisions /\ pages'[t].mine = decisions'
        => LET Homeless(all) == Orphans(resolveStoryDecisions(pages[t].res.stories, all), all)
           IN  Homeless(decisions') \subseteq Homeless(decisions)]_storyVars

\* A kept build that says it read the case as it is now is what the engine would build now, though
\* evidence and false positives come in while it is built (buildStories, storiesStaleness).
SnapshotIsHonest ==
    snapshot # None /\ ~storiesStaleness(snapshot) => snapshot.stories = Built(world, FlagsIn(world) \ falsePos)

\* What the docs say and the code does not do: see the README, Disagreements.
\* A merge is listed on the Decisions tab until it is undone: read into a story, or its story gone.
MergesListed ==
    \A t \in Tabs : pages[t].res # None =>
        LET placed == resolveStoryDecisions(pages[t].res.stories, pages[t].mine)
            views == Range(Views(t))
        IN  \A id \in DOMAIN placed : pages[t].mine[placed[id]].merge # None =>
                \E v \in views : (v.base.id = id /\ v.mergeLost) \/ \E m \in v.merged : m.story.id = id
=============================================================================
