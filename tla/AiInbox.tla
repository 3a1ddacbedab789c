------------------------------ MODULE AiInbox ------------------------------
(***************************************************************************)
(* What the model may change in a case, and what the analyst does with it: *)
(* the approval inbox (propose, accept, reject, undo), the decisions on    *)
(* chains and incidents it writes, the Review page that settles the same   *)
(* proposals, and the ledger that records it all.  One browser tab: an     *)
(* update of the inbox is one step, the awaits around it are not.          *)
(***************************************************************************)
EXTENDS Integers, Sequences, FiniteSets, FiniteSetsExt

CONSTANTS
    Fnd,          \* findings
    Entity,       \* what incidents group by
    Chain,        \* attack chains
    NoChain,
    About,        \* [Fnd -> Entity]
    StepOf,       \* [Fnd -> Chain \cup {NoChain}]: the chain whose steps hold its rows
    Offers,       \* the proposals the model may make: [kind, target, d, exposed]
    MaxProposals, MaxClicks, \* bounds: proposals, and what the analyst does on the Review page
    MaxAppends    \* bound: with so many ledger entries on their way nothing new is started

ASSUME InboxAssumption ==
    /\ MaxProposals \in Nat /\ MaxClicks \in Nat /\ MaxAppends \in Nat
    /\ About \in [Fnd -> Entity] /\ StepOf \in [Fnd -> Chain \cup {NoChain}]

VARIABLES
    fnd,      \* [Fnd -> [status, by, sev, excluded, unlinked, note]]
    review,   \* the kv entry chain-reviews: [Chain -> review or NoReview]
    summary,  \* the executive summary: "none", "own", "ai"
    created,  \* the notes and rules proposals added
    inbox,    \* the proposals, oldest first
    accept,   \* acceptProposals going on
    undo,     \* undoProposal going on
    page,     \* the Review page: its copies, and an applySuggestion going on
    ledger,   \* the entries
    logging,  \* appendLedger calls, in the order they were made
    latest,   \* history: the proposal whose write is the last one, and the case as it read it
    wrote,    \* history: proposals written from the inbox
    crossed,  \* history: proposals the Review page and the inbox settled at the same time
    clicks

inboxVars == <<fnd, review, summary, created, inbox, accept, undo, page, ledger, logging, latest, wrote,
               crossed, clicks>>
case == <<fnd, review, summary, created>>

NoReview == [verdict |-> "none", by |-> "none", include |-> "none", narrative |-> "none"]
NewFinding == [status |-> "new", by |-> "none", excluded |-> FALSE, unlinked |-> FALSE, note |-> "none"]
NoTask == [pc |-> "off", todo |-> {}, p |-> 0, before |-> <<>>]
Closed ==
    [pc |-> "closed", fnd |-> <<>>, review |-> <<>>, seen |-> {}, p |-> 0, before |-> <<>>, pending |-> {}]
Nothing == [p |-> 0, read |-> 0, case |-> <<>>]

(***************************************************************************)
(* The review queue                                                        *)
(***************************************************************************)
(* A chain with its linked findings, or the incident of an entity. *)
ItemOf(f, fs) == IF StepOf[f] # NoChain /\ ~fs[f].unlinked THEN StepOf[f] ELSE About[f]
Members(item, fs) == {f \in Fnd : ItemOf(f, fs) = item}

(* reviewItemFor: a chain is in the queue without findings too; a finding stands for its item. *)
Found(target, fs) ==
    IF target \in Fnd THEN {ItemOf(target, fs)}
    ELSE IF target \in Chain \/ Members(target, fs) # {} THEN {target} ELSE {}

verdictStatus(v) ==
    CASE v = "confirmed" -> "escalated" [] v = "benign" -> "false_positive" [] OTHER -> "reviewed"

(* proposalDecision: the decision in the words of the item's kind. *)
InWordsOf(item, decision) ==
    LET toChain == [escalated |-> "confirmed", reviewed |-> "unsure", false_positive |-> "benign"]
        toIncident == [confirmed |-> "escalated", unsure |-> "reviewed", benign |-> "reviewed"]
    IN  IF item \in Chain THEN IF decision \in DOMAIN toChain THEN toChain[decision] ELSE decision
                          ELSE IF decision \in DOMAIN toIncident THEN toIncident[decision] ELSE decision

(***************************************************************************)
(* Decisions                                                               *)
(***************************************************************************)
(* snapshot, and the chain's review as the caller knows it. *)
Before(item, fs, rs) ==
    [item |-> item, findings |-> [f \in Members(item, fs) |-> fs[f]],
     review |-> IF item \in Chain THEN rs[item] ELSE NoReview]

SetOn(fs, on, change(_)) == [f \in Fnd |-> IF f \in on THEN change(fs[f]) ELSE fs[f]]

applyChainVerdict(c, members, verdict, who) ==
    /\ fnd' = SetOn(fnd, members, LAMBDA f : [f EXCEPT !.status = verdictStatus(verdict), !.by = who])
    /\ review' = [review EXCEPT ![c].verdict = verdict, ![c].by = who]

(* applyDecision on what the caller found (b): the members are its, the review is read again. *)
DecideChain(b, d) ==
    LET unlinked == d.unlink \cap DOMAIN b.findings
        told == SetOn(fnd, DOMAIN b.findings \ unlinked,
                      LAMBDA f : [f EXCEPT !.status = verdictStatus(InWordsOf(b.item, d.decision)),
                                                 !.by = "ai"])
        mayWrite == d.note /\ b.review.narrative # "analyst"
    IN  /\ fnd' = SetOn(told, unlinked, LAMBDA f : [f EXCEPT !.unlinked = TRUE])
        /\ review' = [review EXCEPT ![b.item] =
                        [verdict |-> InWordsOf(b.item, d.decision), by |-> "ai",
                         include |-> IF d.include = "none" THEN @.include ELSE d.include,
                         narrative |-> IF mayWrite THEN "ai" ELSE @.narrative]]

Lead(b) ==
    CHOOSE f \in DOMAIN b.findings : \A g \in DOMAIN b.findings : b.findings[f].status = "false_positive"
                                               => b.findings[g].status = "false_positive"

DecideIncident(b, d) ==
    LET mayWrite == d.note /\ b.findings[Lead(b)].note # "analyst"
    IN  /\ fnd' = [f \in Fnd |-> IF f \notin DOMAIN b.findings THEN fnd[f] ELSE
                     [fnd[f] EXCEPT !.status = InWordsOf(b.item, d.decision), !.by = "ai",
                                    !.excluded = IF d.include = "none" THEN @ ELSE d.include = "no",
                                    !.note = IF mayWrite /\ f = Lead(b) THEN "ai" ELSE @]]
        /\ UNCHANGED review

applyDecision(b, d) == IF b.item \in Chain THEN DecideChain(b, d) ELSE DecideIncident(b, d)

WroteNote(b, d) == b.item \notin Chain /\ d.note /\ b.findings[Lead(b)].note # "analyst"

undoEntry_Faulty(b, d) == \* faulty: a chain that had no review keeps the one the decision wrote
    /\ fnd' = [f \in Fnd |-> IF f \notin DOMAIN b.findings THEN fnd[f] ELSE
                 [b.findings[f] EXCEPT !.note = IF WroteNote(b, d) THEN @ ELSE fnd[f].note]]
    /\ review' = IF b.item \in Chain /\ b.review # NoReview
                 THEN [review EXCEPT ![b.item] = b.review] ELSE review

undoEntry(b, d) ==
    /\ fnd' = [f \in Fnd |-> IF f \notin DOMAIN b.findings THEN fnd[f] ELSE
                 [b.findings[f] EXCEPT !.note = IF WroteNote(b, d) THEN @ ELSE fnd[f].note]]
    /\ review' = IF b.item \in Chain THEN [review EXCEPT ![b.item] = b.review] ELSE review

(***************************************************************************)
(* The ledger: an append reads the last entry, then adds; appends queue.   *)
(***************************************************************************)
Hash(e) == <<e.seq, e.kind, e.p, e.prev>>
Starts == Len(logging) < MaxAppends
Nth(ps, i) == CHOOSE p \in ps : Cardinality({q \in ps : q <= p}) = i
(* One entry for each of the proposals, oldest first. *)
Log(kind, ps) ==
    logging \o [i \in 1..Cardinality(ps) |-> [kind |-> kind, p |-> Nth(ps, i), read |-> FALSE, after |-> 0]]

ReadLast_Faulty == \* faulty: the appends do not wait for each other
    \E i \in 1..Len(logging) :
       /\ ~logging[i].read
       /\ logging' = [logging EXCEPT ![i].read = TRUE, ![i].after = Len(ledger)]
       /\ UNCHANGED <<fnd, review, summary, created, inbox, accept, undo, page, ledger,
                      latest, wrote, crossed, clicks>>

ReadLast ==
    /\ logging # <<>> /\ ~Head(logging).read
    /\ logging' = [logging EXCEPT ![1].read = TRUE, ![1].after = Len(ledger)]
    /\ UNCHANGED <<fnd, review, summary, created, inbox, accept, undo, page, ledger,
                   latest, wrote, crossed, clicks>>

AddEntry ==
    /\ logging # <<>> /\ Head(logging).read
    /\ LET n == Head(logging).after
       IN  ledger' = Append(ledger, [seq |-> n + 1, kind |-> Head(logging).kind, p |-> Head(logging).p,
                                     prev |-> IF n = 0 THEN <<>> ELSE Hash(ledger[n])])
    /\ logging' = Tail(logging)
    /\ UNCHANGED <<fnd, review, summary, created, inbox, accept, undo, page, latest, wrote, crossed, clicks>>

verifyLedger == \A i \in 1..Len(ledger) :
    /\ ledger[i].seq = i
    /\ ledger[i].prev = IF i = 1 THEN <<>> ELSE Hash(ledger[i - 1])

(***************************************************************************)
(* Proposals                                                               *)
(***************************************************************************)
Pending == {i \in 1..Len(inbox) : inbox[i].status = "pending"}
Proposal(o) == [kind |-> o.kind, target |-> o.target, d |-> o.d, exposed |-> o.exposed,
                status |-> "pending", applied |-> <<>>, undone |-> FALSE]

SameTarget(p, o) == \/ p.kind = "decision" /\ o.kind = "decision" /\ p.target = o.target
                    \/ p.kind = "summary" /\ o.kind = "summary"

(* A pending proposal on the same target gives way to the new one. *)
propose(o) ==
    /\ Len(inbox) < MaxProposals /\ Starts
    /\ inbox' = Append([i \in 1..Len(inbox) |-> IF inbox[i].status = "pending" /\ SameTarget(inbox[i], o)
                                                THEN [inbox[i] EXCEPT !.status = "superseded"] ELSE inbox[i]],
                       Proposal(o))
    /\ logging' = Log("proposal", {Len(inbox) + 1})
    /\ UNCHANGED <<fnd, review, summary, created, accept, undo, page, ledger, latest, wrote, crossed, clicks>>

(* One card, or "accept all", which leaves out what was proposed after reading text aimed at a model. *)
acceptProposals(ids) ==
    /\ accept.pc = "off" /\ ids # {} /\ Starts
    /\ accept' = [NoTask EXCEPT !.pc = "check", !.todo = ids]
    /\ UNCHANGED <<fnd, review, summary, created, inbox, undo, page, ledger, logging,
                   latest, wrote, crossed, clicks>>

(* They are taken oldest first. *)
NextOf(task) ==
    LET rest == task.todo \ {Min(task.todo)}
    IN  IF rest = {} THEN NoTask ELSE [NoTask EXCEPT !.pc = "check", !.todo = rest]

(* Only a pending proposal goes on; one whose item has left the queue fails and stays pending. *)
AcceptCheck ==
    /\ accept.pc = "check"
    /\ LET p == Min(accept.todo)
           item == IF inbox[p].kind = "decision" THEN Found(inbox[p].target, fnd) ELSE {"none"}
           goes == inbox[p].status = "pending" /\ item # {}
           before == CASE inbox[p].kind = "decision" -> Before(CHOOSE x \in item : TRUE, fnd, review)
                       [] inbox[p].kind = "summary" -> summary
                       [] OTHER -> "none"
       IN  /\ accept' = IF goes THEN [accept EXCEPT !.pc = "write", !.p = p, !.before = <<before>>]
                           ELSE NextOf(accept)
           /\ latest' = IF goes THEN [p |-> 0, read |-> p, case |-> <<case>>] ELSE latest
           /\ crossed' = crossed \cup ({p} \cap {page.p})
    /\ UNCHANGED <<fnd, review, summary, created, inbox, undo, page, ledger, logging, wrote, clicks>>

applyOne ==
    /\ accept.pc = "write"
    /\ LET p == accept.p
       IN  /\ CASE inbox[p].kind = "decision" ->
                      applyDecision(accept.before[1], inbox[p].d) /\ UNCHANGED <<summary, created>>
                [] inbox[p].kind = "summary" -> summary' = "ai" /\ UNCHANGED <<fnd, review, created>>
                [] OTHER -> created' = created \cup {p} /\ UNCHANGED <<fnd, review, summary>>
           /\ latest' = IF latest.read = p THEN [latest EXCEPT !.p = p, !.read = 0] ELSE Nothing
           /\ wrote' = wrote \cup {p}
    /\ accept' = [accept EXCEPT !.pc = "settle"]
    /\ UNCHANGED <<inbox, undo, page, ledger, logging, crossed, clicks>>

AcceptSettle_Faulty == \* faulty: only a proposal that is still pending becomes accepted
    /\ accept.pc = "settle"
    /\ inbox' = [inbox EXCEPT ![accept.p] = IF @.status # "pending" THEN @ ELSE
                    [@ EXCEPT !.status = "accepted", !.applied = accept.before, !.undone = FALSE]]
    /\ logging' = Log("accepted", {accept.p})
    /\ accept' = NextOf(accept)
    /\ UNCHANGED <<fnd, review, summary, created, undo, page, ledger, latest, wrote, crossed, clicks>>

AcceptSettle ==
    /\ accept.pc = "settle"
    /\ inbox' = [inbox EXCEPT ![accept.p].status = "accepted", ![accept.p].applied = accept.before,
                              ![accept.p].undone = FALSE]
    /\ logging' = Log("accepted", {accept.p})
    /\ accept' = NextOf(accept)
    /\ UNCHANGED <<fnd, review, summary, created, undo, page, ledger, latest, wrote, crossed, clicks>>

(* The pending ones of ids, in one update. *)
rejectProposals(ids) ==
    LET done == ids \cap Pending
    IN  /\ done # {} /\ Starts
        /\ inbox' = [i \in 1..Len(inbox) |->
                       IF i \in done THEN [inbox[i] EXCEPT !.status = "rejected"] ELSE inbox[i]]
        /\ logging' = Log("rejected", done)
        /\ UNCHANGED <<fnd, review, summary, created, accept, undo, page, ledger,
                       latest, wrote, crossed, clicks>>

(***************************************************************************)
(* Undo                                                                    *)
(***************************************************************************)
undoProposal(p) ==
    /\ undo.pc = "off" /\ Starts
    /\ inbox[p].status = "accepted" /\ inbox[p].applied # <<>> /\ ~inbox[p].undone
    /\ undo' = [NoTask EXCEPT !.pc = "revert", !.p = p, !.before = inbox[p].applied]
    /\ UNCHANGED <<fnd, review, summary, created, inbox, accept, page, ledger, logging,
                   latest, wrote, crossed, clicks>>

Revert ==
    /\ undo.pc = "revert"
    /\ CASE inbox[undo.p].kind = "decision" ->
              undoEntry(undo.before[1], inbox[undo.p].d) /\ UNCHANGED <<summary, created>>
         [] inbox[undo.p].kind = "summary" -> summary' = undo.before[1] /\ UNCHANGED <<fnd, review, created>>
         [] OTHER -> created' = created \ {undo.p} /\ UNCHANGED <<fnd, review, summary>>
    /\ undo' = [undo EXCEPT !.pc = "settle"]
    /\ latest' = Nothing
    /\ UNCHANGED <<inbox, accept, page, ledger, logging, wrote, crossed, clicks>>

UndoSettle ==
    /\ undo.pc = "settle"
    /\ inbox' = [inbox EXCEPT ![undo.p].undone = TRUE]
    /\ logging' = Log("undone", {undo.p})
    /\ undo' = NoTask
    /\ UNCHANGED <<fnd, review, summary, created, accept, page, ledger, latest, wrote, crossed, clicks>>

(***************************************************************************)
(* The Review page                                                         *)
(***************************************************************************)
Suggested == {i \in Pending : inbox[i].kind = "decision"}
Shown(p) == IF clicks' = MaxClicks THEN Closed ELSE p \* what a page without clicks left shows is forgotten
Click == clicks < MaxClicks /\ Starts /\ clicks' = clicks + 1
Unlogged == UNCHANGED <<summary, created, inbox, accept, undo, ledger, logging, wrote, crossed>>

(* The page reads the findings, the reviews and the suggestions when it opens. *)
OpenPage ==
    /\ page.pc = "closed" /\ clicks < MaxClicks /\ Starts
    /\ page' = [Closed EXCEPT !.pc = "idle", !.fnd = fnd, !.review = review, !.seen = Suggested]
    /\ Unlogged /\ UNCHANGED <<fnd, review, latest, clicks>>

(* The analyst's own clicks: on the members the page shows. *)
setStatus(item, s) ==
    /\ page.pc = "idle" /\ Click /\ item \in Entity /\ Members(item, page.fnd) # {}
    /\ fnd' = SetOn(fnd, Members(item, page.fnd), LAMBDA f : [f EXCEPT !.status = s, !.by = "analyst"])
    /\ page' = Shown([page EXCEPT !.fnd = fnd', !.seen = Suggested])
    /\ latest' = Nothing
    /\ Unlogged /\ UNCHANGED review

chainPatch(c, verdict) ==
    /\ page.pc = "idle" /\ Click
    /\ applyChainVerdict(c, Members(c, page.fnd), verdict, "analyst")
    /\ page' = Shown([page EXCEPT !.fnd = fnd', !.review = review', !.seen = Suggested])
    /\ latest' = Nothing
    /\ Unlogged

setChainUnlinked(f, on) ==
    /\ page.pc = "idle" /\ Click /\ StepOf[f] # NoChain /\ page.fnd[f].unlinked # on
    /\ fnd' = [fnd EXCEPT ![f].unlinked = on]
    /\ page' = Shown([page EXCEPT !.fnd = fnd', !.seen = Suggested])
    /\ latest' = Nothing
    /\ Unlogged /\ UNCHANGED review

(* applySuggestion: the decision first, on what the page holds, then the proposals on the target. *)
applySuggestion(p) ==
    /\ page.pc = "idle" /\ Click /\ p \in page.seen /\ Found(inbox[p].target, page.fnd) # {}
    /\ LET b == Before(CHOOSE x \in Found(inbox[p].target, page.fnd) : TRUE, page.fnd, page.review)
       IN  /\ applyDecision(b, inbox[p].d)
           /\ page' = [page EXCEPT !.pc = "list", !.p = p, !.before = <<b>>]
    /\ latest' = Nothing
    /\ crossed' = crossed \cup ({p} \cap {accept.p})
    /\ UNCHANGED <<summary, created, inbox, accept, undo, ledger, logging, wrote>>

ListPending ==
    /\ page.pc = "list"
    /\ page' = [page EXCEPT !.pc = "settle",
                            !.pending = {i \in Suggested : inbox[i].target = inbox[page.p].target}]
    /\ Unlogged /\ UNCHANGED <<fnd, review, latest, clicks>>

(* The proposal shown is accepted, the others on its target are superseded. *)
SettleSuggestion ==
    /\ page.pc = "settle"
    /\ inbox' = [i \in 1..Len(inbox) |-> IF i \notin page.pending THEN inbox[i]
                    ELSE IF i = page.p THEN [inbox[i] EXCEPT !.status = "accepted", !.applied = page.before]
                    ELSE [inbox[i] EXCEPT !.status = "superseded"]]
    /\ logging' = IF page.p \in page.pending THEN Log("accepted", {page.p}) ELSE logging
    /\ crossed' = crossed \cup (page.pending \ Pending)
    /\ UNCHANGED <<fnd, review, summary, created, accept, undo, ledger, latest, wrote, clicks>>
    /\ page' = Shown([Closed EXCEPT !.pc = "idle", !.fnd = fnd, !.review = review,
                                    !.seen = {i \in Suggested : inbox'[i].status = "pending"}])

(***************************************************************************)
InboxInit ==
    /\ fnd = [f \in Fnd |-> NewFinding] /\ review = [c \in Chain |-> NoReview]
    /\ summary = "none" /\ created = {}
    /\ inbox = <<>> /\ accept = NoTask /\ undo = NoTask /\ page = Closed
    /\ ledger = <<>> /\ logging = <<>> /\ latest = Nothing /\ wrote = {} /\ crossed = {} /\ clicks = 0

Clean == {p \in Pending : ~inbox[p].exposed}

InboxNext ==
    \/ \E o \in Offers : propose(o)
    \/ acceptProposals(Clean)
    \/ \E p \in Pending : acceptProposals({p}) \/ rejectProposals({p})
    \/ rejectProposals(Pending)
    \/ AcceptCheck \/ applyOne \/ AcceptSettle
    \/ \E p \in 1..Len(inbox) : undoProposal(p) \/ applySuggestion(p)
    \/ Revert \/ UndoSettle
    \/ OpenPage \/ ListPending \/ SettleSuggestion
    \/ \E item \in Entity, s \in {"escalated"} : setStatus(item, s)
    \/ \E c \in Chain, v \in {"confirmed"} : chainPatch(c, v)
    \/ \E f \in Fnd, on \in BOOLEAN : setChainUnlinked(f, on)
    \/ ReadLast \/ AddEntry

InboxSpec == InboxInit /\ [][InboxNext]_inboxVars

(***************************************************************************)
(* Properties                                                              *)
(***************************************************************************)
(* However many appends are under way, every entry links to the one before it: the ledger of a case
   nobody touched always verifies. *)
LedgerIntact == verifyLedger

(* Undoing a proposal accepted in the inbox, when nothing was written to the case since, puts the case
   back to what it was before: status, inclusion, link, note, chain review,
   summary, the note or rule added. *)
UndoRestores == [][(Revert /\ latest.p = undo.p /\ undo.p \notin crossed) => case' = latest.case[1]]_inboxVars

(* A proposal written from the inbox is accepted, and can be undone, once the acceptance has ended:
   whatever was rejected, superseded or proposed meanwhile, unless the Review page settled it. *)
WrittenIsAccepted ==
    \A p \in wrote \ crossed : accept.p # p => inbox[p].status = "accepted" /\ inbox[p].applied # <<>>
=============================================================================
