------------------------------- MODULE MC_Review -------------------------------
(* The analyst's side of an investigation: what the rules find in the rows, what the model proposes
   to do about it, what the analyst decides and what the report then says.  The three parts share the
   case and no variable of these models, so a behaviour follows one of them, chosen at its start, and
   the run explores the sum of their states. *)
EXTENDS AiInbox, RuleEngine, Review

CONSTANTS f1, f2, u, c

VARIABLE part

(* AiInbox: two findings of one person, the second a step of a chain. *)
MCDecision(x, inc, ul, n) == [decision |-> x, include |-> inc, unlink |-> ul, note |-> n]
MCOffers ==
    {[kind |-> "decision", target |-> c, d |-> MCDecision("benign", "no", {f2}, TRUE), exposed |-> FALSE],
     [kind |-> "decision", target |-> f1, d |-> MCDecision("confirmed", "no", {}, TRUE), exposed |-> TRUE]}
MCAbout == (f1 :> u) @@ (f2 :> u)
MCStepOf == (f1 :> NoChain) @@ (f2 :> c)

(* RuleEngine: every condition of one or two levels over these leaves, bursts, and a rule with a
   follow-up, one with an exclusion, one that collapses. *)
MCLeaf(f, op, v) == [k |-> "leaf", field |-> f, op |-> op, value |-> v, alts |-> <<>>]
MCKind(k, as) == [k |-> k, field |-> "", op |-> "", value |-> {}, alts |-> as]
MCLeaves ==
    {MCLeaf("eventId", "eq", {"1"}), MCLeaf("eventId", "in", {"1", "2"}), MCLeaf("user", "eq", {"u"}),
     MCLeaf("channel", "contains", {"s"}), MCLeaf("data", "exists", {}), MCLeaf("user", "in_setting", {"admins"})}
MCPaired == {x \in MCLeaves : x.op \notin {"exists", "in_setting"}}
MCEntries ==
    MCLeaves \cup {MCKind(k, <<<<x>>, <<y>>>>) : k \in {"any_of", "all_of"}, x, y \in MCPaired}
             \cup {MCKind("not", <<<<x>>>>) : x \in MCLeaves}
MCPlain ==
    [source |-> "events", where |-> <<>>, exclude |-> <<>>, time |-> <<>>, any |-> <<>>, group |-> <<>>,
     threshold |-> <<>>, window |-> 0, distinct |-> {}, then |-> <<>>, thenSeverity |-> "high", join |-> <<>>,
     within |-> 0, severity |-> "low", flags |-> <<>>, entities |-> <<"user">>, max |-> 9, collapse |-> 9,
     requires |-> {}]
MCBursts ==
    {[MCPlain EXCEPT !.group = <<"user">>, !.threshold = <<">=", n>>, !.window = w, !.distinct = d] :
        n \in {2, 3}, w \in {2, 3}, d \in {{}, {"data"}}}
MCOthers ==
    {[MCPlain EXCEPT !.where = <<MCLeaf("eventId", "eq", {"1"})>>, !.join = <<"user">>, !.within = 2,
                     !.then = <<MCLeaf("eventId", "eq", {"2"}), MCLeaf("data", "eq", {"d"})>>,
                     !.flags = <<<<"x", "critical">>>>],
     [MCPlain EXCEPT !.where = <<MCLeaf("eventId", "eq", {"1"})>>, !.group = <<"data">>,
                     !.exclude = <<MCLeaf("user", "eq", {"v"})>>],
     [MCPlain EXCEPT !.where = <<MCLeaf("eventId", "in", {"1", "2"})>>, !.collapse = 1,
                     !.entities = <<"user", "data">>, !.time = <<{"outside"}, 8, 19>>]}
MCRules ==
    {[MCPlain EXCEPT !.where = <<x>>] : x \in MCEntries}
        \cup {[MCPlain EXCEPT !.where = <<MCLeaf("eventId", "eq", {"1"}), y>>] : y \in MCEntries \ MCLeaves}
        \cup MCBursts \cup MCOthers
MCRow(t, e, us, d, ch) ==
    [ts |-> t, hour |-> IF t > 2 THEN 3 ELSE 9, weekend |-> FALSE, flags |-> {},
     f |-> [eventId |-> e, user |-> us, data |-> d, channel |-> ch]]
MCRowOf ==
    {MCRow(t, {"1"}, {"u"}, {"d"}, {"sec"}) : t \in {0, 2, 4, 5}}
        \cup {MCRow(3, {"2"}, {"u"}, {}, {"app"}), MCRow(1, {"2"}, {"v"}, {"d"}, {"sec"}),
              MCRow(2, {"1"}, {}, {"e"}, {"app"})}
MCWithin == [op \in TextOp \cup {"in_setting"} |-> IF op = "contains" THEN {<<"sec", "s">>} ELSE {}]
MCLists == [s \in {"admins"} |-> {}]
MCBeside == {CHOOSE o \in MCOthers : o.group = <<"data">>}
MCHeavy == "data" :> {"data"}

(* Review: one person under three account names, a mail and the chain it starts, a file added later. *)
MCUser(n, r, k) == [name |-> n, realm |-> r, kind |-> k]
MCFact(id, name, source, sev, ts, tsEnd, refs, user, host, phase, file) ==
    [id |-> id, rule |-> name, title |-> name, source |-> source, sev |-> sev, conf |-> "high", ts |-> ts,
     tsEnd |-> tsEnd, refs |-> refs, count |-> Cardinality(refs), folded |-> 1, user |-> user, host |-> host,
     ip |-> "", what |-> {host}, subject |-> "", phase |-> phase,
     chain |-> IF name = "chain" THEN "c1" ELSE "none", file |-> file]
MCFacts ==
    <<MCFact(1, "r1", "events", "low", 0, 100, {1}, MCUser("alice", "corp", "netbios"), "H1", "execution", "e1"),
      MCFact(2, "r2", "events", "high", 50, 55, {2}, MCUser("alice", "corp.example", "dns"), "H3", "persistence", "e1"),
      MCFact(3, "pua", "events", "medium", 115, NoTime, {3}, MCUser("alice", "", "none"), "H1", "execution", "e2"),
      MCFact(4, "r3", "mails", "medium", 10, NoTime, {7}, NoUser, "", "initial-access", "e1"),
      MCFact(5, "chain", "mails", "high", 10, NoTime, {7}, NoUser, "", "none", "e1"),
      MCFact(6, "r1", "events", "low", 300, NoTime, {6}, NoUser, "H2", "execution", "e2")>>
MCChainSet ==
    {[id |-> "c1", pos |-> 1, score |-> 50, sev |-> "high", seeds |-> {<<"mails", 7>>},
      steps |-> {<<"events", 2>>}, start |-> 10]}
MCFiles ==
    {[id |-> "e1", package |-> FALSE, complete |-> TRUE, verified |-> TRUE],
     [id |-> "e2", package |-> TRUE, complete |-> FALSE, verified |-> TRUE]}
MCStories == {[id |-> "s1", verdict |-> "confirmed", severity |-> "medium", findings |-> {1, 3}, noted |-> FALSE]}
MCSetting(floor, only, fp, ch) == [floor |-> floor, onlyReviewed |-> only, includeFp |-> fp, chains |-> ch]
MCSettings == {MCSetting("info", FALSE, TRUE, TRUE), MCSetting("high", TRUE, FALSE, TRUE)}
MCFilter(inc, st, sev, fp) == [incidents |-> inc, status |-> st, source |-> "any", sev |-> sev, showFp |-> fp]
MCFilters == {MCFilter(TRUE, "any", "high", FALSE)}
MCInternal == {"corp.example"}
MCSubdomainOf == {}
MCFirstLabel == [d \in MCInternal |-> "corp"]
MCTrust == [r1 |-> 80, r2 |-> 100, r3 |-> 60, pua |-> 100]

MCInit ==
    /\ part \in {"inbox", "engine", "review"}
    /\ InboxInit /\ ReviewInit
    /\ IF part = "engine" THEN EngineInit ELSE rule = MCPlain /\ beside = {} /\ rows = <<>>
    /\ part # "review" => print.floor = "info"

MCNext ==
    /\ part' = part
    /\ \/ part = "inbox" /\ InboxNext /\ UNCHANGED <<engineVars, reviewVars>>
       \/ part = "engine" /\ EngineNext /\ UNCHANGED <<inboxVars, reviewVars>>
       \/ part = "review" /\ ReviewNext /\ UNCHANGED <<inboxVars, engineVars>>

MCSpec == MCInit /\ [][MCNext]_<<part, inboxVars, engineVars, reviewVars>>
==============================================================================
