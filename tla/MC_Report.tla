------------------------------ MODULE MC_Report ------------------------------
(* The report of two cases: one with everything a document has a section for, one still empty. *)
EXTENDS Report

MCSettings == [detail |-> "key", floor |-> "medium", evidence |-> TRUE, iocs |-> TRUE, notes |-> TRUE]
MCFinding(id, rule, sev, status, ts, refs, names) ==
    [id |-> id, rule |-> rule, source |-> "events", sev |-> sev, status |-> status, ts |-> ts, refs |-> refs,
     names |-> names, lead |-> id = "f3", created |-> ts, attack |-> {rule}]
MCNames(v) == {[field |-> "ip", values |-> {v}]}
MCFound == {MCFinding("f1", "r1", "high", "escalated", 5, <<1, 2>>, MCNames("ip1")),
            MCFinding("f2", "r2", "medium", "new", 0, <<2, 3, 9>>, MCNames("ip2")),
            MCFinding("f3", "r1", "low", "reviewed", 7, <<>>, {}),
            MCFinding("f4", "r2", "high", "escalated", 9, <<3>>, MCNames("ip3"))}
MCRow(id, ts, matches, v) == [id |-> id, ts |-> ts, matches |-> matches, then |-> {}, holds |-> {<<"ip", v>>}]
MCRows == {MCRow(1, 5, {"r1"}, "ip1"), MCRow(2, 6, {"r1", "r2"}, "ip2"), MCRow(3, 9, {}, "ip2")}
MCRules == {[id |-> r, source |-> "events", reads |-> {"ip"}, keys |-> {}, distinct |-> "none"] : r \in {"r1", "r2"}}

MCFile(file, first, last, holes, firstTs, steps, clock) ==
    [file |-> file, channel |-> "Security", computer |-> "ws", channels |-> 1, computers |-> 1, names |-> {"ws"},
     first |-> first, last |-> last, holes |-> holes, bad |-> 0, badHeader |-> 0, header |-> first = 1, firstTs |-> firstTs,
     steps |-> steps, clock |-> clock, starts |-> {}]
MCClock == {[computer |-> "ws", old |-> 20, new |-> 10]}
MCFiles == <<MCFile("f1", 1, 20, {<<4, 5>>}, 1, {<<3, 20, 10>>}, MCClock), MCFile("f2", 3, 5, {}, 2, {<<4, 30, 20>>}, {}),
             MCFile("f3", 23, 25, {}, 40, {<<24, 31, 22>>}, {})>>
MCMember(name, status, cut) == [name |-> name, format |-> "ual", status |-> status, count |-> 7, duplicates |-> 1, cut |-> cut]
MCLogs == <<[own |-> [name |-> "e1", format |-> "event-xml", count |-> 1, duplicates |-> 0],
             members |-> {MCMember("m1", "parsed", "note"), MCMember("m2", "error", "limit")}, sequences |-> MCFiles]>>

MCChainStep(key, routine) == [key |-> key, routine |-> routine]
MCChain == [id |-> "c1", verdict |-> "confirmed", start |-> 5, steps |-> <<MCChainStep("s", FALSE), MCChainStep("s", FALSE), MCChainStep("t", FALSE), MCChainStep("u", TRUE)>>,
            members |-> {"f1"}, ai |-> TRUE]
MCIncident(lead, ts, status) == [lead |-> lead, ts |-> ts, status |-> status, sev |-> "high", findings |-> {lead}, ai |-> FALSE]
MCToldStory == [key |-> "st1", verdict |-> "reviewed", spine |-> {1}, disputed |-> {}, steps |-> {[id |-> 1, phase |-> "access"]}, gaps |-> {}, group |-> 1]

MCBlank ==
    [aiRuns |-> 0, caveats |-> [x \in {"stale"} |-> FALSE], chains |-> <<>>, coverage |-> {}, decidedStories |-> {}, dismissed |-> 0,
     evidence |-> <<>>, evidenceAfter |-> 0, findings |-> {}, all |-> {}, gaps |-> {}, incidents |-> <<>>, iocs |-> {}, iocsChecked |-> 0,
     issue |-> [status |-> "draft", open |-> {"claims"}, waived |-> {}], left |-> 0, notes |-> {}, narratives |-> {},
     packageIssues |-> {}, questions |-> [answered |-> 0, open |-> 0, cannot |-> 0, chosen |-> FALSE], reasons |-> {}, relationships |-> {}, rulesRan |-> FALSE,
     settings |-> NoSettings, stories |-> <<>>, tasks |-> {}, timeline |-> {}, undecided |-> 0]
MCBase == [logs |-> MCLogs, signIns |-> {50}, throttled |-> {[user |-> "u", ts |-> 5]}, rules |-> MCRules, rows |-> MCRows, flagged |-> {"ip1"},
           settings |-> MCSettings] @@ MCBlank
MCFull ==
    [findings |-> MCFound, all |-> MCFound, chains |-> <<MCChain>>, incidents |-> <<MCIncident("f2", 0, "new"), MCIncident("f4", 9, "escalated")>>,
     stories |-> <<MCToldStory>>, decidedStories |-> {[key |-> "st1", start |-> 3, printed |-> TRUE, verdict |-> "reviewed"]},
     narratives |-> {[key |-> "c1", text |-> <<"ip1", "ip3">>, refs |-> <<1>>]}, evidence |-> <<[name |-> "e1", issue |-> TRUE, package |-> FALSE]>>,
     relationships |-> {[accepted |-> TRUE, printed |-> TRUE]}, iocs |-> {"ip1"}, rulesRan |-> TRUE, aiRuns |-> 1,
     timeline |-> {[key |-> "n1", ts |-> 4]}, caveats |-> [x \in {"stale"} |-> TRUE],
     packageIssues |-> {"member"}, questions |-> [answered |-> 1, open |-> 1, cannot |-> 1, chosen |-> TRUE], reasons |-> {"undecided"}, undecided |-> 1] @@ MCBase
MCContents == [k \in {"a", "b"} |-> IF k = "a" THEN <<MCFull, [MCFull EXCEPT !.rules = {}, !.findings = {f \in MCFound : f.id = "f1"}]>> ELSE <<MCBase>>]
MCFields == DOMAIN MCBlank
MCPieces == {MCFields}
MCChecked == {"settings", "findings", "narratives", "chains", "incidents", "stories", "evidence"}
MCDraftOf == [k \in {"a", "b"} |-> IF k = "a" THEN <<"ip1">> ELSE <<"ip2">>]
MCEdits == {<<"ip3">>}
MCAddresses == {"ip1", "ip2", "ip3"}
==============================================================================
