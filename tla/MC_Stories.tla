------------------------------ MODULE MC_Stories ------------------------------
(* The stories of two small cases: one where an import joins two stories of a person into one, one
   where it folds two steps of the attack into one record and weakens what made the story firm. *)
EXTENDS StoryDecisions

MCStep(id, refs, ts, phase, keys) ==
    [id |-> id, refs |-> refs, ts |-> ts, phase |-> phase, findings |-> keys, strong |-> id # 3, flag |-> keys # {}]
MCStory(name, kind, forms, score, firm, steps) ==
    [id |-> <<name, 1>>, kind |-> kind, forms |-> forms, start |-> steps[1].ts, score |-> score, firm |-> firm,
     firmKnown |-> TRUE, steps |-> steps, severity |-> 0, strong |-> TRUE, findings |-> {}]
MCFirm(tech, phase, step, key) == [tech |-> tech, phase |-> phase, step |-> step, key |-> key]

MCDan == {<<"addr", "dan">>, <<"sid", "s1">>}
MCHost == {<<"host", "ws">>}
MCMail == MCStep(1, <<1>>, 1, 1, {"k1"})
MCLogon == MCStep(5, <<5>>, 4, 2, {"k5"})
MCLater == MCStep(6, <<6>>, 10, 2, {"k6"})
MCFirms == {MCFirm(1, 1, 1, "k1"), MCFirm(1, 2, 2, "k2"), MCFirm(2, 1, 3, "k3"), MCFirm(3, 3, 4, "k4")}

MCJoined ==
    [w \in 0 .. 1 |->
        IF w = 0
        THEN <<MCStory("A", "person", MCDan, 9, {}, <<MCMail>>),
               MCStory("B", "host", MCHost, 5, {}, <<MCLogon>>),
               MCStory("C", "person", MCDan, 3, {}, <<MCLater>>)>>
        ELSE <<MCStory("D", "person", MCDan, 9, {}, <<MCMail, MCLater>>),
               MCStory("E", "host", MCHost, 5, {}, <<MCLogon>>)>>]
MCFolded ==
    [w \in 0 .. 1 |->
        IF w = 0
        THEN <<MCStory("A", "person", MCDan, 9, MCFirms,
                 <<MCMail, MCStep(2, <<2>>, 2, 2, {"k2"}), MCStep(3, <<3>>, 3, 1, {"k3"}), MCStep(4, <<4>>, 3, 3, {"k4"})>>)>>
        ELSE <<MCStory("D", "person", MCDan, 9, {f \in MCFirms : f.step # 2},
                 <<MCStep(1, <<1, 2>>, 1, 1, {"k1"}), MCStep(3, <<3>>, 3, 1, {"k3"}), MCStep(4, <<4>>, 3, 3, {"k4"})>>)>>]

MCEngines == {MCJoined, MCFolded}
MCSev == [k \in {"k1", "k2", "k3", "k4", "k5", "k6"} |-> 2]
MCWorlds == 0 .. 1
MCLinks == {<<"C", 1>>}
==============================================================================
