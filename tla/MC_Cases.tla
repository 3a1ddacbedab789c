-------------------------------- MODULE MC_Cases --------------------------------
(* The cases of the server's store and of the browser: ingestion jobs into one server case, and the tabs of
   a browser that start, delete, save and restore cases.  The two parts share no variable, so a behaviour
   follows one of them, chosen at its start, and the run explores the sum of their states. *)
EXTENDS MC_CaseIngest, CaseSession

VARIABLE part

MCRecord(t, i, key, rule, ref, text, means) ==
    [t |-> t, id |-> i, case |-> 1, key |-> key, rule |-> rule, ref |-> ref, text |-> text, means |-> means]

\* The demo: a piece of evidence, a finding in it of a custom rule, that rule, and a note on the finding.
MCDemo == {MCRecord("evidence", 1, "", "built-in", 0, 101, 0), MCRecord("findings", 1, "", "custom", 1, 102, 101),
           MCRecord("customRules", 1, "", "custom", 0, 103, 0), MCRecord("kv", 0, "story-notes", "custom", 1, 104, 102)}

MCSymmetry == Permutations(Page)

MCInit ==
    /\ part \in {"ingest", "cases"}
    /\ CaseInit /\ SessionInit
    /\ part # "cases" => FreshBrowser /\ bundle = NoBundle

MCNext ==
    /\ part' = part
    /\ \/ part = "ingest" /\ CaseNext /\ UNCHANGED caseTabs
       \/ part = "cases" /\ SessionNext /\ UNCHANGED caseVars

MCSpec == MCInit /\ [][MCNext]_<<part, caseVars, caseTabs>>
==============================================================================
