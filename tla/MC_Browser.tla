------------------------------ MODULE MC_Browser ------------------------------
(* The browser's side of an investigation: files handed in, their import, the rule runs over the
   rows, the model that investigates them.  The four parts share the case and no variable of these
   models, so a behaviour follows one of them, chosen at its start, and the run explores the sum of their states. *)
EXTENDS BrowserImport, Findings, Intake, MC_Agent, TLC

CONSTANTS i1, i2, k1, x, y, e1, e2, ra, rb, rc, h1, h2, rn, rq

VARIABLE part

MCFile == (i1 :> <<k1>>) @@ (i2 :> <<k1>>)
MCDocIs == (x :> [size |-> 1, evtx |-> FALSE, header |-> FALSE, archive |-> TRUE])
        @@ (y :> [size |-> 2, evtx |-> TRUE, header |-> FALSE, archive |-> FALSE])
MCRecordsOf == (e1 :> {ra, rb}) @@ (e2 :> {rc})
MCHostOf == (ra :> h1) @@ (rb :> h1) @@ (rc :> h2)
MCMatches == (rn :> {ra, rb}) @@ (rq :> {ra, rb, rc})
MCSymmetry == Permutations(Tab) \cup Permutations(Drop) \cup Permutations(Import)

MCInit ==
    /\ part \in {"intake", "import", "findings", "agent"}
    /\ IntakeInit /\ ImportInit /\ FindingsInit /\ MCAgentInit
    /\ part # "intake" => ~parseHere /\ storage = "browser"
    /\ storage = "server" => ~parseHere   \* read for browser cases only

MCNext ==
    /\ part' = part
    /\ \/ part = "intake" /\ IntakeNext /\ UNCHANGED <<importVars, findingsVars, agentVars>>
       \/ part = "import" /\ ImportNext /\ UNCHANGED <<intakeVars, findingsVars, agentVars>>
       \/ part = "findings" /\ FindingsNext /\ UNCHANGED <<intakeVars, importVars, agentVars>>
       \/ part = "agent" /\ AgentNext /\ UNCHANGED <<intakeVars, importVars, findingsVars>>

MCSpec == MCInit /\ [][MCNext]_<<part, intakeVars, importVars, findingsVars, agentVars>>
==============================================================================
