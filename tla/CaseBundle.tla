------------------------------ MODULE CaseBundle ------------------------------
(****************************************************************************)
(* A case as a file: what writeCaseBundle puts into it and how              *)
(* restoreRecords gives its records new ids beside the rows already in the  *)
(* database.                                                                *)
(*                                                                          *)
(* Source: frontend/src/data/caseBundle.ts, caseTransfer.ts.                *)
(*                                                                          *)
(* A record is [t, id, case, key, rule, ref, text, means]: its table and    *)
(* id, the case it belongs to (0: none), the key of a kv record, the rule of*)
(* a finding or a custom rule, and the id of what it names.  A finding names*)
(* a piece of evidence, and <<rule, ref>> is its key; the story notes of a  *)
(* case (a kv record) name a finding by that key.  text tells records apart *)
(* and means is the text of the record it names: neither is data of the     *)
(* program, and no restore changes them.                                    *)
(****************************************************************************)
EXTENDS Integers, FiniteSets, FiniteSetsExt, Sequences

CONSTANT BUILT_IN   \* the rule every browser has; any other rule is a custom one

\* The tables in the order of a bundle: its rows, then the custom rules, then the kv records.
TABLES == <<"evidence", "findings", "customRules", "kv">>
Tables == {TABLES[k] : k \in DOMAIN TABLES}

\* The kv records that are built from the rows and written again by the case that imports them.
Rebuilt == {"stories", "relationship-cache"}

\* The fields of a record.
RecordFields == {"t", "id", "case", "key", "rule", "ref", "text", "means"}

Of(recs, t) == {r \in recs : r.t = t}
InCase(recs, c) == {r \in recs : r.case = c}

----------------------------------------------------------------------------
(* Writing *)

\* The rows of the case, table by table.
RowsPart(recs, c) == {r \in InCase(recs, c) : r.t \in {"evidence", "findings"}}

\* The custom rules of this browser that findings of the case came from.
RulesUsed(recs, c) ==
    {[r EXCEPT !.case = c] : r \in {s \in Of(recs, "customRules") :
        s.case = 0 /\ \E f \in Of(InCase(recs, c), "findings") : f.rule = s.rule}}

\* What is written after the rows: the case's own custom rules, those its findings came from, its kv records.
LastPart(recs, c) ==
    {r \in InCase(recs, c) : r.t = "customRules" \/ (r.t = "kv" /\ r.key \notin Rebuilt)} \cup RulesUsed(recs, c)

----------------------------------------------------------------------------
(* Reading *)

\* A bundle's file: a header, the records, a line with the checksum of what comes before it (it stands here for
\* what it covers), and nothing after.  Copies are the file and what a cut, an edit or an append makes of it.
Written(rs) == [header |-> TRUE, recs |-> rs, sum |-> {rs}, more |-> FALSE]
Copies(rs) ==
    {Written(rs), [Written(rs) EXCEPT !.more = TRUE]}
        \cup {[header |-> TRUE, recs |-> Of(rs, "evidence"), sum |-> s, more |-> FALSE] : s \in {{}, {rs}}}

\* faulty: a file without its last line is taken
Verified_NoSum(file) == file.header /\ ~file.more /\ file.sum \subseteq {file.recs}

\* The whole file is read before anything is written: a missing or wrong checksum, or data after it, is an error.
Verified(file) == file.header /\ ~file.more /\ file.sum = {file.recs}

----------------------------------------------------------------------------
(* Giving the records their new ids *)

\* The last id of each table in this database: what the ids of the bundle are moved by.
Offsets(recs) == [t \in Tables |-> Max({0} \cup {r.id : r \in Of(recs, t)})]

MapId(off, t, id) == id + off[t]

\* The keys of the bundle's own findings, and nothing else, are known by their new ids.
KeyMap(bundle, off, rule, ref) ==
    IF \E f \in Of(bundle, "findings") : f.rule = rule /\ f.ref = ref THEN MapId(off, "evidence", ref) ELSE ref

\* faulty: the notes keep the keys they were written with
Remap_KeepsKeys(bundle, off, c, r) ==
    [r EXCEPT !.case = c,
              !.id = IF r.t = "kv" THEN 0 ELSE MapId(off, r.t, r.id),
              !.ref = IF r.t = "findings" THEN MapId(off, "evidence", r.ref) ELSE r.ref]

\* A record as the case c holds it: ids and refs moved by the offset of the table they name.
Remap(bundle, off, c, r) ==
    [r EXCEPT !.case = c,
              !.id = IF r.t = "kv" THEN 0 ELSE MapId(off, r.t, r.id),
              !.ref = CASE r.t = "findings" -> MapId(off, "evidence", r.ref)
                        [] r.t = "kv" /\ r.ref # 0 -> KeyMap(bundle, off, r.rule, r.ref)
                        [] OTHER -> r.ref]

\* bulkAdd refuses an id, and a kv key, the table already has.
Taken(recs, r) ==
    \E s \in Of(recs, r.t) : IF r.t = "kv" THEN s.case = r.case /\ s.key = r.key ELSE s.id = r.id

----------------------------------------------------------------------------
(* What a restored case must hold *)

\* The record r names, among the records of its own case.
Named(recs, r) ==
    {s \in InCase(recs, r.case) : CASE r.t = "findings" -> s.t = "evidence" /\ s.id = r.ref
                                    [] r.t = "kv" -> s.t = "findings" /\ s.rule = r.rule /\ s.ref = r.ref
                                    [] OTHER -> FALSE}

\* What tells a record's origin: neither a restore nor another write gives it to a record of the same case again.
Mark(r) == <<r.t, r.text>>
Marks(rs) == {Mark(r) : r \in rs}

\* The record it named when it was written is among the records, and the custom rule of a finding is.
Resolves(rs, r) == \E s \in Named(rs, r) : s.text = r.means
HasRule(rs, r) == r.t = "findings" /\ \E s \in Of(InCase(rs, r.case), "customRules") : s.rule = r.rule

\* Every record of the bundle is there, and what came from the bundle names what it named there, and has the rule
\* it had there.  A record may name nothing in its bundle: one written between the two halves of an export.
Whole(recs, bundle, c) ==
    /\ Marks(bundle) \subseteq Marks(InCase(recs, c))
    /\ \A r \in InCase(recs, c) : Mark(r) \in Marks(bundle) =>
           \E b \in bundle : /\ Mark(b) = Mark(r)
                            /\ (b.ref # 0 /\ Resolves(bundle, b) => Resolves(recs, r))
                            /\ (HasRule(bundle, b) => HasRule(recs, r))
==============================================================================
