------------------------------ MODULE Incidents ------------------------------
(***************************************************************************)
(* What an analyst reviews and in which order: which account names are one *)
(* person, which findings belong to an attack chain, how the others form   *)
(* incidents, what an incident's status and severity are, and the score    *)
(* that says what to look at first.  Nothing of it is stored: it is        *)
(* computed from the findings fs, a set of records                         *)
(*   id, rule, title, source, sev, conf, ts, tsEnd (NoTime when it has     *)
(*   none), refs, count, folded, user, host, ip, what, subject, phase,     *)
(*   chain (of a chain's own row), status, by, at, over, unlinked, exclude *)
(* and the chains, records id, pos, score, sev, seeds, steps, start.       *)
(***************************************************************************)
EXTENDS Integers, Sequences, FiniteSets, SequencesExt, FiniteSetsExt, Functions

CONSTANTS
    Internal,        \* the internal DNS domains
    SubdomainOf,     \* <<realm, domain>>: realm lies under the domain
    FirstLabel,      \* [DNS realm -> the NetBIOS name it starts with]
    Gap,             \* DEFAULT_GAP_MS: findings on one entity this close are one incident
    MAX_MEMBER_REFS, \* a finding with more rows describes a pattern, not steps of a chain
    Window,          \* PRIORITY.windowMs: other rules this close corroborate a finding
    Trust,           \* [rule -> ruleTrust(...).precision, in percent]
    Remembered       \* the analysts' decisions in the other cases: [signature, status, at, id]

ASSUME TimesAssumption == Gap \in Nat /\ Window \in Nat
ASSUME TrustAssumption == \A rule \in DOMAIN Trust : Trust[rule] \in 0 .. 100
\* The other cases were decided before this review, whose decisions are at 1, 2, ...
ASSUME RememberedAssumption == \A d \in Remembered : d.at \in Int /\ d.at <= 0

NoTime == -1
NoUser == [name |-> "", realm |-> "", kind |-> "skip"]

Position(s, x) == CHOOSE i \in DOMAIN s : s[i] = x
ORDER == <<"critical", "high", "medium", "low", "info">>
sevRank(s) == Position(ORDER, s)
effectiveSeverity(f) == IF f.over = "none" THEN f.sev ELSE f.over
Ends(f) == IF f.tsEnd = NoTime THEN f.ts ELSE f.tsEnd
Lesser(m, n) == IF m <= n THEN m ELSE n
Ranked(S, before(_, _)) == CHOOSE x \in S : \A y \in S \ {x} : before(x, y)

(***************************************************************************)
(* One person, one key.  An account is [name, realm, kind]: kind "dns" for *)
(* user@realm, "netbios" for REALM\user, "none" for a bare name, "skip"    *)
(* for machine and service accounts, which are left as they are.           *)
(***************************************************************************)
ParsedOf(accounts) == {a \in accounts : a.kind # "skip"}
DnsRealms(accounts) == Internal \cup {a.realm : a \in {p \in ParsedOf(accounts) : p.kind = "dns"}}

TheOnly(realms, otherwise) == IF Cardinality(realms) = 1 THEN CHOOSE r \in realms : TRUE ELSE otherwise

(* A NetBIOS name is the one known DNS realm that starts with it, else itself. *)
realmOf(a, accounts) ==
    CASE a.kind = "dns" -> a.realm
      [] a.kind = "netbios" -> TheOnly({d \in DnsRealms(accounts) : FirstLabel[d] = a.realm}, a.realm)
      [] OTHER -> ""

isInternal(realm) == realm \in Internal \/ \E d \in Internal : <<realm, d>> \in SubdomainOf
realmsByName(name, accounts) ==
    {realmOf(p, accounts) : p \in {q \in ParsedOf(accounts) : q.name = name}} \ {""}

(* A bare name joins a realm when only one has it, or when only one internal one has. *)
RealmAmong(candidates) == TheOnly(candidates, TheOnly({r \in candidates : isInternal(r)}, ""))
resolveUsers(a, accounts) ==
    LET own == realmOf(a, accounts)
    IN  [name |-> a.name, realm |-> IF a.kind = "skip" THEN a.realm
                                    ELSE IF own # "" THEN own ELSE RealmAmong(realmsByName(a.name, accounts))]

(***************************************************************************)
(* Which chain a finding belongs to                                        *)
(***************************************************************************)
chainCoverage(c) == c.seeds \cup c.steps
HigherScore(c, d) == c.score > d.score \/ (c.score = d.score /\ c.pos < d.pos)

(* Its own row by its key, another finding by its rows; the chain with the higher score takes it. *)
Takers(f, chains) ==
    IF f.rule = "chain" THEN {c \in chains : c.id = f.chain}
    ELSE IF f.unlinked \/ f.refs = {} \/ Cardinality(f.refs) > MAX_MEMBER_REFS THEN {}
    ELSE {c \in chains : \A r \in f.refs : <<f.source, r>> \in chainCoverage(c)}
TheBest(takers) == IF takers = {} THEN {} ELSE {Ranked(takers, HigherScore).id}
chainMembership(f, chains) == TheBest(Takers(f, chains))

(***************************************************************************)
(* Incidents                                                               *)
(***************************************************************************)
(* All false positive; any escalated; all handled; else new. *)
StatusOf(statuses) ==
    CASE statuses = {"false_positive"} -> "false_positive"
      [] "escalated" \in statuses -> "escalated"
      [] statuses \subseteq {"reviewed", "false_positive"} -> "reviewed"
      [] OTHER -> "new"
deriveStatus(members) == StatusOf({f.status : f \in members})

(* The worse severity, then more rows, then the earlier. *)
Place(f) == <<sevRank(effectiveSeverity(f)), -f.count, IF f.ts = NoTime THEN 0 ELSE f.ts, f.id>>
Less(a, b) == \E i \in DOMAIN a : a[i] < b[i] /\ \A j \in 1..i - 1 : a[j] = b[j]
Sooner(f, g) == Less(Place(f), Place(g))

(* A member marked false positive decides neither the severity nor the headline. *)
FirstOf(active, members) == Ranked(IF active # {} THEN active ELSE members, Sooner)
leadOf(members) == FirstOf({f \in members : f.status # "false_positive"}, members)

Incident(key, kind, members, lead, times) ==
    [key |-> key, kind |-> kind, findings |-> members, lead |-> lead,
     severity |-> effectiveSeverity(lead), status |-> deriveStatus(members),
     rules |-> {f.rule : f \in members}, refs |-> UNION {f.refs : f \in members},
     ts |-> IF times = {} THEN NoTime ELSE Min(times),
     tsEnd |-> IF times = {} THEN NoTime ELSE Max({Ends(f) : f \in members}),
     source |-> IF Cardinality({f.source : f \in members}) = 1 THEN lead.source ELSE "mixed"]
finish(key, kind, members) ==
    Incident(key, kind, members, leadOf(members), {f.ts : f \in members} \ {NoTime})

(* A chain's incident is led by the chain's own row and has the chain's severity. *)
LedBy(inc, own, severity) ==
    [inc EXCEPT !.severity = severity, !.lead = IF own = {} THEN @ ELSE Ranked(own, Sooner)]
ChainIncident(c, members, severity) ==
    LedBy(finish(<<"chain", c.id>>, "chain", members), {f \in members : f.rule = "chain"}, severity)

(* user before host before address; several values in one field are nobody's. *)
primaryEntity(f) ==
    CASE f.user # NoUser -> "user" [] f.user = NoUser /\ f.host # "" -> "host"
      [] f.user = NoUser /\ f.host = "" /\ f.ip # "" -> "ip" [] OTHER -> "none"

EntityKey(f, accounts) ==
    LET field == primaryEntity(f)
    IN  <<field, IF field = "user" THEN resolveUsers(f.user, accounts)
                 ELSE [name |-> IF field = "host" THEN f.host ELSE f.ip, realm |-> ""]>>

(* The findings of one entity, oldest first: a cluster goes on while the next one starts no later
   than Gap after the latest end in it, and so one that starts later than that after all before it
   begins the next. *)
ByTime(f, g) == f.ts < g.ts \/ (f.ts = g.ts /\ f.id < g.id)
Openers_Faulty(timed) == \* faulty: the cluster ends where its last finding ends
    {f \in timed : \A g \in timed :
        ByTime(g, f) /\ (\A h \in timed : ~(ByTime(g, h) /\ ByTime(h, f))) => Ends(g) + Gap < f.ts}

Openers(timed) == {f \in timed : \A g \in timed : ByTime(g, f) => Ends(g) + Gap < f.ts}

(* The cluster a finding is in: how many have begun. *)
NumberOf(f, openers) == Cardinality({g \in openers : g = f \/ ByTime(g, f)})
Clusters(timed) ==
    LET Of(openers) == [n \in 1 .. Cardinality(openers) |-> {f \in timed : NumberOf(f, openers) = n}]
    IN  Of(Openers(timed))

(* An incident of an entity is named by its place among the entity's: 1, 2, ...; 0 without a time. *)
Named(key, n) == <<key[1], key[2], n>>
Numbered(key, clusters) == {finish(Named(key, n), "entity", clusters[n]) : n \in DOMAIN clusters}
EntityIncidents(key, items) ==
    LET untimed == {f \in items : f.ts = NoTime}
    IN  Numbered(key, Clusters(items \ untimed))
            \cup (IF untimed = {} THEN {} ELSE {finish(Named(key, 0), "entity", untimed)})
ByEntity(items, accounts) ==
    LET Of(keyOf) == UNION {EntityIncidents(key, {f \in items : keyOf[f] = key}) : key \in Range(keyOf)}
    IN  Of([f \in items |-> EntityKey(f, accounts)])

ByMail(mails) ==
    {finish(<<"mail", refs>>, "mail", {f \in mails : f.refs = refs}) : refs \in {f.refs : f \in mails}}

(* Of the findings of no chain: those of one mail, those of an entity, the others one by one. *)
OneMail(f) == f.source = "mails" /\ Cardinality(f.refs) = 1
HasEntity(f) == f.source = "events" /\ primaryEntity(f) # "none"
FreeIncidents(free, accounts) ==
    ByMail({f \in free : OneMail(f)}) \cup ByEntity({f \in free : HasEntity(f)}, accounts)
        \cup {finish(<<"group", f.id>>, "group", {f}) : f \in {g \in free : ~OneMail(g) /\ ~HasEntity(g)}}

(* severityOf: the severity of a chain, the Review page's override or the chain's own. *)
buildIncidents(fs, chains, severityOf(_)) ==
    LET Of(chainOf) ==
            {ChainIncident(c, {f \in fs : c.id \in chainOf[f]}, severityOf(c)) :
                c \in {d \in chains : \E f \in fs : d.id \in chainOf[f]}}
            \cup FreeIncidents({f \in fs : chainOf[f] = {}},
                               {f.user : f \in {g \in fs : g.source = "events" /\ primaryEntity(g) = "user"}})
    IN  Of([f \in fs |-> chainMembership(f, chains)])

(***************************************************************************)
(* What to look at first: scores in thousandths of a point                 *)
(***************************************************************************)
SeverityPoints == [critical |-> 10, high |-> 6, medium |-> 3, low |-> 1, info |-> 0]
ConfidencePercent == [high |-> 100, none |-> 100, medium |-> 85, low |-> 70]
LogPercent == <<100, 169, 210, 239, 261, 279, 295, 308>> \* 1 + ln n

userKey(a) == IF a.kind = "skip" THEN {} ELSE {a.name}
usersOf(f) == userKey(f.user)
Ruled(fs) == {f \in fs : f.rule # "chain"}

(* What a decision is about: the rule and what it found; who and where only when it found nothing else. *)
decisionSignature(f) ==
    [rule |-> f.rule, what |-> f.what, where |-> IF f.what # {} THEN <<>> ELSE <<f.user, f.host, f.ip>>]
NamesNothing(f) == f.what = {} /\ f.user = NoUser /\ f.host = "" /\ f.ip = ""

(* The model's own decisions are not remembered. *)
pastDecisions(fs) ==
    {[signature |-> decisionSignature(f), status |-> f.status, at |-> f.at, id |-> f.id] :
        f \in {g \in Ruled(fs) : g.status \in {"false_positive", "escalated"} /\ g.by # "ai" /\ ~NamesNothing(g)}}

(* The hosts a rule fired on, of those of the case; or the users, for a finding without a host. *)
HostsOf(fs) == {f.host : f \in fs} \ {""}
UsersOf(fs) == UNION {usersOf(f) : f \in fs}
(* Seen in one place of three or more it weighs more, in half of them less. *)
RarityOf(seen, all) ==
    CASE all < 3 \/ seen = 0 -> 100
      [] all >= 3 /\ seen = 1 -> 150
      [] all >= 3 /\ seen > 1 /\ 2 * seen >= all -> 75
      [] OTHER -> 100
RarityAmong(f, of) ==
    IF f.rule = "chain" THEN 100
    ELSE IF f.host # "" THEN RarityOf(Cardinality(HostsOf({g \in of : g.rule = f.rule})), Cardinality(HostsOf(of)))
    ELSE IF usersOf(f) # {} THEN RarityOf(Cardinality(UsersOf({g \in of : g.rule = f.rule})), Cardinality(UsersOf(of)))
    ELSE 100
Rarity_Faulty(f, fs) == \* faulty: dismissed findings leave the count
    RarityAmong(f, Ruled({g \in fs : g.status # "false_positive" \/ g = f}))

Rarity(f, fs) == RarityAmong(f, Ruled(fs))

(* How many findings the rule raised in the same place; a folded one stands for those it folds. *)
Where(g) == <<g.host, IF g.host = "" THEN usersOf(g) ELSE {}>>
StandsFor(g) == {g.id} \X (1 .. g.folded)
Repeats(f, fs) ==
    IF f.rule = "chain" \/ Where(f) = <<"", {}>> THEN 1
    ELSE Lesser(Cardinality(UNION {StandsFor(g) : g \in {h \in Ruled(fs) : h.rule = f.rule /\ Where(h) = Where(f)}}),
                Len(LogPercent))

(* The other rules on the host or for the user around a finding; one finding speaks for each rule:
   the oldest on the host, else the oldest for the user. *)
Peer(g, fs) == g \in Ruled(fs) /\ g.ts # NoTime /\ g.status # "false_positive"
peersBy(f, fs) ==
    {g \in fs : Peer(g, fs) /\ ((g.host # "" /\ g.host = f.host) \/ usersOf(g) \cap usersOf(f) # {})}
Speaker(f, of) ==
    LET on == {g \in of : g.host # "" /\ g.host = f.host} IN Ranked(IF on # {} THEN on ELSE of, ByTime)
Spoken(f, around, rules) ==
    Lesser(6, Cardinality(rules)
                + Cardinality({Speaker(f, {g \in around : g.rule = r}).phase : r \in rules} \ {"none", f.phase}))
Heard(f, around) == Spoken(f, around, {g.rule : g \in around})
Corroboration(f, fs) ==
    IF f.ts = NoTime \/ f.rule = "chain" THEN 0
    ELSE Heard(f, {g \in peersBy(f, fs) : g.rule # f.rule /\ f.ts - Window <= g.ts /\ g.ts <= Ends(f) + Window})

(* The case's own dismissals of the rule on other entities, here and on other hosts. *)
Dismissals(f, fs) ==
    {g \in Ruled(fs) : /\ g.rule = f.rule /\ g.status = "false_positive" /\ g.by # "ai" /\ g.id # f.id
                       /\ NamesNothing(f) \/ decisionSignature(g) # decisionSignature(f)}
PastOn(f, fs) ==
    IF f.rule = "chain" \/ NamesNothing(f) THEN {}
    ELSE {d \in pastDecisions(fs) \cup Remembered : d.signature = decisionSignature(f) /\ d.id # f.id}

Percent(x, p) == (x * p) \div 100
Repeated(x, n, p) == LET left[i \in 0 .. n] == IF i = 0 THEN x ELSE Percent(left[i - 1], p) IN left[n]

Weight(f, fs) ==
    Percent(Percent(Percent(1000 * SeverityPoints[effectiveSeverity(f)], ConfidencePercent[f.conf]),
                    IF f.rule = "chain" THEN 100 ELSE Trust[f.rule]), Rarity(f, fs))
Lessened(points, all, here) == Repeated(Repeated(points, here, 50), all - here, 80)
Dismissed(points, f, dismissals) ==
    IF f.status = "new"
    THEN Lessened(points, Cardinality(dismissals), Cardinality({g \in dismissals : f.host # "" /\ g.host = f.host}))
    ELSE points
Remembering(points, before) ==
    IF before = {} THEN points
    ELSE IF (CHOOSE d \in before : \A e \in before : e.at <= d.at).status = "false_positive"
         THEN Percent(points, 25) ELSE points + 5000
scoreFindings(f, fs) ==
    Remembering(Dismissed((Weight(f, fs) * 100) \div LogPercent[Repeats(f, fs)] + 1000 * Corroboration(f, fs),
                          f, Dismissals(f, fs)),
                PastOn(f, fs))
==============================================================================
