---------------------------- MODULE Findings_proofs ----------------------------
(***************************************************************************)
(* What the browser's findings keep through rule runs, folding, imports    *)
(* and removals: their form, the analyst's decisions, and that they cite   *)
(* the rows the rules match.                                               *)
(***************************************************************************)
EXTENDS Findings, FiniteSetTheorems, SequenceTheorems, TLAPS

(***************************************************************************)
(* Kinds of findings and their keys                                        *)
(***************************************************************************)
Statuses == {"new", "false_positive"}
Rules == Rule \cup {"engine"}
Hosts == {HostOf[x] : x \in Record}

(* The keys folding makes. *)
FoldKeys(rule) == {<<rule, h>> : h \in Hosts} \cup {<<rule, h, q>> : h \in Hosts, q \in Row}

(* A finding has these fields and no other. *)
IsFinding(f) == f = [rule |-> f.rule, key |-> f.key, refs |-> f.refs, keyed |-> f.keyed,
                     status |-> f.status, n |-> f.n]

(* Raised on one row, whose record was read; folded from several. *)
OnRow(f, q) == f.key = <<f.rule, q>> /\ f.refs = {q} /\ f.keyed = {q}
Several(f) == f.key \in FoldKeys(f.rule) /\ f.refs \subseteq Row /\ f.refs # {}

(* What a run finds on a row. *)
FoundOn(rule, q) == [rule |-> rule, key |-> <<rule, q>>, refs |-> {q}, keyed |-> {q}, status |-> "new", n |-> 1]

(* Every finding is an engine's, or one of a rule on a row or on several. *)
Formed(fs) == \A f \in fs :
    /\ IsFinding(f) /\ f.rule \in Rules /\ f.status \in Statuses /\ f.key[1] = f.rule
    /\ f.rule \in Rule => Several(f) \/ \E q \in Row : OnRow(f, q)

(* The record of a finding on one row is in no other finding of its rule. *)
Apart(fs) == \A f, g \in fs : \A q \in Row : \A p \in g.refs :
    f.rule \in Rule /\ f.rule = g.rule /\ OnRow(f, q) /\ p.rec = q.rec => f = g

(* The analyst's latest decision on a key, and what an archive has of it. *)
Last(dec, k) == IF k \in DOMAIN dec THEN dec[k] ELSE "new"
Of(saved, k) == IF k \in DOMAIN saved THEN saved[k].status ELSE "new"

(* The findings fs carry the decisions dec. *)
Standing(fs, dec) == \A f \in fs : f.rule \in Rule =>
    /\ \A q \in Row : OnRow(f, q) => f.status = Last(dec, <<f.rule, q.rec>>)
    /\ Several(f) => \A q \in f.refs : Last(dec, <<f.rule, q.rec>>) = "new"

(* An archived decision is one, under the record of the row it was taken on or under a folded key. *)
Entry(k, it) ==
    /\ it.key[1] = k[1]
    /\ k[1] \in Rule =>
          /\ it.status = "false_positive"
          /\ \/ \E q \in Row : k = <<k[1], q.rec>> /\ it.key = <<k[1], q>>
             \/ k \in FoldKeys(k[1]) /\ it.key = k
Entries(saved) == \A k \in DOMAIN saved : Entry(k, saved[k])

(* A record no finding of the rule is about. *)
Gone(fs, rule, x) == \A f \in fs, q \in Row : ~(f.rule = rule /\ OnRow(f, q) /\ q.rec = x)

(* The archive has the decision on a record whose finding is gone. *)
Remembered(fs, saved, dec) == \A rule \in Rule, x \in Record :
    Gone(fs, rule, x) => Of(saved, <<rule, x>>) = Last(dec, <<rule, x>>)

(* The undecided findings of these rules have left the archive. *)
Fresh(fs, saved, rules) == \A f \in fs, q \in Row :
    f.rule \in rules /\ OnRow(f, q) /\ f.status = "new" => Of(saved, <<f.rule, q.rec>>) = "new"

(***************************************************************************)
(* Lemmas about keys                                                       *)
(***************************************************************************)
(* Records, rows and hosts are told apart. *)
LEMMA NamesApart ==
    /\ \A x \in Record, q \in Row : x # q
    /\ \A h \in Hosts : h \notin Record /\ h \notin Row
    /\ "engine" \notin Rule
    /\ \A q \in Row : q.rec \in Record
  BY NamesAssumption DEF Hosts, Row

(* A folded key is neither a row's nor a record's. *)
LEMMA FoldKeysApart ==
    ASSUME NEW rule, NEW k \in FoldKeys(rule)
    PROVE  /\ k[1] = rule
           /\ \A other : \A q \in Row : k # <<other, q>>
           /\ \A other : \A x \in Record : k # <<other, x>>
  <1>1. CASE \E h \in Hosts : k = <<rule, h>>
    <2>1. PICK h \in Hosts : k = <<rule, h>>
      BY <1>1
    <2>2. k[1] = rule /\ k[2] = h
      BY <2>1
    <2> QED
      BY <2>2, NamesApart
  <1>2. CASE \E h \in Hosts, p \in Row : k = <<rule, h, p>>
    <2>1. PICK h \in Hosts, p \in Row : k = <<rule, h, p>>
      BY <1>2
    <2>2. k[1] = rule /\ k[2] = h
      BY <2>1
    <2> QED
      BY <2>2, NamesApart
  <1> QED
    BY <1>1, <1>2 DEF FoldKeys

(* The names of a finding on one row. *)
LEMMA OnRowNames ==
    ASSUME NEW f, NEW q \in Row, OnRow(f, q)
    PROVE  /\ AboutOneRow(f) /\ ~Several(f)
           /\ Subject(f) = <<f.rule, q.rec>> /\ reviewKey(f) = <<f.rule, q.rec>>
           /\ Host(f) = HostOf[q.rec]
  <1>1. f.key = <<f.rule, q>> /\ f.refs = {q} /\ f.keyed = {q}
    BY DEF OnRow
  <1>2. AboutOneRow(f)
    BY <1>1 DEF AboutOneRow
  <1>3. (CHOOSE r \in f.refs : TRUE) = q
    BY <1>1
  <1>4. ~Several(f)
    BY <1>1, FoldKeysApart DEF Several
  <1> QED
    BY <1>1, <1>2, <1>3, <1>4 DEF Subject, reviewKey, Host

(* The names of a folded finding. *)
LEMMA SeveralNames ==
    ASSUME NEW f, Several(f)
    PROVE  /\ ~AboutOneRow(f) /\ Subject(f) = f.key /\ reviewKey(f) = f.key
           /\ Host(f) \in Hosts
  <1>1. \A q \in Row : f.key # <<f.rule, q>>
    <2>1. f.key \in FoldKeys(f.rule)
      BY DEF Several
    <2> QED
      BY <2>1, FoldKeysApart
  <1>2. (CHOOSE r \in f.refs : TRUE) \in f.refs
    BY DEF Several
  <1>3. ~AboutOneRow(f)
    BY <1>1 DEF AboutOneRow, Several
  <1>4. Subject(f) = f.key
    BY <1>3 DEF Subject
  <1>5. reviewKey(f) = f.key
    BY <1>1, <1>2 DEF reviewKey, Several
  <1>6. Host(f) \in Hosts
    BY <1>2, NamesApart DEF Host, Hosts, Several
  <1> QED
    BY <1>3, <1>4, <1>5, <1>6

(* A key of a finding or of its decision begins with the rule. *)
LEMMA KeyOfRule ==
    ASSUME NEW f, f.key[1] = f.rule
    PROVE  reviewKey(f)[1] = f.rule /\ Subject(f)[1] = f.rule
  BY DEF reviewKey, Subject

(* What is archived under the key of a record is a finding's on a row of it. *)
LEMMA RecordKey ==
    ASSUME NEW fs, Formed(fs), NEW f \in fs, NEW rule \in Rule, NEW x \in Record
    PROVE  /\ reviewKey(f) = <<rule, x>> <=> f.rule = rule /\ \E q \in Row : OnRow(f, q) /\ q.rec = x
           /\ f.key # <<rule, x>> \/ f.rule \notin Rule
  <1>1. f.key[1] = f.rule /\ reviewKey(f)[1] = f.rule
    BY KeyOfRule DEF Formed
  <1>2. <<rule, x>>[1] = rule /\ <<rule, x>>[2] = x
    OBVIOUS
  <1>3. ASSUME f.rule # rule PROVE reviewKey(f) # <<rule, x>> /\ f.key # <<rule, x>>
    BY <1>1, <1>2, <1>3
  <1>4. ASSUME f.rule = rule, NEW q \in Row, OnRow(f, q)
        PROVE  (reviewKey(f) = <<rule, x>> <=> \E p \in Row : OnRow(f, p) /\ p.rec = x) /\ f.key # <<rule, x>>
    <2>1. reviewKey(f) = <<f.rule, q.rec>>
      BY <1>4, OnRowNames
    <2>2. f.key = <<f.rule, q>> /\ f.refs = {q}
      BY <1>4 DEF OnRow
    <2>3. \A p \in Row : OnRow(f, p) => p = q
      BY <2>2 DEF OnRow
    <2>4. <<f.rule, q.rec>> = <<rule, x>> <=> q.rec = x
      BY <1>4
    <2>5. f.key # <<rule, x>>
      BY <2>2, NamesApart
    <2> QED
      BY <1>4, <2>1, <2>3, <2>4, <2>5
  <1>5. ASSUME f.rule = rule, Several(f)
        PROVE  reviewKey(f) # <<rule, x>> /\ f.key # <<rule, x>> /\ ~\E p \in Row : OnRow(f, p)
    <2>1. reviewKey(f) = f.key
      BY <1>5, SeveralNames
    <2>2. f.key \in FoldKeys(f.rule)
      BY <1>5 DEF Several
    <2>3. f.key # <<rule, x>>
      BY <2>2, FoldKeysApart
    <2>4. ~\E p \in Row : OnRow(f, p)
      BY <1>5, OnRowNames
    <2> QED
      BY <2>1, <2>3, <2>4
  <1>6. f.rule \in Rule => Several(f) \/ \E q \in Row : OnRow(f, q)
    BY DEF Formed
  <1> QED
    BY <1>3, <1>4, <1>5, <1>6

(***************************************************************************)
(* Lemmas about the archive                                                *)
(***************************************************************************)
(* What rememberReviews keeps of a decided finding, forgets of an undecided one, and leaves alone. *)
LEMMA ArchivedOf ==
    ASSUME NEW fs, NEW saved, NEW k
    PROVE  LET new == Archived(fs, saved)
           IN  /\ (\E g \in fs : reviewKey(g) = k /\ decided(g)) =>
                     /\ k \in DOMAIN new
                     /\ \E g \in fs : /\ reviewKey(g) = k /\ decided(g)
                                      /\ new[k].key = g.key /\ new[k].status = g.status
               /\ (~\E g \in fs : reviewKey(g) = k /\ decided(g)) =>
                     /\ k \in DOMAIN new => k \in DOMAIN saved /\ new[k] = saved[k]
                     /\ (\E g \in fs : reviewKey(g) = k) => k \notin DOMAIN new
                     /\ (~\E g \in fs : g.key = k \/ reviewKey(g) = k) /\ k \in DOMAIN saved => k \in DOMAIN new
  <1> DEFINE dropped == {f.key : f \in {g \in fs : reviewKey(g) # g.key}}
                           \cup {reviewKey(f) : f \in {g \in fs : ~decided(g)}}
             kept == {reviewKey(f) : f \in {g \in fs : decided(g)}}
             one(j) == CHOOSE g \in fs : reviewKey(g) = j /\ decided(g)
             all == (DOMAIN saved \ dropped) \cup kept
             it == [j \in all |-> IF j \in kept THEN [key |-> one(j).key, status |-> one(j).status] ELSE saved[j]]
  <1>1. Archived(fs, saved) = it
    BY DEF Archived
  <1>2. k \in kept <=> \E g \in fs : reviewKey(g) = k /\ decided(g)
    OBVIOUS
  <1>3. k \in dropped <=> \/ \E g \in fs : reviewKey(g) # g.key /\ g.key = k
                          \/ \E g \in fs : ~decided(g) /\ reviewKey(g) = k
    OBVIOUS
  <1>4. k \in DOMAIN it <=> k \in kept \/ (k \in DOMAIN saved /\ k \notin dropped)
    OBVIOUS
  <1>5. ASSUME k \in kept
        PROVE  /\ it[k].key = one(k).key /\ it[k].status = one(k).status
               /\ one(k) \in fs /\ reviewKey(one(k)) = k /\ decided(one(k))
    BY <1>2, <1>5
  <1>6. ASSUME k \in DOMAIN it, k \notin kept PROVE it[k] = saved[k]
    BY <1>6
  <1> HIDE DEF it, kept, dropped, one
  <1>7. CASE k \in kept
    BY <1>1, <1>2, <1>4, <1>5, <1>7
  <1>8. CASE k \notin kept
    BY <1>1, <1>2, <1>3, <1>4, <1>6, <1>8
  <1> QED
    BY <1>7, <1>8

(* The archive of well-formed findings is well formed. *)
LEMMA ArchivedEntries ==
    ASSUME NEW fs, NEW saved, Formed(fs), Entries(saved)
    PROVE  Entries(Archived(fs, saved))
  <1> DEFINE new == Archived(fs, saved)
  <1> SUFFICES ASSUME NEW k \in DOMAIN new PROVE Entry(k, new[k])
    BY DEF Entries
  <1>1. CASE \E g \in fs : reviewKey(g) = k /\ decided(g)
    <2>1. \E g \in fs : reviewKey(g) = k /\ decided(g) /\ new[k].key = g.key /\ new[k].status = g.status
      BY <1>1, ArchivedOf
    <2> HIDE DEF new
    <2>2. PICK g \in fs : reviewKey(g) = k /\ decided(g) /\ new[k].key = g.key /\ new[k].status = g.status
      BY <2>1
    <2>3. new[k].status = g.status /\ new[k].key = g.key
      BY <2>2
    <2>4. g.status \in Statuses /\ g.key[1] = g.rule /\ g.rule \in Rules
      BY DEF Formed
    <2>5. new[k].status = "false_positive"
      BY <2>2, <2>3, <2>4 DEF decided, Statuses
    <2>6. g.rule = k[1]
      BY <2>2, <2>4, KeyOfRule
    <2>7. g.rule \in Rule => Several(g) \/ \E q \in Row : OnRow(g, q)
      BY DEF Formed
    <2>8. ASSUME Several(g) PROVE k \in FoldKeys(k[1]) /\ new[k].key = k
      BY <2>2, <2>3, <2>6, <2>8, SeveralNames DEF Several
    <2>9. ASSUME NEW q \in Row, OnRow(g, q) PROVE k = <<k[1], q.rec>> /\ new[k].key = <<k[1], q>>
      BY <2>2, <2>3, <2>6, <2>9, OnRowNames DEF OnRow
    <2> QED
      BY <2>3, <2>4, <2>5, <2>6, <2>7, <2>8, <2>9 DEF Entry
  <1>2. CASE ~\E g \in fs : reviewKey(g) = k /\ decided(g)
    <2>1. k \in DOMAIN saved /\ new[k] = saved[k]
      BY <1>2, ArchivedOf
    <2> QED
      BY <2>1 DEF Entries
  <1> QED
    BY <1>1, <1>2

(* What the archive has of a record afterwards: what its finding says, or what it had. *)
LEMMA ArchivedRecord ==
    ASSUME NEW fs, NEW saved, Formed(fs), Apart(fs), NEW rule \in Rule, NEW x \in Record
    PROVE  /\ \A f \in fs, q \in Row : f.rule = rule /\ OnRow(f, q) /\ q.rec = x =>
                 Of(Archived(fs, saved), <<rule, x>>) = f.status
           /\ Gone(fs, rule, x) => Of(Archived(fs, saved), <<rule, x>>) = Of(saved, <<rule, x>>)
  <1> DEFINE k == <<rule, x>>
             new == Archived(fs, saved)
  <1>1. \A f \in fs : reviewKey(f) = k <=> f.rule = rule /\ \E q \in Row : OnRow(f, q) /\ q.rec = x
    BY RecordKey
  <1>2. \A f \in fs : f.key # k
    <2> SUFFICES ASSUME NEW f \in fs PROVE f.key # k
      OBVIOUS
    <2>1. f.key[1] = f.rule
      BY DEF Formed
    <2>2. k[1] = rule
      OBVIOUS
    <2> QED
      BY <2>1, <2>2, RecordKey
  <1> HIDE DEF k
  <1>3. ASSUME NEW f \in fs, NEW q \in Row, f.rule = rule, OnRow(f, q), q.rec = x
        PROVE  Of(new, k) = f.status
    <2>1. reviewKey(f) = k
      BY <1>1, <1>3
    <2>2. \A g \in fs : reviewKey(g) = k => g = f
      <3> SUFFICES ASSUME NEW g \in fs, reviewKey(g) = k PROVE g = f
        OBVIOUS
      <3>1. PICK p \in Row : g.rule = rule /\ OnRow(g, p) /\ p.rec = x
        BY <1>1
      <3>2. p \in g.refs
        BY <3>1 DEF OnRow
      <3> QED
        BY <1>3, <3>1, <3>2 DEF Apart
    <2>3. CASE decided(f)
      <3>1. PICK g \in fs : reviewKey(g) = k /\ k \in DOMAIN new /\ new[k].status = g.status
        BY <2>1, <2>3, ArchivedOf
      <3>2. new[k].status = f.status
        BY <2>2, <3>1
      <3> QED
        BY <3>1, <3>2 DEF Of
    <2>4. CASE ~decided(f)
      <3>1. ~\E g \in fs : reviewKey(g) = k /\ decided(g)
        BY <2>2, <2>4
      <3>2. k \notin DOMAIN new
        BY <2>1, <3>1, ArchivedOf
      <3> QED
        BY <2>4, <3>2 DEF Of, decided
    <2> QED
      BY <2>3, <2>4
  <1>4. ASSUME Gone(fs, rule, x)
        PROVE  Of(new, k) = Of(saved, k)
    <2>1. \A g \in fs : reviewKey(g) # k
      BY <1>1, <1>4 DEF Gone
    <2>2. k \in DOMAIN new <=> k \in DOMAIN saved
      BY <1>2, <2>1, ArchivedOf
    <2>3. k \in DOMAIN new => new[k] = saved[k]
      BY <2>1, ArchivedOf
    <2> QED
      BY <2>2, <2>3 DEF Of
  <1> QED
    BY <1>3, <1>4 DEF k

(***************************************************************************)
(* Lemmas about what a run gives back and folds                            *)
(***************************************************************************)
(* What a run found on a row is a finding on that row. *)
LEMMA FoundIsOnRow ==
    ASSUME NEW rule \in Rule, NEW q \in Row
    PROVE  LET f == FoundOn(rule, q)
           IN  /\ IsFinding(f) /\ OnRow(f, q) /\ f.rule = rule /\ f.status = "new"
               /\ reviewKey(f) = <<rule, q.rec>> /\ f.key = <<rule, q>> /\ Host(f) = HostOf[q.rec]
  <1> DEFINE f == FoundOn(rule, q)
  <1>1. /\ f.rule = rule /\ f.key = <<rule, q>> /\ f.refs = {q} /\ f.keyed = {q}
        /\ f.status = "new" /\ IsFinding(f)
    BY DEF FoundOn, IsFinding
  <1> HIDE DEF f
  <1>2. OnRow(f, q)
    BY <1>1 DEF OnRow
  <1>3. reviewKey(f) = <<rule, q.rec>> /\ Host(f) = HostOf[q.rec]
    BY <1>1, <1>2, OnRowNames
  <1> QED
    BY <1>1, <1>2, <1>3 DEF f

(* The earlier decision a run finds for a row of one of its rules is the analyst's latest on the record,
   and where it finds none there was none. *)
LEMMA PreviousIsLast ==
    ASSUME NEW fs, NEW saved, NEW dec, Formed(fs), Standing(fs, dec), Entries(saved),
           NEW rule \in Rule, NEW q \in Row,
           Gone(fs, rule, q.rec) => Of(saved, <<rule, q.rec>>) = Last(dec, <<rule, q.rec>>)
    PROVE  LET was == PreviousOf(FoundOn(rule, q), fs, saved)
               last == Last(dec, <<rule, q.rec>>)
           IN  was = {last} \/ (was = {} /\ last = "new")
  <1> DEFINE x == q.rec
             k == <<rule, x>>
             last == Last(dec, <<rule, x>>)
             now(j) == {f \in fs : f.key = j \/ reviewKey(f) = j}
             alias(j) == {a \in DOMAIN saved : saved[a].key = j}
             f0 == FoundOn(rule, q)
  <1>1. reviewKey(f0) = k /\ f0.key = <<rule, q>> /\ x \in Record
    BY FoundIsOnRow, NamesApart
  <1>2. \A f \in fs : f.key # k /\ (reviewKey(f) = k <=> f.rule = rule /\ \E p \in Row : OnRow(f, p) /\ p.rec = x)
    <2> SUFFICES ASSUME NEW f \in fs
                 PROVE  f.key # k /\ (reviewKey(f) = k <=> f.rule = rule /\ \E p \in Row : OnRow(f, p) /\ p.rec = x)
      OBVIOUS
    <2>1. f.key[1] = f.rule
      BY DEF Formed
    <2>2. k[1] = rule
      OBVIOUS
    <2> QED
      BY <1>1, <2>1, <2>2, RecordKey
  <1>3. ASSUME now(k) # {} PROVE PreviousOf(f0, fs, saved) = {last}
    <2>1. \A f \in now(k) : f.status = last
      BY <1>2 DEF Standing
    <2>2. (CHOOSE f \in now(k) : TRUE).status = last
      BY <1>3, <2>1
    <2>3. Previous(k, fs, saved) = {last}
      BY <1>3, <2>2 DEF Previous
    <2> QED
      BY <1>1, <2>3 DEF PreviousOf
  <1>4. ASSUME now(k) = {}, k \in DOMAIN saved PROVE PreviousOf(f0, fs, saved) = {last}
    <2>1. Gone(fs, rule, x)
      BY <1>2, <1>4 DEF Gone
    <2>2. saved[k].status = last
      BY <1>4, <2>1 DEF Of
    <2>3. Previous(k, fs, saved) = {last}
      BY <1>4, <2>2 DEF Previous
    <2> QED
      BY <1>1, <2>3 DEF PreviousOf
  <1>5. ASSUME now(k) = {}, k \notin DOMAIN saved PROVE PreviousOf(f0, fs, saved) = {} /\ last = "new"
    <2>1. Gone(fs, rule, x)
      BY <1>2, <1>5 DEF Gone
    <2>2. last = "new"
      BY <1>5, <2>1 DEF Of
    <2>3. \A a \in DOMAIN saved : saved[a].key # k /\ saved[a].key # <<rule, q>>
      <3> SUFFICES ASSUME NEW a \in DOMAIN saved PROVE saved[a].key # k /\ saved[a].key # <<rule, q>>
        OBVIOUS
      <3>1. Entry(a, saved[a])
        BY DEF Entries
      <3>2. CASE saved[a].key[1] # rule
        BY <3>2
      <3>3. CASE saved[a].key[1] = rule /\ \E p \in Row : a = <<a[1], p.rec>> /\ saved[a].key = <<a[1], p>>
        <4>1. PICK p \in Row : a = <<rule, p.rec>> /\ saved[a].key = <<rule, p>>
          BY <3>1, <3>3 DEF Entry
        <4>2. p # q
          BY <1>5, <4>1
        <4>3. p # x
          BY <1>1, NamesApart
        <4> QED
          BY <4>1, <4>2, <4>3
      <3>4. CASE saved[a].key[1] = rule /\ a \in FoldKeys(a[1]) /\ saved[a].key = a
        BY <1>1, <3>4, FoldKeysApart
      <3> QED
        BY <3>1, <3>2, <3>3, <3>4 DEF Entry
    <2>4. <<rule, q>> \notin DOMAIN saved
      <3>1. <<rule, q>>[1] = rule /\ \A p \in Row : p.rec # q
        BY NamesApart
      <3>2. Entry(<<rule, q>>, saved[<<rule, q>>]) => <<rule, q>> \in FoldKeys(rule)
        BY <3>1 DEF Entry
      <3>3. <<rule, q>> \notin FoldKeys(rule)
        BY FoldKeysApart
      <3> QED
        BY <3>2, <3>3 DEF Entries
    <2>5. now(<<rule, q>>) = {}
      <3> SUFFICES ASSUME NEW f \in fs, f.key = <<rule, q>> \/ reviewKey(f) = <<rule, q>> PROVE FALSE
        OBVIOUS
      <3>1. f.rule = rule
        BY KeyOfRule DEF Formed
      <3>2. CASE Several(f)
        BY <3>1, <3>2, SeveralNames, FoldKeysApart DEF Several
      <3>3. ASSUME NEW p \in Row, OnRow(f, p) PROVE FALSE
        <4>1. f.key = <<rule, p>> /\ reviewKey(f) = <<rule, p.rec>>
          BY <3>1, <3>3, OnRowNames DEF OnRow
        <4>2. p.rec # q
          BY NamesApart
        <4>3. p = q
          BY <4>1, <4>2
        <4> QED
          BY <1>2, <1>5, <3>1, <3>3, <4>3
      <3> QED
        BY <3>1, <3>2, <3>3 DEF Formed
    <2>6. Previous(k, fs, saved) = {} /\ Previous(<<rule, q>>, fs, saved) = {}
      BY <1>5, <2>3, <2>4, <2>5 DEF Previous
    <2> QED
      BY <1>1, <2>2, <2>6 DEF PreviousOf
  <1> QED
    BY <1>3, <1>4, <1>5

(* One finding per rule and host of those that fold. *)
Group(fs, rule, h) == {f \in fs : f.rule = rule /\ Host(f) = h}
FoldAt(fs, rule, h) == IF Cardinality(Group(fs, rule, h)) = 1 THEN CHOOSE f \in Group(fs, rule, h) : TRUE
                                                              ELSE Folded(rule, h, Group(fs, rule, h))

(* What folding leaves, finding by finding. *)
LEMMA FoldsAre ==
    ASSUME NEW fs
    PROVE  /\ \A m \in Folds(fs) : \E f \in fs : m = FoldAt(fs, f.rule, Host(f))
           /\ \A f \in fs : FoldAt(fs, f.rule, Host(f)) \in Folds(fs)
  <1> DEFINE places == {<<f.rule, Host(f)>> : f \in fs}
  <1>1. Folds(fs) = {FoldAt(fs, p[1], p[2]) : p \in places}
    BY DEF Folds, FoldAt, Group
  <1>2. ASSUME NEW f \in fs
        PROVE  <<f.rule, Host(f)>> \in places /\ <<f.rule, Host(f)>>[1] = f.rule /\ <<f.rule, Host(f)>>[2] = Host(f)
    OBVIOUS
  <1>3. ASSUME NEW m \in Folds(fs)
        PROVE  \E f \in fs : m = FoldAt(fs, f.rule, Host(f))
    <2>1. PICK p \in places : m = FoldAt(fs, p[1], p[2])
      BY <1>1, <1>3
    <2>2. PICK f \in fs : p = <<f.rule, Host(f)>>
      BY <2>1
    <2>3. p[1] = f.rule /\ p[2] = Host(f)
      BY <2>2
    <2> QED
      BY <2>1, <2>3
  <1>4. ASSUME NEW f \in fs
        PROVE  FoldAt(fs, f.rule, Host(f)) \in Folds(fs)
    <2>1. PICK p \in places : p[1] = f.rule /\ p[2] = Host(f)
      BY <1>2, <1>4
    <2>2. FoldAt(fs, p[1], p[2]) \in Folds(fs)
      BY <1>1
    <2> QED
      BY <2>1, <2>2
  <1> QED
    BY <1>3, <1>4

(* A folded finding cites what its findings cite. *)
LEMMA FoldedIs ==
    ASSUME NEW rule, NEW h, NEW fs
    PROVE  LET m == Folded(rule, h, fs)
           IN  /\ IsFinding(m) /\ m.rule = rule /\ m.key = <<rule, h>> /\ m.status = "new"
               /\ m.refs = UNION {f.refs : f \in fs} /\ m.keyed = UNION {f.keyed : f \in fs}
  BY DEF Folded, IsFinding

(* Formed findings cite rows. *)
LEMMA FormedRefs ==
    ASSUME NEW fs, Formed(fs), NEW f \in fs, f.rule \in Rule
    PROVE  f.refs \subseteq Row /\ f.refs # {} /\ Host(f) \in Hosts
  <1>1. CASE Several(f)
    BY <1>1, SeveralNames DEF Several
  <1>2. ASSUME NEW q \in Row, OnRow(f, q)
        PROVE  f.refs \subseteq Row /\ f.refs # {} /\ Host(f) \in Hosts
    BY <1>2, OnRowNames, NamesApart DEF OnRow, Hosts
  <1> QED
    BY <1>1, <1>2 DEF Formed

(* What folding the findings ds of fs leaves: a finding as it was, or one on several rows that folds. *)
LEMMA FoldsKeep ==
    ASSUME NEW fs, NEW ds, ds \subseteq fs, Formed(fs), Apart(fs), \A f \in ds : f.rule \in Rule
    PROVE  LET all == (fs \ ds) \cup Folds(ds)
           IN  /\ Formed(all) /\ Apart(all)
               /\ \A m \in Folds(ds) :
                     \/ m \in ds
                     \/ /\ Several(m) /\ m.status = "new" /\ m.rule \in Rule
                        /\ \E h \in Hosts : m.key = <<m.rule, h>>
                        /\ \A q \in m.refs : \E f \in ds : f.rule = m.rule /\ q \in f.refs
  <1> DEFINE all == (fs \ ds) \cup Folds(ds)
  <1>1. ASSUME NEW m \in Folds(ds)
        PROVE  \E rule \in Rule, h \in Hosts :
                 /\ m = FoldAt(ds, rule, h)
                 /\ \/ m \in Group(ds, rule, h)
                    \/ /\ Several(m) /\ m.status = "new" /\ IsFinding(m) /\ m.rule = rule /\ m.key = <<rule, h>>
                       /\ \A q \in m.refs : \E f \in Group(ds, rule, h) : q \in f.refs
    <2>1. PICK f \in ds : m = FoldAt(ds, f.rule, Host(f))
      BY FoldsAre
    <2>2. f.rule \in Rule /\ Host(f) \in Hosts /\ f.refs # {} /\ f \in Group(ds, f.rule, Host(f))
      BY FormedRefs DEF Group
    <2> DEFINE G == Group(ds, f.rule, Host(f))
    <2>3. CASE Cardinality(G) = 1
      <3>1. m = CHOOSE g \in G : TRUE
        BY <2>1, <2>3 DEF FoldAt
      <3>2. m \in G
        BY <2>2, <3>1
      <3> QED
        BY <2>1, <2>2, <3>2
    <2>4. CASE Cardinality(G) # 1
      <3>1. m = Folded(f.rule, Host(f), G)
        BY <2>1, <2>4 DEF FoldAt
      <3>2. /\ IsFinding(m) /\ m.rule = f.rule /\ m.key = <<f.rule, Host(f)>> /\ m.status = "new"
            /\ m.refs = UNION {g.refs : g \in G}
        BY <3>1, FoldedIs
      <3>3. \A g \in G : g \in ds /\ g.refs \subseteq Row
        BY FormedRefs DEF Group
      <3>4. m.refs \subseteq Row /\ m.refs # {}
        BY <2>2, <3>2, <3>3
      <3>5. m.key \in FoldKeys(m.rule)
        BY <2>2, <3>2 DEF FoldKeys
      <3> QED
        BY <2>1, <2>2, <3>2, <3>4, <3>5 DEF Several
    <2> QED
      BY <2>3, <2>4
  <1>2. ASSUME NEW m \in Folds(ds), m \notin ds
        PROVE  /\ Several(m) /\ m.status = "new" /\ m.rule \in Rule /\ IsFinding(m)
               /\ \E h \in Hosts : m.key = <<m.rule, h>> /\ m = FoldAt(ds, m.rule, h)
               /\ \A q \in m.refs : \E f \in ds : f.rule = m.rule /\ q \in f.refs
    BY <1>1, <1>2 DEF Group
  <1>3. Formed(all)
    <2> SUFFICES ASSUME NEW m \in all
                 PROVE  /\ IsFinding(m) /\ m.rule \in Rules /\ m.status \in Statuses /\ m.key[1] = m.rule
                        /\ m.rule \in Rule => Several(m) \/ \E q \in Row : OnRow(m, q)
      BY DEF Formed
    <2>1. CASE m \in fs
      BY <2>1 DEF Formed
    <2>2. CASE m \in Folds(ds) /\ m \notin ds
      <3>1. m.key[1] = m.rule
        BY <1>2, <2>2
      <3> QED
        BY <1>2, <2>2, <3>1 DEF Rules, Statuses
    <2> QED
      BY <2>1, <2>2
  <1>4. Apart(all)
    <2> SUFFICES ASSUME NEW f \in all, NEW g \in all, NEW q \in Row, NEW p \in g.refs,
                        f.rule \in Rule, f.rule = g.rule, OnRow(f, q), p.rec = q.rec
                 PROVE  f = g
      BY DEF Apart
    <2>1. f \in fs
      BY <1>2, OnRowNames
    <2>2. CASE g \in fs
      BY <2>1, <2>2 DEF Apart
    <2>3. CASE g \in Folds(ds) /\ g \notin ds
      <3>1. PICK rule \in Rule, h \in Hosts :
               /\ g = FoldAt(ds, rule, h) /\ g.rule = rule
               /\ \A t \in g.refs : \E e \in Group(ds, rule, h) : t \in e.refs
        BY <1>1, <2>3 DEF Group
      <3>2. PICK e \in Group(ds, rule, h) : p \in e.refs
        BY <3>1
      <3>3. e \in fs /\ e \in ds /\ e.rule = rule /\ Host(e) = h
        BY <3>2 DEF Group
      <3>4. f = e
        BY <2>1, <3>1, <3>2, <3>3 DEF Apart
      <3>5. f \in Folds(ds)
        BY <3>3, <3>4
      <3>6. PICK rule2 \in Rule, h2 \in Hosts :
               f = FoldAt(ds, rule2, h2) /\ (f \in Group(ds, rule2, h2) \/ Several(f))
        BY <1>1, <3>5
      <3>7. f \in Group(ds, rule2, h2)
        BY <3>6, OnRowNames
      <3>8. rule2 = rule /\ h2 = h
        BY <3>3, <3>4, <3>7 DEF Group
      <3> QED
        BY <3>1, <3>6, <3>8
    <2> QED
      BY <2>2, <2>3
  <1> QED
    BY <1>2, <1>3, <1>4

(* Findings that change in other ways than what they are about stay apart. *)
LEMMA ImageApart ==
    ASSUME NEW fs, NEW to, Apart(fs),
           \A m \in fs : /\ to[m].rule = m.rule /\ to[m].refs = m.refs
                         /\ \A q \in Row : OnRow(to[m], q) => OnRow(m, q)
    PROVE  Apart({to[m] : m \in fs})
  <1> SUFFICES ASSUME NEW m \in fs, NEW o \in fs, NEW q \in Row, NEW p \in to[o].refs,
                      to[m].rule \in Rule, to[m].rule = to[o].rule, OnRow(to[m], q), p.rec = q.rec
               PROVE  to[m] = to[o]
    BY DEF Apart
  <1>1. m = o
    BY DEF Apart
  <1> QED
    BY <1>1

(***************************************************************************)
(* Rows, runs and findings are what they should be                         *)
(***************************************************************************)
FileStates == {"absent", "importing", "written", "present", "removed"}
Pcs == {"off", "load", "next", "store", "refold", "diags", "prune"}
Foundable == {FoundOn(rule, q) : rule \in Rule, q \in Row}
Runs == [pc : Pcs, level : {2, 5}, rules : SUBSET Rule, todo : SUBSET Rule, rule : SUBSET Rule,
         seen : SUBSET Row, found : SUBSET Foundable, failed : SUBSET Rule]

(* A record has one row at most, and none while its file is not in the case. *)
RowsKept ==
    /\ files \in [Evidence -> FileStates] /\ imports \in 0..MaxImports
    /\ rows \subseteq Row
    /\ \A q, p \in rows : q.rec = p.rec => q = p
    /\ \A e \in Evidence, q \in rows : q.rec \in RecordsOf[e] => files[e] \in {"written", "present"}

(* A run goes through its rules on rows the case has, and has found what the rule at hand matches. *)
RunKept(x, rs) ==
    /\ x.pc \in {"off", "load"} => x.rules = {} /\ x.seen = {}
    /\ x.todo \subseteq x.rules /\ x.rule \subseteq x.rules \ x.todo
    /\ x.seen \subseteq rs
    /\ x.pc = "next" => x.todo # {}
    /\ x.pc # "store" => x.rule = {}
    /\ x.pc = "store" => \E rule \in Rule :
          x.rule = {rule} /\ x.found = {FoundOn(rule, q) : q \in {p \in x.seen : p.rec \in Matches[rule]}}
    /\ x.pc \in {"refold", "diags", "prune"} => x.todo = {}

RunsKept(rn, rs) == rn \in [Reason -> Runs] /\ \A r \in Reason : RunKept(rn[r], rs)

FindingsKept(fs, saved) == Formed(fs) /\ Apart(fs) /\ Entries(saved)

Sound ==
    /\ level \in {2, 5} /\ catalogue \subseteq Rule
    /\ RowsKept /\ RunsKept(run, rows) /\ FindingsKept(findings, archive)

(* No evidence was removed while a run went on. *)
Undisturbed == "removal" \notin mixed

-----------------------------------------------------------------------------
(* Nothing forgets what went on together with a run. *)
LEMMA MixedGrows ==
    ASSUME [FindingsNext]_findingsVars
    PROVE  mixed \subseteq mixed'
  <1>1. ASSUME NEW e \in Evidence,
               BeginImport(e) \/ WriteRows(e) \/ StoreEngine(e) \/ EndImport(e) \/ RemoveRows(e) \/ ClearFindings(e)
        PROVE  mixed \subseteq mixed'
    BY <1>1 DEF BeginImport, WriteRows, StoreEngine, EndImport, RemoveRows, ClearFindings
  <1>2. RunManually \/ TimerFires \/ (\E lvl \in {2, 5} : setDetectionLevel(lvl)) => mixed \subseteq mixed'
    BY DEF RunManually, TimerFires, setDetectionLevel
  <1>3. ASSUME NEW r \in Reason, LoadRules(r) \/ EvaluateRule(r) \/ RuleFails(r) PROVE mixed \subseteq mixed'
    <2>1. LoadRules(r) => mixed \subseteq mixed'
      BY DEF LoadRules
    <2>2. EvaluateRule(r) => mixed \subseteq mixed'
      BY DEF EvaluateRule
    <2>3. RuleFails(r) => mixed \subseteq mixed'
      BY DEF RuleFails
    <2> QED
      BY <1>3, <2>1, <2>2, <2>3
  <1>4. ASSUME NEW r \in Reason,
               replaceFindings(r) \/ refoldWidespread(r) \/ saveDiagnostics(r) \/ pruneOrphanFindings(r)
        PROVE  mixed \subseteq mixed'
    BY <1>4 DEF replaceFindings, refoldWidespread, saveDiagnostics, pruneOrphanFindings
  <1>5. ASSUME NEW f \in findings, NEW s \in {"new", "false_positive"}, setStatusFor(f, s)
        PROVE  mixed \subseteq mixed'
    BY <1>5 DEF setStatusFor
  <1>6. ASSUME NEW rule \in Rule, DeleteRule(rule) \/ RestoreRule(rule) PROVE mixed \subseteq mixed'
    BY <1>6 DEF DeleteRule, RestoreRule
  <1> QED
    BY <1>1, <1>2, <1>3, <1>4, <1>5, <1>6 DEF FindingsNext, RuleRun, findingsVars

(* At first the case is empty. *)
LEMMA SoundInit == FindingsInit => Sound
  <1> SUFFICES ASSUME FindingsInit PROVE Sound
    OBVIOUS
  <1>1. level \in {2, 5} /\ catalogue \subseteq Rule
    BY DEF FindingsInit
  <1>2. RowsKept
    BY FindingsAssumption DEF FindingsInit, RowsKept, FileStates
  <1>3. NoRun \in Runs /\ RunKept(NoRun, {})
    BY DEF NoRun, Runs, Pcs, RunKept
  <1>4. RunsKept(run, rows)
    BY <1>3 DEF FindingsInit, RunsKept
  <1>5. FindingsKept(findings, archive)
    BY DEF FindingsInit, FindingsKept, Formed, Apart, Entries
  <1> QED
    BY <1>1, <1>2, <1>4, <1>5 DEF Sound

(* Imports. *)
LEMMA BeginImportSound ==
    ASSUME Sound, NEW e \in Evidence, BeginImport(e)
    PROVE  Sound'
  <1>1. RowsKept'
    BY FindingsAssumption DEF Sound, BeginImport, RowsKept, FileStates
  <1> QED
    BY <1>1 DEF Sound, BeginImport

(* The rows of an import are the first of its records. *)
LEMMA WriteRowsSound ==
    ASSUME Sound, NEW e \in Evidence, WriteRows(e)
    PROVE  Sound'
  <1> DEFINE new == {[rec |-> rec, gen |-> imports] : rec \in RecordsOf[e]}
  <1>1. /\ files[e] = "importing" /\ files' = [files EXCEPT ![e] = "written"] /\ rows' = rows \cup new
        /\ imports' = imports
    BY DEF WriteRows
  <1>2. \A q \in new : q.rec \in RecordsOf[e] /\ q.gen = imports /\ q \in Row
    BY DEF Row, Record, Sound, RowsKept
  <1>3. \A q, p \in new : q.rec = p.rec => q = p
    OBVIOUS
  <1>4. \A q \in rows, p \in new : q.rec # p.rec
    BY <1>1, <1>2 DEF Sound, RowsKept
  <1>5. \A q \in new, d \in Evidence : q.rec \in RecordsOf[d] => d = e
    BY <1>2, NamesAssumption
  <1> HIDE DEF new
  <1>6. files' \in [Evidence -> FileStates] /\ imports' \in 0..MaxImports /\ rows' \subseteq Row
    BY <1>1, <1>2 DEF Sound, RowsKept, FileStates
  <1>7. \A q, p \in rows' : q.rec = p.rec => q = p
    BY <1>1, <1>3, <1>4 DEF Sound, RowsKept
  <1>8. \A d \in Evidence, q \in rows' : q.rec \in RecordsOf[d] => files'[d] \in {"written", "present"}
    BY <1>1, <1>5 DEF Sound, RowsKept
  <1>9. RowsKept'
    BY <1>6, <1>7, <1>8 DEF RowsKept
  <1>10. RunsKept(run, rows')
    BY <1>1 DEF Sound, RunsKept, RunKept
  <1> QED
    BY <1>9, <1>10 DEF Sound, WriteRows

(* The findings of an engine concern no rule. *)
LEMMA StoreEngineSound ==
    ASSUME Sound, NEW e \in Evidence, StoreEngine(e)
    PROVE  Sound'
  <1> DEFINE cited == {r \in rows : r.rec \in RecordsOf[e]}
             new == withRecordKeys({Finding("engine", <<"engine", r>>, {r}) : r \in cited})
  <1>1. findings' = findings \cup new
    BY DEF StoreEngine
  <1>2. \A f \in new : IsFinding(f) /\ f.rule = "engine" /\ f.status = "new" /\ f.key[1] = "engine"
    BY DEF withRecordKeys, Finding, IsFinding
  <1> HIDE DEF new
  <1>3. Formed(findings')
    BY <1>1, <1>2, NamesApart DEF Sound, FindingsKept, Formed, Rules, Statuses
  <1>4. Apart(findings')
    BY <1>1, <1>2, NamesApart DEF Sound, FindingsKept, Apart
  <1> QED
    BY <1>3, <1>4 DEF Sound, StoreEngine, RowsKept, FindingsKept

(* The end of an import changes no row and no finding. *)
LEMMA EndImportSound ==
    ASSUME Sound, NEW e \in Evidence, EndImport(e)
    PROVE  Sound'
  <1>1. RowsKept'
    BY DEF Sound, EndImport, RowsKept, FileStates
  <1> QED
    BY <1>1 DEF Sound, EndImport

(* Removals. *)
LEMMA RemoveRowsSound ==
    ASSUME Sound, NEW e \in Evidence, RemoveRows(e), Undisturbed'
    PROVE  Sound'
  <1>1. \A r \in Reason : run[r].pc = "off"
    BY DEF RemoveRows, Undisturbed, RunGoing
  <1>2. RowsKept'
    BY DEF Sound, RemoveRows, RowsKept, FileStates
  <1>3. RunsKept(run, rows')
    BY <1>1 DEF Sound, RunsKept, RunKept
  <1> QED
    BY <1>2, <1>3 DEF Sound, RemoveRows

(* The derived state goes with the evidence; the decisions are archived. *)
LEMMA ClearFindingsSound ==
    ASSUME Sound, NEW e \in Evidence, ClearFindings(e)
    PROVE  Sound'
  <1> DEFINE kept == {f \in findings : f.rule = "engine" /\ ~EngineOf(f, e)}
  <1>1. findings' = kept /\ archive' = Archived(findings \ kept, archive)
    BY DEF ClearFindings
  <1>2. RowsKept'
    BY DEF Sound, ClearFindings, RowsKept, FileStates
  <1>3. Formed(kept) /\ Apart(kept) /\ Formed(findings \ kept)
    BY DEF Sound, FindingsKept, Formed, Apart
  <1>4. Entries(archive')
    BY <1>1, <1>3, ArchivedEntries DEF Sound, FindingsKept
  <1> QED
    BY <1>1, <1>2, <1>3, <1>4 DEF Sound, ClearFindings, FindingsKept

(* Runs: a step of one run leaves the others alone. *)
LEMMA RunStep ==
    ASSUME NEW rn, NEW rn2, NEW rs, NEW r \in Reason, NEW x, RunsKept(rn, rs),
           rn2 = [rn EXCEPT ![r] = x], x \in Runs, RunKept(x, rs)
    PROVE  RunsKept(rn2, rs)
  BY DEF RunsKept

(* A call of runEnabledRules starts with no rules loaded. *)
LEMMA CallSound ==
    ASSUME Sound, NEW r \in Reason, NEW lvl \in {2, 5}, Call(r, lvl)
    PROVE  RunsKept(run', rows)
  <1> DEFINE x == [NoRun EXCEPT !.pc = "load", !.level = lvl]
  <1>1. x \in Runs /\ RunKept(x, rows)
    BY DEF NoRun, Runs, Pcs, RunKept
  <1> HIDE DEF x
  <1>2. run' = [run EXCEPT ![r] = x]
    BY DEF Call, x
  <1> QED
    BY <1>1, <1>2, RunStep DEF Sound

(* The run button. *)
LEMMA RunManuallySound ==
    ASSUME Sound, RunManually
    PROVE  Sound'
  <1>1. RunsKept(run', rows)
    BY CallSound DEF RunManually, Sound, Reason
  <1> QED
    BY <1>1 DEF Sound, RunManually, RowsKept

(* The timer after an import. *)
LEMMA TimerFiresSound ==
    ASSUME Sound, TimerFires
    PROVE  Sound'
  <1>1. RunsKept(run', rows)
    BY CallSound DEF TimerFires, Sound, Reason
  <1> QED
    BY <1>1 DEF Sound, TimerFires, RowsKept

(* Another detection level. *)
LEMMA SetLevelSound ==
    ASSUME Sound, NEW lvl \in {2, 5}, setDetectionLevel(lvl)
    PROVE  Sound'
  <1>1. RunsKept(run', rows)
    BY CallSound DEF setDetectionLevel, Sound, Reason
  <1> QED
    BY <1>1 DEF Sound, setDetectionLevel, RowsKept

(* The rules are loaded and the rows read. *)
LEMMA LoadRulesSound ==
    ASSUME Sound, NEW r \in Reason, LoadRules(r)
    PROVE  Sound'
  <1>1. CASE catalogue = {}
    <2>1. NoRun \in Runs /\ RunKept(NoRun, rows)
      BY DEF NoRun, Runs, Pcs, RunKept
    <2>2. RunsKept(run', rows)
      BY <1>1, <2>1, RunStep DEF LoadRules, Sound
    <2> QED
      BY <2>2 DEF Sound, LoadRules, RowsKept
  <1>2. CASE catalogue # {}
    <2> DEFINE x == [run[r] EXCEPT !.rules = catalogue, !.todo = catalogue, !.seen = rows, !.pc = "next"]
    <2>1. run[r] \in Runs /\ RunKept(run[r], rows) /\ run[r].pc = "load"
      BY DEF LoadRules, Sound, RunsKept
    <2>2. x \in Runs
      BY <2>1 DEF Runs, Pcs, Sound, RowsKept
    <2>3. RunKept(x, rows)
      BY <1>2, <2>1 DEF RunKept, Runs
    <2> HIDE DEF x
    <2>4. run' = [run EXCEPT ![r] = x]
      BY <1>2 DEF LoadRules, x
    <2>5. RunsKept(run', rows)
      BY <2>2, <2>3, <2>4, RunStep DEF Sound
    <2> QED
      BY <1>2, <2>5 DEF Sound, LoadRules, RowsKept
  <1> QED
    BY <1>1, <1>2

(* What a run finds on rows the case has. *)
LEMMA RaisedIs ==
    ASSUME NEW rule \in Rule, NEW rs, rs \subseteq rows
    PROVE  withRecordKeys(Raised(rule, rs)) = {FoundOn(rule, q) : q \in {p \in rs : p.rec \in Matches[rule]}}
  <1>1. \A q \in rs : [Finding(rule, <<rule, q>>, {q}) EXCEPT !.keyed = {q} \cap rows] = FoundOn(rule, q)
    <2> SUFFICES ASSUME NEW q \in rs
                 PROVE  [Finding(rule, <<rule, q>>, {q}) EXCEPT !.keyed = {q} \cap rows] = FoundOn(rule, q)
      OBVIOUS
    <2>1. {q} \cap rows = {q}
      OBVIOUS
    <2>2. [Finding(rule, <<rule, q>>, {q}) EXCEPT !.keyed = {q}] = FoundOn(rule, q)
      BY DEF Finding, FoundOn
    <2> QED
      BY <2>1, <2>2
  <1> DEFINE S == {p \in rs : p.rec \in Matches[rule]}
             F(q) == Finding(rule, <<rule, q>>, {q})
             K(f) == [f EXCEPT !.keyed = f.refs \cap rows]
  <1>2. \A q \in S : K(F(q)) = FoundOn(rule, q)
    <2> SUFFICES ASSUME NEW q \in S PROVE K(F(q)) = FoundOn(rule, q)
      OBVIOUS
    <2>1. F(q).refs = {q}
      BY DEF Finding
    <2> QED
      BY <1>1, <2>1
  <1>3. withRecordKeys(Raised(rule, rs)) = {K(f) : f \in {F(q) : q \in S}}
    BY DEF withRecordKeys, Raised
  <1> HIDE DEF S, F, K
  <1>4. {K(f) : f \in {F(q) : q \in S}} = {FoundOn(rule, q) : q \in S}
    BY <1>2
  <1> QED
    BY <1>3, <1>4 DEF S

(* A rule is evaluated on the rows that were read. *)
LEMMA EvaluateRuleSound ==
    ASSUME Sound, NEW r \in Reason, EvaluateRule(r)
    PROVE  Sound'
  <1> DEFINE rule == CHOOSE rule \in run[r].todo : TRUE
             found == {FoundOn(rule, q) : q \in {p \in run[r].seen : p.rec \in Matches[rule]}}
             x == [run[r] EXCEPT !.found = found, !.todo = @ \ {rule}, !.rule = {rule}, !.pc = "store"]
  <1>1. run[r] \in Runs /\ RunKept(run[r], rows) /\ run[r].pc = "next"
    BY DEF EvaluateRule, Sound, RunsKept
  <1>2. rule \in run[r].todo /\ rule \in Rule /\ rule \in run[r].rules /\ run[r].seen \subseteq rows
    BY <1>1 DEF RunKept, Runs
  <1>3. withRecordKeys(Raised(rule, run[r].seen)) = found
    BY <1>2, RaisedIs
  <1> HIDE DEF rule
  <1>4. found \subseteq Foundable
    BY <1>1, <1>2 DEF Foundable, Runs
  <1>5. run' = [run EXCEPT ![r] = x]
    BY <1>3 DEF EvaluateRule, rule, Sound, RunsKept, Runs
  <1> HIDE DEF found
  <1>6. x \in Runs
    BY <1>1, <1>2, <1>4 DEF Runs, Pcs
  <1>7. x.rule = {rule} /\ x.found = found /\ x.seen = run[r].seen /\ x.pc = "store"
        /\ x.rules = run[r].rules /\ x.todo = run[r].todo \ {rule}
    BY <1>1 DEF Runs
  <1> HIDE DEF x
  <1>8. x.found = {FoundOn(rule, q) : q \in {p \in x.seen : p.rec \in Matches[rule]}}
    BY <1>7 DEF found
  <1>9. RunKept(x, rows)
    BY <1>1, <1>2, <1>7, <1>8 DEF RunKept
  <1>10. RunsKept(run', rows)
    BY <1>5, <1>6, <1>9, RunStep DEF Sound
  <1> QED
    BY <1>10 DEF Sound, EvaluateRule, RowsKept

(* A rule that throws is through. *)
LEMMA RuleFailsSound ==
    ASSUME Sound, NEW r \in Reason, RuleFails(r)
    PROVE  Sound'
  <1> DEFINE rule == CHOOSE rule \in run[r].todo : TRUE
             x == [run[r] EXCEPT !.todo = @ \ {rule}, !.failed = @ \cup {rule},
                                 !.seen = IF run[r].todo = {rule} THEN {} ELSE @,
                                 !.pc = IF run[r].todo = {rule} THEN "refold" ELSE "next"]
  <1>1. run[r] \in Runs /\ RunKept(run[r], rows) /\ run[r].pc = "next"
    BY DEF RuleFails, Sound, RunsKept
  <1>2. rule \in run[r].todo /\ rule \in Rule /\ rule \in run[r].rules
    BY <1>1 DEF RunKept, Runs
  <1>3. run' = [run EXCEPT ![r] = x]
    BY DEF RuleFails, Sound, RunsKept, Runs
  <1> HIDE DEF rule
  <1>4. x \in Runs
    BY <1>1, <1>2 DEF Runs, Pcs
  <1>5. RunKept(x, rows)
    BY <1>1, <1>2 DEF RunKept, Runs
  <1> HIDE DEF x
  <1>6. RunsKept(run', rows)
    BY <1>3, <1>4, <1>5, RunStep DEF Sound
  <1> QED
    BY <1>6 DEF Sound, RuleFails, RowsKept

(* The diagnostics are saved. *)
LEMMA SaveDiagnosticsSound ==
    ASSUME Sound, NEW r \in Reason, saveDiagnostics(r)
    PROVE  Sound'
  <1> DEFINE x == [run[r] EXCEPT !.pc = "prune"]
  <1>1. run[r] \in Runs /\ RunKept(run[r], rows) /\ run[r].pc = "diags"
    BY DEF saveDiagnostics, Sound, RunsKept
  <1>2. x \in Runs /\ RunKept(x, rows)
    BY <1>1 DEF Runs, Pcs, RunKept
  <1>3. run' = [run EXCEPT ![r] = x]
    BY DEF saveDiagnostics
  <1> HIDE DEF x
  <1>4. RunsKept(run', rows)
    BY <1>2, <1>3, RunStep DEF Sound
  <1> QED
    BY <1>4 DEF Sound, saveDiagnostics, RowsKept

(* Undecided findings of rules the run did not load go. *)
LEMMA PruneSound ==
    ASSUME Sound, NEW r \in Reason, pruneOrphanFindings(r)
    PROVE  Sound'
  <1> DEFINE orphans == {f \in findings : f.rule \notin run[r].rules \cup {"engine"} /\ ~decided(f)}
  <1>1. NoRun \in Runs /\ RunKept(NoRun, rows)
    BY DEF NoRun, Runs, Pcs, RunKept
  <1>2. RunsKept(run', rows)
    BY <1>1, RunStep DEF pruneOrphanFindings, Sound
  <1>3. /\ findings' = findings \ orphans
        /\ archive' = archive \/ archive' = Archived(orphans, archive)
    BY DEF pruneOrphanFindings
  <1>4. Formed(findings') /\ Apart(findings') /\ Formed(orphans)
    BY <1>3 DEF Sound, FindingsKept, Formed, Apart
  <1>5. Entries(archive')
    BY <1>3, <1>4, ArchivedEntries DEF Sound, FindingsKept
  <1> QED
    BY <1>2, <1>4, <1>5 DEF Sound, pruneOrphanFindings, RowsKept, FindingsKept

(* What a run stores: what it found, folded below the level, with the decisions given back. *)
LEMMA PreviousStatus ==
    ASSUME NEW fs, NEW saved, NEW f, Formed(fs), Entries(saved), f.rule \in Rule, f.key[1] = f.rule
    PROVE  PreviousOf(f, fs, saved) \subseteq Statuses
  <1>1. ASSUME NEW k, k[1] \in Rule PROVE Previous(k, fs, saved) \subseteq Statuses
    <2> DEFINE now == {g \in fs : g.key = k \/ reviewKey(g) = k}
               alias == {a \in DOMAIN saved : saved[a].key = k}
    <2>1. now # {} => (CHOOSE g \in now : TRUE).status \in Statuses
      BY DEF Formed
    <2>2. k \in DOMAIN saved => saved[k].status \in Statuses
      BY <1>1 DEF Entries, Entry, Statuses
    <2>3. \A a \in alias : saved[a].status \in Statuses
      BY <1>1 DEF Entries, Entry, Statuses
    <2> QED
      BY <2>1, <2>2, <2>3 DEF Previous
  <1>2. reviewKey(f)[1] \in Rule /\ f.key[1] \in Rule
    BY KeyOfRule
  <1> QED
    BY <1>1, <1>2 DEF PreviousOf

(* The finding given its decision back. *)
GivenBack(m, fs, saved) ==
    IF PreviousOf(m, fs, saved) = {} THEN m
    ELSE [m EXCEPT !.status = CHOOSE s \in PreviousOf(m, fs, saved) : TRUE]

Down(found, fs, saved, lvl) ==
    {f \in found : Below(f.rule, lvl) /\ PreviousOf(f, fs, saved) \subseteq {"new"}}

(* What a run stores, as an image of what it found and folded. *)
LEMMA RebuiltIs ==
    ASSUME NEW found, NEW fs, NEW saved, NEW lvl
    PROVE  LET ds == Down(found, fs, saved, lvl)
           IN  Rebuilt(found, fs, saved, lvl) = {GivenBack(m, fs, saved) : m \in (found \ ds) \cup Folds(ds)}
  <1> DEFINE prior == [f \in found |-> PreviousOf(f, fs, saved)]
             ds == Down(found, fs, saved, lvl)
  <1>1. {f \in found : Below(f.rule, lvl) /\ prior[f] \subseteq {"new"}} = ds
    BY DEF Down
  <1>2. foldBelowLevel(found, lvl, prior) = (found \ ds) \cup Folds(ds)
    BY <1>1 DEF foldBelowLevel
  <1> DEFINE kept == foldBelowLevel(found, lvl, prior)
  <1>3. Rebuilt(found, fs, saved, lvl) = {GivenBack(m, fs, saved) : m \in kept}
    BY DEF Rebuilt, GivenBack
  <1> HIDE DEF kept
  <1> QED
    BY <1>2, <1>3 DEF kept

(* What a rule found on rows is formed and apart. *)
LEMMA FoundFormed ==
    ASSUME NEW rule \in Rule, NEW rs \in SUBSET Row, \A q, p \in rs : q.rec = p.rec => q = p
    PROVE  LET found == {FoundOn(rule, q) : q \in rs}
           IN  Formed(found) /\ Apart(found) /\ \A f \in found : f.rule = rule
  <1> DEFINE found == {FoundOn(rule, q) : q \in rs}
  <1>1. \A f \in found : \E q \in rs : f = FoundOn(rule, q)
    OBVIOUS
  <1> HIDE DEF found
  <1>2. ASSUME NEW f \in found
        PROVE  \E q \in rs : /\ f = FoundOn(rule, q) /\ IsFinding(f) /\ OnRow(f, q)
                             /\ f.rule = rule /\ f.status = "new" /\ f.key[1] = rule
    <2>1. PICK q \in rs : f = FoundOn(rule, q)
      BY <1>1
    <2>2. IsFinding(f) /\ OnRow(f, q) /\ f.rule = rule /\ f.status = "new" /\ f.key = <<rule, q>>
      BY <2>1, FoundIsOnRow
    <2> QED
      BY <2>1, <2>2
  <1>3. Formed(found)
    BY <1>2 DEF Formed, Rules, Statuses
  <1>4. Apart(found)
    <2> SUFFICES ASSUME NEW f \in found, NEW g \in found, NEW q \in Row, NEW p \in g.refs,
                        OnRow(f, q), p.rec = q.rec
                 PROVE  f = g
      BY DEF Apart
    <2>1. PICK s \in rs : f = FoundOn(rule, s) /\ OnRow(f, s)
      BY <1>2
    <2>2. PICK t \in rs : g = FoundOn(rule, t) /\ OnRow(g, t)
      BY <1>2
    <2>3. q = s /\ p = t
      BY <2>1, <2>2 DEF OnRow
    <2> QED
      BY <2>1, <2>2, <2>3
  <1> QED
    BY <1>2, <1>3, <1>4 DEF found

(* A finding given its decision back is about what it was about. *)
LEMMA GivenBackIs ==
    ASSUME NEW m, NEW fs, NEW saved, IsFinding(m)
    PROVE  LET g == GivenBack(m, fs, saved)
           IN  /\ IsFinding(g) /\ g.rule = m.rule /\ g.key = m.key /\ g.refs = m.refs /\ g.keyed = m.keyed
               /\ g.n = m.n /\ Several(g) = Several(m) /\ \A q : OnRow(g, q) = OnRow(m, q)
               /\ PreviousOf(m, fs, saved) = {} => g.status = m.status
               /\ PreviousOf(m, fs, saved) # {} => g.status \in PreviousOf(m, fs, saved)
  <1> DEFINE g == GivenBack(m, fs, saved)
             was == PreviousOf(m, fs, saved)
  <1>1. was # {} => (CHOOSE s \in was : TRUE) \in was
    OBVIOUS
  <1>2. CASE was = {}
    BY <1>2 DEF GivenBack
  <1>3. CASE was # {}
    <2> DEFINE s == CHOOSE s \in was : TRUE
    <2>1. g = [m EXCEPT !.status = s] /\ s \in was
      BY <1>1, <1>3 DEF GivenBack
    <2> HIDE DEF s, g, was
    <2>2. /\ IsFinding(g) /\ g.rule = m.rule /\ g.key = m.key /\ g.refs = m.refs /\ g.keyed = m.keyed
          /\ g.n = m.n /\ g.status = s
      BY <2>1 DEF IsFinding
    <2>3. Several(g) = Several(m) /\ \A q : OnRow(g, q) = OnRow(m, q)
      BY <2>2 DEF Several, OnRow
    <2> QED
      BY <1>3, <2>1, <2>2, <2>3 DEF g, was
  <1> QED
    BY <1>2, <1>3

(* What a run stores is formed and apart. *)
LEMMA RebuiltFormed ==
    ASSUME NEW rule \in Rule, NEW rs \in SUBSET Row, \A q, p \in rs : q.rec = p.rec => q = p,
           NEW fs, NEW saved, NEW lvl, Formed(fs), Entries(saved)
    PROVE  LET new == Rebuilt({FoundOn(rule, q) : q \in rs}, fs, saved, lvl)
           IN  Formed(new) /\ Apart(new) /\ \A f \in new : f.rule = rule
  <1> DEFINE found == {FoundOn(rule, q) : q \in rs}
             ds == Down(found, fs, saved, lvl)
             all == (found \ ds) \cup Folds(ds)
             to == [m \in all |-> GivenBack(m, fs, saved)]
  <1>1. Formed(found) /\ Apart(found) /\ \A f \in found : f.rule = rule
    BY FoundFormed
  <1>2. Rebuilt(found, fs, saved, lvl) = {GivenBack(m, fs, saved) : m \in all}
    BY RebuiltIs
  <1>3. ds \subseteq found
    BY DEF Down
  <1> HIDE DEF found, ds
  <1>4. /\ Formed(all) /\ Apart(all)
        /\ \A m \in Folds(ds) : m \in ds \/ \E f \in ds : f.rule = m.rule
    <2>1. \A f \in ds : f.rule \in Rule
      BY <1>1, <1>3
    <2>2. /\ Formed(all) /\ Apart(all)
          /\ \A m \in Folds(ds) :
                \/ m \in ds
                \/ Several(m) /\ \A q \in m.refs : \E f \in ds : f.rule = m.rule /\ q \in f.refs
      BY <1>1, <1>3, <2>1, FoldsKeep
    <2> QED
      BY <2>2 DEF Several
  <1>5. \A m \in all : m.rule = rule
    BY <1>1, <1>3, <1>4
  <1> HIDE DEF all
  <1>6. {GivenBack(m, fs, saved) : m \in all} = {to[m] : m \in all}
    OBVIOUS
  <1>7. \A m \in all : to[m] = GivenBack(m, fs, saved)
    OBVIOUS
  <1> HIDE DEF to
  <1>8. ASSUME NEW m \in all
        PROVE  /\ IsFinding(to[m]) /\ to[m].rule = rule /\ to[m].key[1] = rule /\ to[m].status \in Statuses
               /\ to[m].refs = m.refs /\ \A q : OnRow(to[m], q) = OnRow(m, q)
               /\ Several(to[m]) = Several(m)
    <2>1. IsFinding(m) /\ m.rule = rule /\ m.key[1] = rule /\ m.status \in Statuses
      BY <1>4, <1>5 DEF Formed
    <2>2. PreviousOf(m, fs, saved) \subseteq Statuses
      BY <2>1, PreviousStatus
    <2> QED
      BY <1>7, <2>1, <2>2, GivenBackIs
  <1>9. Apart({to[m] : m \in all})
    BY <1>4, <1>5, <1>8, ImageApart
  <1>10. Formed({to[m] : m \in all})
    BY <1>4, <1>5, <1>8 DEF Formed, Rules
  <1> QED
    BY <1>2, <1>6, <1>8, <1>9, <1>10 DEF found

(* The findings of widespread rules fold; a fold gets another key when its own is taken. *)
Retitled(m, fs, taken) ==
    IF m \notin fs /\ m.key \in taken THEN [m EXCEPT !.key = Append(m.key, CHOOSE r \in m.refs : TRUE)] ELSE m

(* The findings a run folds as widespread, and the keys the others have. *)
WideDown(fs, lvl, rules) ==
    {f \in fs : /\ f.rule \in Widespread(fs, lvl, rules) /\ ~decided(f)
               /\ MapThenSumSet(LAMBDA g : g.n, {g \in fs : g.rule = f.rule /\ Host(g) = Host(f)}) > 1}
KeysTaken(fs, ds) == {f.key : f \in fs \ ds}

(* Which findings a widespread rule folds, and what becomes of them. *)
LEMMA FoldWidespreadIs ==
    ASSUME NEW fs, NEW lvl, NEW rules
    PROVE  LET ds == WideDown(fs, lvl, rules)
           IN  /\ ds \in SUBSET fs
               /\ \A f \in ds : f.rule \in rules /\ f.rule \in Rule \ Custom /\ lvl < 5 /\ ~decided(f)
               /\ foldWidespread(fs, lvl, rules) =
                     (fs \ ds) \cup {Retitled(m, fs, KeysTaken(fs, ds)) : m \in Folds(ds)}
  <1> DEFINE place(f) == MapThenSumSet(LAMBDA g : g.n, {g \in fs : g.rule = f.rule /\ Host(g) = Host(f)})
             ds == {f \in fs : f.rule \in Widespread(fs, lvl, rules) /\ ~decided(f) /\ place(f) > 1}
  <1>1. foldWidespread(fs, lvl, rules) = (fs \ ds) \cup {Retitled(m, fs, KeysTaken(fs, ds)) : m \in Folds(ds)}
    BY DEF foldWidespread, Retitled, KeysTaken
  <1>2. \A rule \in Widespread(fs, lvl, rules) : rule \in rules /\ rule \in Rule \ Custom /\ lvl < 5
    BY DEF Widespread, Floored
  <1>3. \A f \in ds : f.rule \in rules /\ f.rule \in Rule \ Custom /\ lvl < 5 /\ ~decided(f)
    BY <1>2
  <1>4. ds \in SUBSET fs
    OBVIOUS
  <1>5. ds = WideDown(fs, lvl, rules)
    BY DEF WideDown
  <1> HIDE DEF ds
  <1> QED
    BY <1>1, <1>3, <1>4, <1>5

(* A fold whose key is taken gets the key of one of its rows, and nothing else of it changes. *)
LEMMA RetitledIs ==
    ASSUME NEW fs, NEW taken, NEW m, IsFinding(m), NEW h \in Hosts,
           m \in fs \/ (m.rule \in Rule /\ Several(m) /\ m.key = <<m.rule, h>>)
    PROVE  LET t == Retitled(m, fs, taken)
           IN  /\ IsFinding(t) /\ t.rule = m.rule /\ t.refs = m.refs /\ t.keyed = m.keyed
               /\ t.status = m.status /\ t.n = m.n
               /\ t = m \/ (Several(m) /\ Several(t) /\ t.key[1] = m.rule)
  <1> DEFINE t == Retitled(m, fs, taken)
             r == CHOOSE r \in m.refs : TRUE
  <1>1. CASE m \notin fs /\ m.key \in taken
    <2>1. r \in Row
      BY <1>1 DEF Several
    <2> HIDE DEF r
    <2>2. Append(m.key, r) = <<m.rule, h, r>>
      <3> DEFINE S == {m.rule, h, r}
      <3>1. m.key = <<m.rule, h>>
        BY <1>1
      <3>2. <<m.rule, h>> \in Seq(S) /\ r \in S /\ Len(<<m.rule, h>>) = 2
        OBVIOUS
      <3>3. /\ Append(m.key, r) \in Seq(S) /\ Len(Append(m.key, r)) = 3
            /\ Append(m.key, r)[1] = m.rule /\ Append(m.key, r)[2] = h /\ Append(m.key, r)[3] = r
        BY <3>1, <3>2
      <3>4. <<m.rule, h, r>> \in Seq(S) /\ Len(<<m.rule, h, r>>) = 3
        OBVIOUS
      <3>5. \A i \in 1..3 : Append(m.key, r)[i] = <<m.rule, h, r>>[i]
        <4> SUFFICES ASSUME NEW i \in 1..3 PROVE Append(m.key, r)[i] = <<m.rule, h, r>>[i]
          OBVIOUS
        <4>1. i = 1 \/ i = 2 \/ i = 3
          OBVIOUS
        <4> QED
          BY <3>3, <4>1
      <3> HIDE DEF S
      <3> QED
        BY <3>3, <3>4, <3>5, SeqEqual
    <2>3. t = [m EXCEPT !.key = Append(m.key, r)]
      BY <1>1 DEF Retitled, r
    <2> HIDE DEF t
    <2>4. /\ IsFinding(t) /\ t.rule = m.rule /\ t.refs = m.refs /\ t.keyed = m.keyed
          /\ t.status = m.status /\ t.n = m.n /\ t.key = <<m.rule, h, r>>
      BY <2>2, <2>3 DEF IsFinding
    <2>5. t.key \in FoldKeys(t.rule) /\ t.key[1] = m.rule
      BY <2>1, <2>4 DEF FoldKeys
    <2> QED
      BY <1>1, <2>4, <2>5 DEF Several, t
  <1>2. CASE ~(m \notin fs /\ m.key \in taken)
    BY <1>2 DEF Retitled
  <1> QED
    BY <1>1, <1>2

(* After widespread rules are folded the findings are formed and apart; each was there or is a fold of
   undecided ones. *)
LEMMA RefoldFormed ==
    ASSUME NEW fs, NEW lvl, NEW rules, Formed(fs), Apart(fs)
    PROVE  LET new == foldWidespread(fs, lvl, rules)
           IN  /\ Formed(new) /\ Apart(new)
               /\ \E ds \in SUBSET fs :
                     /\ \A f \in ds : f.rule \in rules /\ f.rule \in Rule /\ ~decided(f)
                     /\ \A f \in fs : f \in new \/ f \in ds
                     /\ \A f \in new : \/ f \in fs
                                       \/ /\ Several(f) /\ f.status = "new" /\ f.rule \in Rule
                                          /\ \A q \in f.refs : \E g \in ds : g.rule = f.rule /\ q \in g.refs
  <1> DEFINE new == foldWidespread(fs, lvl, rules)
  <1> DEFINE ds == WideDown(fs, lvl, rules)
             taken == KeysTaken(fs, ds)
  <1>1. ds \in SUBSET fs /\ \A f \in ds : f.rule \in rules /\ f.rule \in Rule \ Custom /\ lvl < 5 /\ ~decided(f)
    BY FoldWidespreadIs
  <1>2. new = (fs \ ds) \cup {Retitled(m, fs, taken) : m \in Folds(ds)}
    BY FoldWidespreadIs
  <1> HIDE DEF ds, taken
  <1> HIDE DEF new
  <1> DEFINE all == (fs \ ds) \cup Folds(ds)
             to == [m \in all |-> Retitled(m, fs, taken)]
  <1>3. /\ Formed(all) /\ Apart(all)
        /\ \A m \in Folds(ds) :
              \/ m \in ds
              \/ /\ Several(m) /\ m.status = "new" /\ m.rule \in Rule
                 /\ \E h \in Hosts : m.key = <<m.rule, h>>
                 /\ \A q \in m.refs : \E f \in ds : f.rule = m.rule /\ q \in f.refs
    BY <1>1, FoldsKeep
  <1>4. \A m \in fs : Retitled(m, fs, taken) = m
    BY DEF Retitled
  <1>5. new = {to[m] : m \in all}
    BY <1>2, <1>4
  <1>6. \A m \in all : to[m] = Retitled(m, fs, taken)
    OBVIOUS
  <1>7. \A m \in all : m \in fs \/ m \in Folds(ds)
    OBVIOUS
  <1>8. \A f \in fs : f \in all \/ f \in ds
    OBVIOUS
  <1> HIDE DEF all, to
  <1>9. ASSUME NEW m \in all
        PROVE  /\ IsFinding(to[m]) /\ to[m].rule = m.rule /\ to[m].refs = m.refs /\ to[m].status = m.status
               /\ to[m] = m \/ (Several(m) /\ Several(to[m]) /\ to[m].key[1] = m.rule)
    <2>1. IsFinding(m)
      BY <1>3 DEF Formed
    <2>2. CASE m \in fs
      BY <1>4, <1>6, <2>1, <2>2
    <2>3. CASE m \notin fs
      <3>1. PICK h \in Hosts : m.key = <<m.rule, h>> /\ m.rule \in Rule /\ Several(m)
        BY <1>1, <1>3, <1>7, <2>3
      <3> QED
        BY <1>6, <2>1, <3>1, RetitledIs
    <2> QED
      BY <2>2, <2>3
  <1>10. \A m \in all, q \in Row : OnRow(to[m], q) => OnRow(m, q)
    BY <1>9, OnRowNames
  <1>11. Apart(new)
    BY <1>3, <1>5, <1>9, <1>10, ImageApart
  <1>12. Formed(new)
    <2> SUFFICES ASSUME NEW m \in all
                 PROVE  /\ IsFinding(to[m]) /\ to[m].rule \in Rules /\ to[m].status \in Statuses
                        /\ to[m].key[1] = to[m].rule
                        /\ to[m].rule \in Rule => Several(to[m]) \/ \E q \in Row : OnRow(to[m], q)
      BY <1>5 DEF Formed
    <2> QED
      BY <1>3, <1>9 DEF Formed
  <1>13. \A f \in fs : f \in new \/ f \in ds
    BY <1>2
  <1>14. ASSUME NEW f \in new
         PROVE  \/ f \in fs
                \/ /\ Several(f) /\ f.status = "new" /\ f.rule \in Rule
                   /\ \A q \in f.refs : \E g \in ds : g.rule = f.rule /\ q \in g.refs
    <2>1. PICK m \in all : f = to[m]
      BY <1>5
    <2>2. CASE m \in fs
      BY <1>4, <1>6, <2>1, <2>2
    <2>3. CASE m \notin fs
      <3>1. /\ Several(m) /\ m.status = "new" /\ m.rule \in Rule
            /\ \A q \in m.refs : \E g \in ds : g.rule = m.rule /\ q \in g.refs
        BY <1>1, <1>3, <1>7, <2>3
      <3> QED
        BY <1>9, <2>1, <3>1
    <2> QED
      BY <2>2, <2>3
  <1>15. \A f \in ds : f.rule \in rules /\ f.rule \in Rule /\ ~decided(f)
    BY <1>1
  <1> QED
    BY <1>1, <1>11, <1>12, <1>13, <1>14, <1>15 DEF new

(* The findings of a rule are replaced. *)
LEMMA ReplaceSound ==
    ASSUME Sound, NEW r \in Reason, replaceFindings(r)
    PROVE  Sound'
  <1> DEFINE current == {f \in findings : f.rule \in run[r].rule}
             saved == Archived(current, archive)
             new == Rebuilt(run[r].found, current, saved, run[r].level)
             x == [run[r] EXCEPT !.found = {}, !.rule = {}, !.seen = IF run[r].todo = {} THEN {} ELSE @,
                                 !.pc = IF run[r].todo = {} THEN "refold" ELSE "next"]
  <1>1. run[r] \in Runs /\ RunKept(run[r], rows) /\ run[r].pc = "store"
    BY DEF replaceFindings, Sound, RunsKept
  <1>2. PICK rule \in Rule :
           run[r].rule = {rule} /\ run[r].found = {FoundOn(rule, q) : q \in {p \in run[r].seen : p.rec \in Matches[rule]}}
    BY <1>1 DEF RunKept
  <1>3. findings' = (findings \ current) \cup new /\ archive' = saved
    BY DEF replaceFindings
  <1>4. Formed(current) /\ \A f \in current : f.rule = rule
    BY <1>2 DEF Sound, FindingsKept, Formed
  <1>5. Entries(saved)
    BY <1>4, ArchivedEntries DEF Sound, FindingsKept
  <1>6. Formed(new) /\ Apart(new) /\ \A f \in new : f.rule = rule
    <2> DEFINE rs == {p \in run[r].seen : p.rec \in Matches[rule]}
    <2>1. rs \in SUBSET Row /\ \A q, p \in rs : q.rec = p.rec => q = p
      BY <1>1 DEF Runs, RunKept, Sound, RowsKept
    <2> HIDE DEF rs, saved, current
    <2>2. /\ Formed(Rebuilt({FoundOn(rule, q) : q \in rs}, current, saved, run[r].level))
          /\ Apart(Rebuilt({FoundOn(rule, q) : q \in rs}, current, saved, run[r].level))
          /\ \A f \in Rebuilt({FoundOn(rule, q) : q \in rs}, current, saved, run[r].level) : f.rule = rule
      BY <1>4, <1>5, <2>1, RebuiltFormed
    <2>3. run[r].found = {FoundOn(rule, q) : q \in rs}
      BY <1>2 DEF rs
    <2> QED
      BY <2>2, <2>3
  <1>7. \A f \in findings \ current : f.rule # rule
    BY <1>2
  <1> HIDE DEF current, new, saved
  <1>8. Formed(findings')
    BY <1>3, <1>6 DEF Sound, FindingsKept, Formed
  <1>9. Apart(findings')
    BY <1>3, <1>6, <1>7 DEF Sound, FindingsKept, Apart
  <1>10. FindingsKept(findings', archive')
    BY <1>3, <1>5, <1>8, <1>9 DEF FindingsKept
  <1>11. run' = [run EXCEPT ![r] = x]
    BY DEF replaceFindings, Sound, RunsKept, Runs
  <1>12. x \in Runs
    BY <1>1 DEF Runs, Pcs
  <1>13. RunKept(x, rows)
    BY <1>1 DEF RunKept, Runs
  <1> HIDE DEF x
  <1>14. RunsKept(run', rows)
    BY <1>11, <1>12, <1>13, RunStep DEF Sound
  <1> QED
    BY <1>10, <1>14 DEF Sound, replaceFindings, RowsKept

(* The findings of widespread rules are folded. *)
LEMMA RefoldSound ==
    ASSUME Sound, NEW r \in Reason, refoldWidespread(r)
    PROVE  Sound'
  <1> DEFINE x == [run[r] EXCEPT !.pc = "diags"]
  <1>1. run[r] \in Runs /\ RunKept(run[r], rows) /\ run[r].pc = "refold"
    BY DEF refoldWidespread, Sound, RunsKept
  <1>2. x \in Runs /\ RunKept(x, rows)
    BY <1>1 DEF Runs, Pcs, RunKept
  <1>3. run' = [run EXCEPT ![r] = x]
    BY DEF refoldWidespread
  <1> HIDE DEF x
  <1>4. RunsKept(run', rows)
    BY <1>2, <1>3, RunStep DEF Sound
  <1>5. Formed(findings') /\ Apart(findings')
    BY RefoldFormed DEF refoldWidespread, Sound, FindingsKept
  <1> QED
    BY <1>4, <1>5 DEF Sound, refoldWidespread, RowsKept, FindingsKept

(* The analyst's click changes the status and nothing the finding is about. *)
LEMMA StatusIs ==
    ASSUME NEW f, NEW s, IsFinding(f)
    PROVE  LET g == [f EXCEPT !.status = s]
           IN  /\ IsFinding(g) /\ g.rule = f.rule /\ g.key = f.key /\ g.refs = f.refs /\ g.n = f.n
               /\ g.status = s /\ Several(g) = Several(f) /\ \A q : OnRow(g, q) = OnRow(f, q)
  <1> DEFINE g == [f EXCEPT !.status = s]
  <1>1. /\ IsFinding(g) /\ g.rule = f.rule /\ g.key = f.key /\ g.refs = f.refs /\ g.keyed = f.keyed
        /\ g.n = f.n /\ g.status = s
    BY DEF IsFinding
  <1> HIDE DEF g
  <1>2. Several(g) = Several(f) /\ \A q : OnRow(g, q) = OnRow(f, q)
    BY <1>1 DEF Several, OnRow
  <1> QED
    BY <1>1, <1>2 DEF g

(* The analyst decides on a finding. *)
LEMMA SetStatusSound ==
    ASSUME Sound, NEW f \in findings, NEW s \in {"new", "false_positive"}, setStatusFor(f, s)
    PROVE  Sound'
  <1> DEFINE g == [f EXCEPT !.status = s]
             to == [m \in findings |-> IF m = f THEN g ELSE m]
  <1>1. findings' = (findings \ {f}) \cup {g}
    BY DEF setStatusFor
  <1>2. IsFinding(f)
    BY DEF Sound, FindingsKept, Formed
  <1>3. /\ IsFinding(g) /\ g.rule = f.rule /\ g.key = f.key /\ g.refs = f.refs /\ g.status = s
        /\ Several(g) = Several(f) /\ \A q : OnRow(g, q) = OnRow(f, q)
    BY <1>2, StatusIs
  <1> HIDE DEF g
  <1>4. Formed(findings')
    BY <1>1, <1>3 DEF Sound, FindingsKept, Formed, Statuses
  <1>5. findings' = {to[m] : m \in findings}
    BY <1>1
  <1>6. \A m \in findings : /\ to[m].rule = m.rule /\ to[m].refs = m.refs
                           /\ \A q \in Row : OnRow(to[m], q) => OnRow(m, q)
    BY <1>3
  <1> HIDE DEF to
  <1>7. Apart(findings')
    BY <1>5, <1>6, ImageApart DEF Sound, FindingsKept
  <1> QED
    BY <1>4, <1>7 DEF Sound, setStatusFor, RowsKept, FindingsKept

(* A rule goes, or comes back. *)
LEMMA CatalogueSound ==
    ASSUME Sound, NEW rule \in Rule, DeleteRule(rule) \/ RestoreRule(rule)
    PROVE  Sound'
  BY DEF Sound, DeleteRule, RestoreRule, RowsKept

(* Every step keeps rows, runs and findings what they should be, unless evidence goes during a run. *)
LEMMA SoundStep ==
    ASSUME Sound, [FindingsNext]_findingsVars, Undisturbed'
    PROVE  Sound'
  <1>1. ASSUME NEW e \in Evidence,
               BeginImport(e) \/ WriteRows(e) \/ StoreEngine(e) \/ EndImport(e) \/ RemoveRows(e) \/ ClearFindings(e)
        PROVE  Sound'
    BY <1>1, BeginImportSound, WriteRowsSound, StoreEngineSound, EndImportSound, RemoveRowsSound,
       ClearFindingsSound
  <1>2. ASSUME NEW r \in Reason, RuleRun(r)
        PROVE  Sound'
    BY <1>2, LoadRulesSound, EvaluateRuleSound, RuleFailsSound, ReplaceSound, RefoldSound,
       SaveDiagnosticsSound, PruneSound DEF RuleRun
  <1>3. CASE UNCHANGED findingsVars
    BY <1>3 DEF findingsVars, Sound, RowsKept
  <1> QED
    BY <1>1, <1>2, <1>3, RunManuallySound, TimerFiresSound, SetLevelSound, SetStatusSound, CatalogueSound
       DEF FindingsNext

(* The inductive invariant, while no evidence was removed during a run. *)
SoundUndisturbed == Undisturbed => Sound

(* While no evidence was removed during a run, the rows of the case are those of its files, a run works on
   rows the case has, and every finding of a rule is on one row or folded from several, no record in two. *)
THEOREM FindingsInvariant == FindingsSpec => []SoundUndisturbed
  <1>1. FindingsInit => SoundUndisturbed
    BY SoundInit DEF SoundUndisturbed
  <1>2. SoundUndisturbed /\ [FindingsNext]_findingsVars => SoundUndisturbed'
    BY SoundStep, MixedGrows DEF SoundUndisturbed, Undisturbed
  <1> QED
    BY <1>1, <1>2, PTL DEF FindingsSpec

(***************************************************************************)
(* The analyst's decisions                                                 *)
(***************************************************************************)
(* The rules a run is through with. *)
Through(x) == x.rules \ (x.todo \cup x.rule)

(* The findings fs carry the analyst's latest decisions, the archive those on records whose finding is gone,
   and what a run has stored undecided is out of the archive before it is folded. *)
Carries(fs, saved, dec, rn) ==
    /\ Standing(fs, dec)
    /\ Remembered(fs, saved, dec)
    /\ \A r \in Reason : Fresh(fs, saved, Through(rn[r]))

Carried == Carries(findings, archive, decision, run)

(* Nothing was removed, and no decision taken back, at a moment the archive misses. *)
Clean == mixed \cap {"removal", "revert"} = {}

DecisionInv == Clean => Sound /\ Carried

(* A run that is through with no more than before. *)
LEMMA NoFurther ==
    ASSUME NEW fs, NEW saved, NEW dec, NEW rn, NEW rn2, Carries(fs, saved, dec, rn),
           \A r \in Reason : Through(rn2[r]) \subseteq Through(rn[r])
    PROVE  Carries(fs, saved, dec, rn2)
  BY DEF Carries, Fresh

(* A run is through with rules only, and with none when it is not going on. *)
LEMMA ThroughRules ==
    ASSUME Sound, NEW r \in Reason
    PROVE  /\ Through(run[r]) \subseteq Rule
           /\ run[r].pc \in {"off", "load"} => Through(run[r]) = {}
  BY DEF Sound, RunsKept, RunKept, Runs, Through

(* One call of one reason. *)
LEMMA OneRun ==
    ASSUME Sound, Carried, NEW r \in Reason, NEW x, run' = [run EXCEPT ![r] = x],
           Through(x) \subseteq Through(run[r])
    PROVE  \A q \in Reason : Through(run'[q]) \subseteq Through(run[q])
  BY DEF Sound, RunsKept

(* A call starts through with nothing. *)
LEMMA CallCarries ==
    ASSUME Sound, Carried, NEW r \in Reason, NEW lvl, Call(r, lvl)
    PROVE  \A q \in Reason : Through(run'[q]) \subseteq Through(run[q])
  <1> DEFINE x == [NoRun EXCEPT !.pc = "load", !.level = lvl]
  <1>1. run' = [run EXCEPT ![r] = x]
    BY DEF Call
  <1>2. x.rules = {}
    BY DEF NoRun
  <1> HIDE DEF x
  <1> QED
    BY <1>1, <1>2, OneRun DEF Through

(* Steps that leave the findings, the archive and the decisions alone. *)
LEMMA QuietCarries ==
    ASSUME Sound, Carried, UNCHANGED <<findings, archive, decision>>,
           \A r \in Reason : Through(run'[r]) \subseteq Through(run[r])
    PROVE  Carried'
  BY NoFurther DEF Carried

(* Imports, removed rows and the catalogue touch neither findings nor archive. *)
LEMMA OtherCarries ==
    ASSUME Sound, Carried,
           \/ UNCHANGED findingsVars
           \/ \E e \in Evidence : BeginImport(e) \/ WriteRows(e) \/ EndImport(e) \/ RemoveRows(e)
           \/ \E rule \in Rule : DeleteRule(rule) \/ RestoreRule(rule)
    PROVE  Carried'
  <1>1. UNCHANGED <<findings, archive, decision, run>>
    BY DEF findingsVars, BeginImport, WriteRows, EndImport, RemoveRows, DeleteRule, RestoreRule
  <1> QED
    BY <1>1, QuietCarries

(* The starts of a run. *)
LEMMA StartCarries ==
    ASSUME Sound, Carried, RunManually \/ TimerFires \/ \E lvl \in {2, 5} : setDetectionLevel(lvl)
    PROVE  Carried'
  <1>1. UNCHANGED <<findings, archive, decision>>
    BY DEF RunManually, TimerFires, setDetectionLevel
  <1>2. UNCHANGED run \/ \E r \in Reason, lvl \in {2, 5, level} : Call(r, lvl)
    BY DEF RunManually, TimerFires, setDetectionLevel, Reason
  <1>3. \A q \in Reason : Through(run'[q]) \subseteq Through(run[q])
    BY <1>2, CallCarries
  <1> QED
    BY <1>1, <1>3, QuietCarries

(* The rules a run has loaded are all still to do. *)
LEMMA LoadRulesCarries ==
    ASSUME Sound, Carried, NEW r \in Reason, LoadRules(r)
    PROVE  Carried'
  <1> DEFINE x == [run[r] EXCEPT !.rules = catalogue, !.todo = catalogue, !.seen = rows, !.pc = "next"]
  <1>1. UNCHANGED <<findings, archive, decision>>
    BY DEF LoadRules
  <1>2. run' = [run EXCEPT ![r] = NoRun] \/ run' = [run EXCEPT ![r] = x]
    BY DEF LoadRules
  <1>3. run[r] \in Runs
    BY DEF Sound, RunsKept
  <1>4. NoRun.rules = {} /\ x.rules = x.todo
    BY <1>3 DEF NoRun, Runs
  <1> HIDE DEF x
  <1>5. \A q \in Reason : Through(run'[q]) \subseteq Through(run[q])
    BY <1>2, <1>4, OneRun DEF Through
  <1> QED
    BY <1>1, <1>5, QuietCarries

(* A rule that was evaluated is not through until its findings are stored. *)
LEMMA EvaluateRuleCarries ==
    ASSUME Sound, Carried, NEW r \in Reason, EvaluateRule(r)
    PROVE  Carried'
  <1> DEFINE rule == CHOOSE rule \in run[r].todo : TRUE
             found == {FoundOn(rule, q) : q \in {p \in run[r].seen : p.rec \in Matches[rule]}}
             x == [run[r] EXCEPT !.found = found, !.todo = @ \ {rule}, !.rule = {rule}, !.pc = "store"]
  <1>1. UNCHANGED <<findings, archive, decision>>
    BY DEF EvaluateRule
  <1>2. run[r] \in Runs /\ RunKept(run[r], rows) /\ run[r].pc = "next"
    BY DEF EvaluateRule, Sound, RunsKept
  <1>3. rule \in Rule /\ run[r].seen \subseteq rows /\ run[r].rule = {}
    BY <1>2 DEF RunKept, Runs
  <1>4. withRecordKeys(Raised(rule, run[r].seen)) = found
    BY <1>3, RaisedIs
  <1> HIDE DEF rule
  <1>5. run' = [run EXCEPT ![r] = x]
    BY <1>4 DEF EvaluateRule, rule, Sound, RunsKept, Runs
  <1> HIDE DEF found
  <1>6. x.rules = run[r].rules /\ x.todo = run[r].todo \ {rule} /\ x.rule = {rule}
    BY <1>2 DEF Runs
  <1> HIDE DEF x
  <1>7. \A q \in Reason : Through(run'[q]) \subseteq Through(run[q])
    BY <1>3, <1>5, <1>6, OneRun DEF Through
  <1> QED
    BY <1>1, <1>7, QuietCarries

(* The diagnostics are saved. *)
LEMMA SaveDiagnosticsCarries ==
    ASSUME Sound, Carried, NEW r \in Reason, saveDiagnostics(r)
    PROVE  Carried'
  <1> DEFINE x == [run[r] EXCEPT !.pc = "prune"]
  <1>1. UNCHANGED <<findings, archive, decision>> /\ run' = [run EXCEPT ![r] = x]
    BY DEF saveDiagnostics
  <1>2. x.rules = run[r].rules /\ x.todo = run[r].todo /\ x.rule = run[r].rule
    BY DEF Sound, RunsKept, Runs
  <1> HIDE DEF x
  <1>3. \A q \in Reason : Through(run'[q]) \subseteq Through(run[q])
    BY <1>1, <1>2, OneRun DEF Through
  <1> QED
    BY <1>1, <1>3, QuietCarries

(* A rule that fails keeps its findings: what the archive had of them was looked at. *)
LEMMA RuleFailsCarries ==
    ASSUME Sound, Carried, NEW r \in Reason, RuleFails(r), Clean'
    PROVE  Carried'
  <1> DEFINE rule == CHOOSE rule \in run[r].todo : TRUE
             stale == {k \in DOMAIN archive : k[1] = rule /\ archive[k].status # LastDecision(k)}
             x == [run[r] EXCEPT !.todo = @ \ {rule}, !.failed = @ \cup {rule},
                                 !.seen = IF run[r].todo = {rule} THEN {} ELSE @,
                                 !.pc = IF run[r].todo = {rule} THEN "refold" ELSE "next"]
  <1>1. UNCHANGED <<findings, archive, decision>>
    BY DEF RuleFails
  <1>2. run[r] \in Runs /\ RunKept(run[r], rows) /\ run[r].pc = "next"
    BY DEF Sound, RunsKept, RuleFails
  <1>3. run' = [run EXCEPT ![r] = x]
    BY <1>2 DEF RuleFails, Runs
  <1>4. x.rules = run[r].rules /\ x.todo = run[r].todo \ {rule} /\ x.rule = run[r].rule
    BY <1>2 DEF Runs
  <1>5. stale = {}
    BY DEF RuleFails, Clean
  <1>6. \A k \in DOMAIN archive : k[1] = rule => archive[k].status = Last(decision, k)
    BY <1>5 DEF LastDecision, Last
  <1>7. rule \in run[r].todo
    BY <1>2 DEF RunKept
  <1>8. rule \in Rule
    BY <1>2, <1>7 DEF Runs, RunKept
  <1> HIDE DEF x, rule, stale
  <1>9. Fresh(findings, archive, {rule})
    <2> SUFFICES ASSUME NEW f \in findings, NEW q \in Row, f.rule = rule, OnRow(f, q), f.status = "new"
                 PROVE  Of(archive, <<rule, q.rec>>) = "new"
      BY DEF Fresh
    <2>1. Last(decision, <<rule, q.rec>>) = "new"
      BY <1>8 DEF Carried, Carries, Standing
    <2>2. <<rule, q.rec>>[1] = rule
      OBVIOUS
    <2> QED
      BY <1>6, <2>1, <2>2 DEF Of
  <1>10. \A q \in Reason : Through(run'[q]) \subseteq Through(run[q]) \cup {rule}
    BY <1>3, <1>4 DEF Through, Sound, RunsKept
  <1>11. \A q \in Reason : Fresh(findings, archive, Through(run'[q]))
    BY <1>9, <1>10 DEF Carried, Carries, Fresh
  <1> QED
    BY <1>1, <1>11 DEF Carried, Carries

(* Findings that go are archived first: the analyst's decisions are not lost with them. *)
LEMMA RemovalCarries ==
    ASSUME NEW fs, NEW gs, gs \subseteq fs, NEW saved, NEW dec, NEW rn, Formed(fs), Apart(fs),
           Carries(fs, saved, dec, rn), \A r \in Reason : Through(rn[r]) \subseteq Rule
    PROVE  Carries(fs \ gs, Archived(gs, saved), dec, rn)
  <1> DEFINE rest == fs \ gs
             new == Archived(gs, saved)
  <1>1. Formed(gs) /\ Apart(gs)
    BY DEF Formed, Apart
  <1>2. ASSUME NEW rule \in Rule, NEW x \in Record
        PROVE  /\ \A f \in gs, q \in Row : f.rule = rule /\ OnRow(f, q) /\ q.rec = x => Of(new, <<rule, x>>) = f.status
               /\ Gone(gs, rule, x) => Of(new, <<rule, x>>) = Of(saved, <<rule, x>>)
    BY <1>1, ArchivedRecord
  <1>3. \A f \in rest : f \in fs /\ f \notin gs
    OBVIOUS
  <1>4. \A f \in fs : f \in rest \/ f \in gs
    OBVIOUS
  <1> HIDE DEF rest, new
  <1>5. Standing(rest, dec)
    BY <1>3 DEF Carries, Standing
  <1>6. Remembered(rest, new, dec)
    <2> SUFFICES ASSUME NEW rule \in Rule, NEW x \in Record, Gone(rest, rule, x)
                 PROVE  Of(new, <<rule, x>>) = Last(dec, <<rule, x>>)
      BY DEF Remembered
    <2>1. CASE Gone(gs, rule, x)
      <3>1. Gone(fs, rule, x)
        BY <1>4, <2>1 DEF Gone
      <3> QED
        BY <1>2, <2>1, <3>1 DEF Carries, Remembered
    <2>2. CASE ~Gone(gs, rule, x)
      <3>1. PICK f \in gs, q \in Row : f.rule = rule /\ OnRow(f, q) /\ q.rec = x
        BY <2>2 DEF Gone
      <3>2. f.status = Last(dec, <<rule, x>>)
        BY <3>1 DEF Carries, Standing
      <3> QED
        BY <1>2, <3>1, <3>2
    <2> QED
      BY <2>1, <2>2
  <1>7. ASSUME NEW r \in Reason PROVE Fresh(rest, new, Through(rn[r]))
    <2> SUFFICES ASSUME NEW f \in rest, NEW q \in Row, f.rule \in Through(rn[r]), OnRow(f, q), f.status = "new"
                 PROVE  Of(new, <<f.rule, q.rec>>) = "new"
      BY DEF Fresh
    <2>1. f.rule \in Rule /\ q.rec \in Record /\ f \in fs /\ f \notin gs
      BY <1>3, NamesApart
    <2>2. Gone(gs, f.rule, q.rec)
      <3> SUFFICES ASSUME NEW g \in gs, NEW p \in Row, g.rule = f.rule, OnRow(g, p), p.rec = q.rec PROVE FALSE
        BY DEF Gone
      <3>1. p \in g.refs /\ g \in fs
        BY DEF OnRow
      <3> QED
        BY <2>1, <3>1 DEF Apart
    <2>3. Of(saved, <<f.rule, q.rec>>) = "new"
      BY <2>1 DEF Carries, Fresh
    <2> QED
      BY <1>2, <2>1, <2>2, <2>3
  <1> QED
    BY <1>5, <1>6, <1>7 DEF Carries, rest, new

(* Evidence goes: the decisions on its findings are archived with those on all others. *)
LEMMA ClearFindingsCarries ==
    ASSUME Sound, Carried, NEW e \in Evidence, ClearFindings(e)
    PROVE  Carried'
  <1> DEFINE kept == {f \in findings : f.rule = "engine" /\ ~EngineOf(f, e)}
             gone == findings \ kept
  <1>1. findings' = kept /\ archive' = Archived(gone, archive) /\ UNCHANGED <<decision, run>>
    BY DEF ClearFindings
  <1>2. kept = findings \ gone /\ gone \subseteq findings
    OBVIOUS
  <1> HIDE DEF kept, gone
  <1>3. Carries(findings \ gone, Archived(gone, archive), decision, run)
    BY <1>2, RemovalCarries, ThroughRules DEF Sound, FindingsKept, Carried
  <1> QED
    BY <1>1, <1>2, <1>3 DEF Carried

(* Orphans go, archived first. *)
LEMMA PruneCarries ==
    ASSUME Sound, Carried, NEW r \in Reason, pruneOrphanFindings(r)
    PROVE  Carried'
  <1> DEFINE orphans == {f \in findings : f.rule \notin run[r].rules \cup {"engine"} /\ ~decided(f)}
  <1>1. /\ findings' = findings \ orphans /\ run' = [run EXCEPT ![r] = NoRun] /\ decision' = decision
        /\ archive' = (IF orphans = {} THEN archive ELSE Archived(orphans, archive))
    BY DEF pruneOrphanFindings
  <1>2. orphans \subseteq findings
    OBVIOUS
  <1> HIDE DEF orphans
  <1>3. Carries(findings \ orphans, Archived(orphans, archive), decision, run)
    BY <1>2, RemovalCarries, ThroughRules DEF Sound, FindingsKept, Carried
  <1>4. Carries(findings', archive', decision, run)
    <2>1. CASE orphans = {}
      <3>1. findings' = findings /\ archive' = archive
        BY <1>1, <2>1
      <3> QED
        BY <3>1 DEF Carried
    <2>2. CASE orphans # {}
      BY <1>1, <1>3, <2>2
    <2> QED
      BY <2>1, <2>2
  <1>5. \A q \in Reason : Through(run'[q]) \subseteq Through(run[q])
    BY <1>1, OneRun DEF Through, NoRun
  <1> QED
    BY <1>1, <1>4, <1>5, NoFurther DEF Carried

(* The findings of an engine carry no decision that is looked at here. *)
LEMMA StoreEngineCarries ==
    ASSUME Sound, Carried, NEW e \in Evidence, StoreEngine(e)
    PROVE  Carried'
  <1> DEFINE cited == {r \in rows : r.rec \in RecordsOf[e]}
             new == withRecordKeys({Finding("engine", <<"engine", r>>, {r}) : r \in cited})
  <1>1. findings' = findings \cup new /\ UNCHANGED <<archive, decision, run>>
    BY DEF StoreEngine
  <1>2. \A f \in new : f.rule = "engine"
    BY DEF withRecordKeys, Finding
  <1> HIDE DEF new
  <1>3. \A f \in findings' : f \in findings \/ f.rule \notin Rule
    BY <1>1, <1>2, NamesApart
  <1>4. Standing(findings', decision)
    BY <1>3 DEF Carried, Carries, Standing
  <1>5. Remembered(findings', archive, decision)
    <2>1. \A rule \in Rule, x \in Record : Gone(findings', rule, x) => Gone(findings, rule, x)
      BY <1>1 DEF Gone
    <2> QED
      BY <2>1 DEF Carried, Carries, Remembered
  <1>6. \A r \in Reason : Fresh(findings', archive, Through(run[r]))
    <2> SUFFICES ASSUME NEW r \in Reason PROVE Fresh(findings', archive, Through(run[r]))
      OBVIOUS
    <2>1. Through(run[r]) \subseteq Rule
      BY ThroughRules
    <2> QED
      BY <1>3, <2>1 DEF Carried, Carries, Fresh
  <1> QED
    BY <1>1, <1>4, <1>5, <1>6 DEF Carried, Carries

(* What a run stores of a rule carries the decisions: a finding on one row its own, and a fold is of
   records without one. *)
LEMMA RebuiltStands ==
    ASSUME NEW rule \in Rule, NEW rs \in SUBSET Row, \A q, p \in rs : q.rec = p.rec => q = p,
           NEW fs, NEW saved, NEW lvl, NEW dec, Formed(fs), Entries(saved), Standing(fs, dec),
           \A x \in Record : Of(saved, <<rule, x>>) = Last(dec, <<rule, x>>)
    PROVE  Standing(Rebuilt({FoundOn(rule, q) : q \in rs}, fs, saved, lvl), dec)
  <1> DEFINE found == {FoundOn(rule, q) : q \in rs}
             ds == Down(found, fs, saved, lvl)
             new == Rebuilt(found, fs, saved, lvl)
  <1>1. \A f \in found : \E q \in rs : f = FoundOn(rule, q)
    OBVIOUS
  <1>2. Formed(found) /\ Apart(found) /\ \A f \in found : f.rule = rule
    BY FoundFormed
  <1> HIDE DEF found
  <1>3. ds \subseteq found /\ \A f \in ds : PreviousOf(f, fs, saved) \subseteq {"new"}
    BY DEF Down
  <1>4. new = {GivenBack(m, fs, saved) : m \in (found \ ds) \cup Folds(ds)}
    BY RebuiltIs
  <1> HIDE DEF ds, new
  <1>5. ASSUME NEW f \in found
        PROVE  \E q \in rs : /\ IsFinding(f) /\ OnRow(f, q) /\ f.rule = rule /\ f.status = "new" /\ ~Several(f)
                             /\ \/ PreviousOf(f, fs, saved) = {Last(dec, <<rule, q.rec>>)}
                                \/ PreviousOf(f, fs, saved) = {} /\ Last(dec, <<rule, q.rec>>) = "new"
    <2>1. PICK q \in rs : f = FoundOn(rule, q)
      BY <1>1
    <2>2. q \in Row /\ q.rec \in Record
      BY NamesApart
    <2>3. /\ IsFinding(FoundOn(rule, q)) /\ OnRow(FoundOn(rule, q), q) /\ FoundOn(rule, q).rule = rule
          /\ FoundOn(rule, q).status = "new"
      BY <2>2, FoundIsOnRow
    <2>4. \/ PreviousOf(FoundOn(rule, q), fs, saved) = {Last(dec, <<rule, q.rec>>)}
          \/ PreviousOf(FoundOn(rule, q), fs, saved) = {} /\ Last(dec, <<rule, q.rec>>) = "new"
      BY <2>2, PreviousIsLast
    <2>5. ~Several(f)
      BY <2>1, <2>2, <2>3, OnRowNames
    <2> QED
      BY <2>1, <2>3, <2>4, <2>5
  <1>6. \A m \in Folds(ds) :
           \/ m \in ds
           \/ /\ Several(m) /\ m.rule \in Rule
              /\ \A q \in m.refs : \E f \in ds : f.rule = m.rule /\ q \in f.refs
    <2>1. \A f \in ds : f.rule \in Rule
      BY <1>2, <1>3
    <2> SUFFICES ASSUME NEW m \in Folds(ds)
                 PROVE  \/ m \in ds
                        \/ /\ Several(m) /\ m.rule \in Rule
                           /\ \A q \in m.refs : \E f \in ds : f.rule = m.rule /\ q \in f.refs
      OBVIOUS
    <2> QED
      BY <1>2, <1>3, <2>1, FoldsKeep
  <1>7. Formed((found \ ds) \cup Folds(ds))
    BY <1>2, <1>3, FoldsKeep
  <1>8. ASSUME NEW m \in (found \ ds) \cup Folds(ds), NEW g, g = GivenBack(m, fs, saved)
        PROVE  /\ \A q \in Row : OnRow(g, q) => g.status = Last(dec, <<g.rule, q.rec>>)
               /\ Several(g) => \A q \in g.refs : Last(dec, <<g.rule, q.rec>>) = "new"
    <2>1. IsFinding(m)
      BY <1>7 DEF Formed
    <2>2. /\ g.rule = m.rule /\ g.refs = m.refs /\ Several(g) = Several(m) /\ \A q : OnRow(g, q) = OnRow(m, q)
          /\ PreviousOf(m, fs, saved) = {} => g.status = m.status
          /\ PreviousOf(m, fs, saved) # {} => g.status \in PreviousOf(m, fs, saved)
      BY <1>8, <2>1, GivenBackIs
    <2>3. CASE m \in found
      <3>1. PICK q \in rs : /\ OnRow(m, q) /\ m.rule = rule /\ m.status = "new" /\ ~Several(m)
                            /\ \/ PreviousOf(m, fs, saved) = {Last(dec, <<rule, q.rec>>)}
                               \/ PreviousOf(m, fs, saved) = {} /\ Last(dec, <<rule, q.rec>>) = "new"
        BY <1>5, <2>3
      <3>2. g.status = Last(dec, <<rule, q.rec>>)
        BY <2>2, <3>1
      <3>3. \A p \in Row : OnRow(m, p) => p = q
        BY <3>1 DEF OnRow
      <3> QED
        BY <2>2, <3>1, <3>2, <3>3
    <2>4. CASE m \notin found
      <3>1. /\ Several(m) /\ m.rule \in Rule
            /\ \A q \in m.refs : \E f \in ds : f.rule = m.rule /\ q \in f.refs
        BY <1>3, <1>6, <2>4
      <3>2. \A q \in Row : ~OnRow(m, q)
        BY <3>1, OnRowNames
      <3>3. ASSUME NEW q \in m.refs PROVE Last(dec, <<m.rule, q.rec>>) = "new"
        <4>1. PICK f \in ds : f.rule = m.rule /\ q \in f.refs
          BY <3>1
        <4>2. PICK p \in rs : /\ OnRow(f, p) /\ f.rule = rule
                              /\ \/ PreviousOf(f, fs, saved) = {Last(dec, <<rule, p.rec>>)}
                                 \/ PreviousOf(f, fs, saved) = {} /\ Last(dec, <<rule, p.rec>>) = "new"
          BY <1>3, <1>5
        <4>3. q = p
          BY <4>1, <4>2 DEF OnRow
        <4>4. PreviousOf(f, fs, saved) \subseteq {"new"}
          BY <1>3
        <4> QED
          BY <4>1, <4>2, <4>3, <4>4
      <3> QED
        BY <2>2, <3>1, <3>2, <3>3
    <2> QED
      BY <2>3, <2>4
  <1> SUFFICES ASSUME NEW g \in new
               PROVE  /\ \A q \in Row : OnRow(g, q) => g.status = Last(dec, <<g.rule, q.rec>>)
                      /\ Several(g) => \A q \in g.refs : Last(dec, <<g.rule, q.rec>>) = "new"
    BY DEF new, found, Standing
  <1>9. PICK m \in (found \ ds) \cup Folds(ds) : g = GivenBack(m, fs, saved)
    BY <1>4
  <1> QED
    BY <1>8, <1>9

(* The findings of a rule are replaced: what was decided on them comes back. *)
LEMMA ReplaceCarries ==
    ASSUME Sound, Carried, NEW r \in Reason, replaceFindings(r)
    PROVE  Carried'
  <1> DEFINE current == {f \in findings : f.rule \in run[r].rule}
             saved == Archived(current, archive)
             rest == findings \ current
             new == Rebuilt(run[r].found, current, saved, run[r].level)
             x == [run[r] EXCEPT !.found = {}, !.rule = {}, !.seen = IF run[r].todo = {} THEN {} ELSE @,
                                 !.pc = IF run[r].todo = {} THEN "refold" ELSE "next"]
  <1>1. run[r] \in Runs /\ RunKept(run[r], rows) /\ run[r].pc = "store"
    BY DEF replaceFindings, Sound, RunsKept
  <1>2. PICK rule \in Rule :
           run[r].rule = {rule} /\ run[r].found = {FoundOn(rule, q) : q \in {p \in run[r].seen : p.rec \in Matches[rule]}}
    BY <1>1 DEF RunKept
  <1>3. findings' = rest \cup new /\ archive' = saved /\ decision' = decision
    BY DEF replaceFindings
  <1>4. /\ current \subseteq findings /\ \A f \in current : f.rule = rule
        /\ \A f \in rest : f.rule # rule /\ f \in findings
    BY <1>2
  <1>5. Formed(current) /\ Entries(saved)
    <2>1. Formed(current)
      BY <1>4 DEF Sound, FindingsKept, Formed
    <2> QED
      BY <2>1, ArchivedEntries DEF Sound, FindingsKept
  <1>6. Standing(current, decision)
    BY <1>4 DEF Carried, Carries, Standing
  <1>7. run' = [run EXCEPT ![r] = x]
    BY DEF replaceFindings, Sound, RunsKept, Runs
  <1>8. x.rules = run[r].rules /\ x.todo = run[r].todo /\ x.rule = {}
    BY <1>1 DEF Runs
  <1> HIDE DEF current, saved, x
  <1>9. Carries(rest, saved, decision, run)
    <2> HIDE DEF rest
    <2>1. Carries(findings \ current, Archived(current, archive), decision, run)
      BY <1>4, RemovalCarries, ThroughRules DEF Sound, FindingsKept, Carried
    <2> QED
      BY <2>1 DEF rest, saved
  <1> HIDE DEF rest
  <1>10. \A y \in Record : Of(saved, <<rule, y>>) = Last(decision, <<rule, y>>)
    <2>1. \A y \in Record : Gone(rest, rule, y)
      BY <1>4 DEF Gone
    <2> QED
      BY <1>9, <2>1 DEF Carries, Remembered
  <1>11. Standing(new, decision) /\ \A f \in new : f.rule = rule
    <2> DEFINE rs == {p \in run[r].seen : p.rec \in Matches[rule]}
    <2>1. rs \in SUBSET Row /\ \A q, p \in rs : q.rec = p.rec => q = p
      BY <1>1 DEF Runs, RunKept, Sound, RowsKept
    <2>2. run[r].found = {FoundOn(rule, q) : q \in rs}
      BY <1>2
    <2> HIDE DEF rs
    <2>3. Standing(Rebuilt({FoundOn(rule, q) : q \in rs}, current, saved, run[r].level), decision)
      BY <1>5, <1>6, <1>10, <2>1, RebuiltStands
    <2>4. \A f \in Rebuilt({FoundOn(rule, q) : q \in rs}, current, saved, run[r].level) : f.rule = rule
      BY <1>5, <2>1, RebuiltFormed
    <2> QED
      BY <2>2, <2>3, <2>4
  <1> HIDE DEF new
  <1>12. Standing(findings', decision)
    BY <1>3, <1>9, <1>11 DEF Carries, Standing
  <1>13. Remembered(findings', saved, decision)
    <2>1. \A other \in Rule, y \in Record : Gone(findings', other, y) => Gone(rest, other, y)
      BY <1>3 DEF Gone
    <2> QED
      BY <1>9, <2>1 DEF Carries, Remembered
  <1>14. \A q \in Reason : Through(run'[q]) \subseteq Through(run[q]) \cup {rule}
    BY <1>2, <1>7, <1>8 DEF Through, Sound, RunsKept
  <1>15. ASSUME NEW q \in Reason PROVE Fresh(findings', saved, Through(run'[q]))
    <2> SUFFICES ASSUME NEW f \in findings', NEW p \in Row, f.rule \in Through(run'[q]), OnRow(f, p), f.status = "new"
                 PROVE  Of(saved, <<f.rule, p.rec>>) = "new"
      BY DEF Fresh
    <2>1. CASE f \in new
      <3>1. Last(decision, <<rule, p.rec>>) = "new" /\ f.rule = rule
        BY <1>11, <2>1 DEF Standing
      <3> QED
        BY <1>10, <3>1, NamesApart
    <2>2. CASE f \in rest
      <3>1. f.rule \in Through(run[q])
        BY <1>4, <1>14, <2>2
      <3> QED
        BY <1>9, <2>2, <3>1 DEF Carries, Fresh
    <2> QED
      BY <1>3, <2>1, <2>2
  <1> QED
    BY <1>3, <1>12, <1>13, <1>15 DEF Carried, Carries

(* The findings of widespread rules are folded: only undecided ones, which the archive knows as undecided. *)
LEMMA RefoldCarries ==
    ASSUME Sound, Carried, NEW r \in Reason, refoldWidespread(r)
    PROVE  Carried'
  <1> DEFINE x == [run[r] EXCEPT !.pc = "diags"]
  <1>1. run[r] \in Runs /\ RunKept(run[r], rows) /\ run[r].pc = "refold"
    BY DEF refoldWidespread, Sound, RunsKept
  <1>2. run' = [run EXCEPT ![r] = x] /\ UNCHANGED <<archive, decision>>
    BY DEF refoldWidespread
  <1>3. Through(x) = Through(run[r]) /\ Through(run[r]) = run[r].rules
    BY <1>1 DEF Through, Runs, RunKept
  <1> HIDE DEF x
  <1>4. PICK ds \in SUBSET findings :
              /\ \A f \in ds : f.rule \in run[r].rules /\ f.rule \in Rule /\ ~decided(f)
              /\ \A f \in findings : f \in findings' \/ f \in ds
              /\ \A f \in findings' :
                    \/ f \in findings
                    \/ /\ Several(f) /\ f.status = "new" /\ f.rule \in Rule
                       /\ \A q \in f.refs : \E g \in ds : g.rule = f.rule /\ q \in g.refs
    BY RefoldFormed DEF refoldWidespread, Sound, FindingsKept
  <1>5. ASSUME NEW g \in ds, NEW q \in g.refs PROVE Last(decision, <<g.rule, q.rec>>) = "new"
    <2>1. g \in findings /\ g.rule \in Rule /\ g.status = "new" /\ q \in Row
      BY <1>4, FormedRefs DEF decided, Sound, FindingsKept
    <2>2. CASE Several(g)
      BY <2>1, <2>2 DEF Carried, Carries, Standing
    <2>3. ASSUME NEW p \in Row, OnRow(g, p) PROVE Last(decision, <<g.rule, q.rec>>) = "new"
      <3>1. p = q
        BY <2>3 DEF OnRow
      <3> QED
        BY <2>1, <2>3, <3>1 DEF Carried, Carries, Standing
    <2> QED
      BY <2>1, <2>2, <2>3 DEF Sound, FindingsKept, Formed
  <1>6. \A f \in findings' : f \in findings \/ (Several(f) /\ \A q \in Row : ~OnRow(f, q))
    BY <1>4, OnRowNames
  <1>7. Standing(findings', decision)
    <2> SUFFICES ASSUME NEW f \in findings', f.rule \in Rule
                 PROVE  /\ \A q \in Row : OnRow(f, q) => f.status = Last(decision, <<f.rule, q.rec>>)
                        /\ Several(f) => \A q \in f.refs : Last(decision, <<f.rule, q.rec>>) = "new"
      BY DEF Standing
    <2>1. CASE f \in findings
      BY <2>1 DEF Carried, Carries, Standing
    <2>2. CASE f \notin findings
      <3>1. \A q \in f.refs : \E g \in ds : g.rule = f.rule /\ q \in g.refs
        BY <1>4, <2>2
      <3>2. \A q \in f.refs : Last(decision, <<f.rule, q.rec>>) = "new"
        BY <1>5, <3>1
      <3> QED
        BY <1>6, <2>2, <3>2
    <2> QED
      BY <2>1, <2>2
  <1>8. Remembered(findings', archive, decision)
    <2> SUFFICES ASSUME NEW rule \in Rule, NEW y \in Record, Gone(findings', rule, y)
                 PROVE  Of(archive, <<rule, y>>) = Last(decision, <<rule, y>>)
      BY DEF Remembered
    <2>1. CASE Gone(findings, rule, y)
      BY <2>1 DEF Carried, Carries, Remembered
    <2>2. CASE ~Gone(findings, rule, y)
      <3>1. PICK f \in findings, q \in Row : f.rule = rule /\ OnRow(f, q) /\ q.rec = y
        BY <2>2 DEF Gone
      <3>2. f \in ds /\ q \in f.refs
        BY <1>4, <3>1 DEF Gone, OnRow
      <3>3. Last(decision, <<rule, y>>) = "new"
        BY <1>5, <3>1, <3>2
      <3>4. f.rule \in Through(run[r]) /\ f.status = "new"
        BY <1>3, <1>4, <3>2 DEF decided
      <3>5. Of(archive, <<rule, y>>) = "new"
        BY <3>1, <3>4 DEF Carried, Carries, Fresh
      <3> QED
        BY <3>3, <3>5
    <2> QED
      BY <2>1, <2>2
  <1>9. \A q \in Reason : Fresh(findings', archive, Through(run[q]))
    BY <1>6 DEF Carried, Carries, Fresh
  <1>10. Carries(findings', archive, decision, run)
    BY <1>7, <1>8, <1>9 DEF Carries
  <1>11. \A q \in Reason : Through(run'[q]) \subseteq Through(run[q])
    BY <1>2, <1>3, OneRun
  <1> QED
    BY <1>2, <1>10, <1>11, NoFurther DEF Carried

(* The analyst decides: the decision is the finding's, and no other finding is about its record. *)
LEMMA SetStatusCarries ==
    ASSUME Sound, Carried, NEW f \in findings, NEW s \in {"new", "false_positive"}, setStatusFor(f, s), Clean'
    PROVE  Carried'
  <1> DEFINE g == [f EXCEPT !.status = s]
             k == Subject(f)
  <1>1. findings' = (findings \ {f}) \cup {g} /\ UNCHANGED <<archive, run>>
    BY DEF setStatusFor
  <1>2. \A j : Last(decision', j) = IF j = k THEN s ELSE Last(decision, j)
    BY DEF setStatusFor, Last
  <1>3. IsFinding(f) /\ f.key[1] = f.rule /\ (f.rule \in Rule => Several(f) \/ \E q \in Row : OnRow(f, q))
    BY DEF Sound, FindingsKept, Formed
  <1>4. /\ g.rule = f.rule /\ g.refs = f.refs /\ g.status = s
        /\ Several(g) = Several(f) /\ \A q : OnRow(g, q) = OnRow(f, q)
    BY <1>3, StatusIs
  <1>5. ASSUME NEW rule \in Rule, NEW x \in Record, <<rule, x>> = k
        PROVE  f.rule = rule /\ \E q \in Row : OnRow(f, q) /\ q.rec = x
    <2>1. k[1] = f.rule /\ <<rule, x>>[1] = rule /\ <<rule, x>>[2] = x
      BY <1>3, KeyOfRule
    <2>2. f.rule = rule
      BY <1>5, <2>1
    <2>3. ~Several(f)
      BY <1>5, SeveralNames, FoldKeysApart DEF Several
    <2>4. PICK q \in Row : OnRow(f, q)
      BY <1>3, <2>2, <2>3
    <2>5. k = <<f.rule, q.rec>>
      BY <2>4, OnRowNames
    <2>6. q.rec = x
      BY <1>5, <2>1, <2>5
    <2> QED
      BY <2>2, <2>4, <2>6
  <1>6. \A q \in Row : OnRow(f, q) => k = <<f.rule, q.rec>>
    BY OnRowNames
  <1> HIDE DEF g, k
  <1>7. ASSUME NEW m \in findings, m # f, m.rule \in Rule, NEW q \in m.refs, q \in Row
        PROVE  Last(decision', <<m.rule, q.rec>>) = Last(decision, <<m.rule, q.rec>>)
    <2>1. CASE <<m.rule, q.rec>> # k
      BY <1>2, <2>1
    <2>2. CASE <<m.rule, q.rec>> = k
      <3>1. PICK p \in Row : f.rule = m.rule /\ OnRow(f, p) /\ p.rec = q.rec
        BY <1>5, <1>7, <2>2, NamesApart
      <3> QED
        BY <1>7, <3>1 DEF Sound, FindingsKept, Apart
    <2> QED
      BY <2>1, <2>2
  <1>8. Standing(findings', decision')
    <2> SUFFICES ASSUME NEW m \in findings', m.rule \in Rule
                 PROVE  /\ \A q \in Row : OnRow(m, q) => m.status = Last(decision', <<m.rule, q.rec>>)
                        /\ Several(m) => \A q \in m.refs : Last(decision', <<m.rule, q.rec>>) = "new"
      BY DEF Standing
    <2>1. CASE m \in findings /\ m # f
      <3>1. m.refs \subseteq Row
        BY <2>1, FormedRefs DEF Sound, FindingsKept
      <3>2. \A q \in m.refs : Last(decision', <<m.rule, q.rec>>) = Last(decision, <<m.rule, q.rec>>)
        BY <1>7, <2>1, <3>1
      <3>3. \A q \in Row : OnRow(m, q) => q \in m.refs
        BY DEF OnRow
      <3> QED
        BY <2>1, <3>2, <3>3 DEF Carried, Carries, Standing
    <2>2. CASE m = g
      <3>1. ASSUME NEW q \in Row, OnRow(m, q) PROVE m.status = Last(decision', <<m.rule, q.rec>>)
        BY <1>2, <1>4, <1>6, <2>2, <3>1
      <3>2. ASSUME Several(m), NEW q \in m.refs PROVE Last(decision', <<m.rule, q.rec>>) = "new"
        <4>1. f.rule \in Rule /\ Several(f) /\ q \in f.refs /\ q \in Row
          BY <1>4, <2>2, <3>2, FormedRefs DEF Sound, FindingsKept
        <4>2. \A p \in Row : ~OnRow(f, p)
          BY <4>1, OnRowNames
        <4>3. <<f.rule, q.rec>> # k
          BY <1>5, <4>1, <4>2, NamesApart
        <4>4. Last(decision, <<f.rule, q.rec>>) = "new"
          BY <4>1 DEF Carried, Carries, Standing
        <4> QED
          BY <1>2, <1>4, <2>2, <4>3, <4>4
      <3> QED
        BY <3>1, <3>2
    <2> QED
      BY <1>1, <2>1, <2>2
  <1>9. Remembered(findings', archive, decision')
    <2> SUFFICES ASSUME NEW rule \in Rule, NEW x \in Record, Gone(findings', rule, x)
                 PROVE  Of(archive, <<rule, x>>) = Last(decision', <<rule, x>>)
      BY DEF Remembered
    <2>1. Gone(findings, rule, x)
      BY <1>1, <1>4 DEF Gone
    <2>2. <<rule, x>> # k
      BY <1>5, <2>1 DEF Gone
    <2> QED
      BY <1>2, <2>1, <2>2 DEF Carried, Carries, Remembered
  <1>10. ASSUME NEW r \in Reason PROVE Fresh(findings', archive, Through(run[r]))
    <2>1. CASE s = "new"
      <3>1. ~RunGoing
        BY <2>1 DEF setStatusFor, Clean
      <3>2. Through(run[r]) = {}
        BY <3>1, ThroughRules DEF RunGoing
      <3> QED
        BY <3>2 DEF Fresh
    <2>2. CASE s # "new"
      <3>1. \A m \in findings' : m.status = "new" => m \in findings
        BY <1>1, <1>4, <2>2
      <3> QED
        BY <3>1 DEF Carried, Carries, Fresh
    <2> QED
      BY <2>1, <2>2
  <1> QED
    BY <1>1, <1>8, <1>9, <1>10 DEF Carried, Carries

(* At first nothing is decided. *)
LEMMA CarriedInit == FindingsInit => Carried
  <1> SUFFICES ASSUME FindingsInit PROVE Carried
    OBVIOUS
  <1>1. \A r \in Reason : Through(run[r]) = {}
    BY DEF FindingsInit, NoRun, Through
  <1>2. findings = {} /\ DOMAIN archive = {} /\ DOMAIN decision = {}
    BY DEF FindingsInit
  <1> QED
    BY <1>1, <1>2 DEF Carried, Carries, Standing, Remembered, Fresh, Of, Last

(* Every step keeps the decisions, unless evidence goes or a decision is taken back where the archive
   misses it. *)
LEMMA CarriedStep ==
    ASSUME Sound, Carried, [FindingsNext]_findingsVars, Clean'
    PROVE  Carried'
  <1>1. ASSUME NEW e \in Evidence,
               BeginImport(e) \/ WriteRows(e) \/ StoreEngine(e) \/ EndImport(e) \/ RemoveRows(e) \/ ClearFindings(e)
        PROVE  Carried'
    BY <1>1, OtherCarries, StoreEngineCarries, ClearFindingsCarries
  <1>2. ASSUME NEW r \in Reason, RuleRun(r)
        PROVE  Carried'
    BY <1>2, LoadRulesCarries, EvaluateRuleCarries, RuleFailsCarries, ReplaceCarries, RefoldCarries,
       SaveDiagnosticsCarries, PruneCarries DEF RuleRun
  <1> QED
    BY <1>1, <1>2, OtherCarries, StartCarries, SetStatusCarries DEF FindingsNext

(* What a finding is about, for the property's reader. *)
LEMMA StandingIs ==
    ASSUME Sound, Carried
    PROVE  \A f \in findings : f.rule # "engine" =>
              /\ AboutOneRow(f) => f.status = LastDecision(Subject(f))
              /\ ~AboutOneRow(f) => \A r \in f.refs : LastDecision(<<f.rule, r.rec>>) = "new"
  <1> SUFFICES ASSUME NEW f \in findings, f.rule # "engine"
               PROVE  /\ AboutOneRow(f) => f.status = LastDecision(Subject(f))
                      /\ ~AboutOneRow(f) => \A r \in f.refs : LastDecision(<<f.rule, r.rec>>) = "new"
    OBVIOUS
  <1>1. f.rule \in Rule /\ (Several(f) \/ \E q \in Row : OnRow(f, q))
    BY DEF Sound, FindingsKept, Formed, Rules
  <1>2. \A k : LastDecision(k) = Last(decision, k)
    BY DEF LastDecision, Last
  <1>3. CASE Several(f)
    BY <1>1, <1>2, <1>3, SeveralNames DEF Carried, Carries, Standing
  <1>4. ASSUME NEW q \in Row, OnRow(f, q)
        PROVE  AboutOneRow(f) /\ f.status = LastDecision(Subject(f))
    BY <1>1, <1>2, <1>4, OnRowNames DEF Carried, Carries, Standing
  <1> QED
    BY <1>1, <1>3, <1>4

(* Through every run, fold, import and removal, a finding on one row carries the analyst's latest decision
   on its record, and a decided record is in no fold: unless evidence was removed during a run, or a
   decision taken back where the archive misses it. *)
THEOREM DecisionsStand == FindingsSpec => []DecisionStands
  <1>1. FindingsInit => DecisionInv
    BY SoundInit, CarriedInit DEF DecisionInv
  <1>2. DecisionInv /\ [FindingsNext]_findingsVars => DecisionInv'
    <2> SUFFICES ASSUME DecisionInv, [FindingsNext]_findingsVars, Clean' PROVE Sound' /\ Carried'
      BY DEF DecisionInv
    <2>1. Clean /\ Undisturbed'
      BY MixedGrows DEF Clean, Undisturbed
    <2> QED
      BY <2>1, SoundStep, CarriedStep DEF DecisionInv
  <1>3. DecisionInv => DecisionStands
    BY StandingIs DEF DecisionInv, DecisionStands, Clean
  <1> QED
    BY <1>1, <1>2, <1>3, PTL DEF FindingsSpec

(***************************************************************************)
(* The findings keep up with the rows                                      *)
(***************************************************************************)
Cites(f, rule, q) == f.rule = rule /\ q \in f.refs
Matched(rule, rs) == {q \in rs : q.rec \in Matches[rule]}

(* The findings of a rule are those of its rows: each row is cited once, and at level 5 each finding is one. *)
Full(fs, rule, rs, lvl) ==
    /\ \A f \in fs : f.rule = rule => f.refs \subseteq Matched(rule, rs)
    /\ \A q \in Matched(rule, rs) : \E f \in fs : Cites(f, rule, q) /\ \A g \in fs : Cites(g, rule, q) => g = f
    /\ lvl = 5 => \A f \in fs : f.rule = rule => f.n = 1

(* A run that has loaded its rules. *)
Active(x) == x.pc \notin {"off", "load"}

(* An import is under way. *)
Importing == \E e \in Evidence : files[e] \in {"importing", "written"}

(* One run at most is past loading, at the level and with the rules there are. *)
Single ==
    /\ \A r, q \in Reason : Active(run[r]) /\ Active(run[q]) => r = q
    /\ running <=> \E r \in Reason : Active(run[r])
    /\ \A r \in Reason :
          /\ run[r].pc # "off" => run[r].level = level
          /\ Active(run[r]) => run[r].rules = catalogue
          /\ run[r].pc = "prune" => errors = run[r].failed

(* The rules whose findings a run has replaced. *)
Upheld(x) == x.rules \ (x.todo \cup x.rule \cup x.failed)

(* A run has the findings of the rules it is through with keep up with the rows, unless an import is under
   way, which arms the timer when it ends. *)
Keeping == \A r \in Reason : Active(run[r]) =>
    \/ Importing
    \/ /\ run[r].pc \in {"next", "store"} => run[r].seen = rows
       /\ \A rule \in Upheld(run[r]) : Full(findings, rule, rows, run[r].level)

Settled == ~RunGoing /\ ~timer /\ \A e \in Evidence : files[e] \in {"absent", "present"}

(* When nothing goes on the findings are those of the rows, or the page says they are not. *)
Kept == Settled => Flagged \/ \A rule \in catalogue : Full(findings, rule, rows, level)

Finite == IsFiniteSet(rows) /\ IsFiniteSet(findings)

Quiet == mixed \subseteq {"revert"}

KeepInv == Quiet => Sound /\ Finite /\ Single /\ Keeping /\ Kept

(* What the property says of a rule. *)
LEMMA FullCovers ==
    ASSUME NEW rule, Full(findings, rule, rows, level)
    PROVE  Covers(rule) /\ (level = 5 => \A f \in findings : f.rule = rule => f.n = 1)
  <1> DEFINE own == {f \in findings : f.rule = rule}
             matched == {r \in rows : r.rec \in Matches[rule]}
  <1>1. matched = Matched(rule, rows)
    BY DEF Matched
  <1>2. UNION {f.refs : f \in own} = matched
    <2>1. \A f \in own : f.refs \subseteq matched
      BY <1>1 DEF Full
    <2>2. \A q \in matched : \E f \in own : q \in f.refs
      BY <1>1 DEF Full, Cites
    <2> HIDE DEF own, matched
    <2> QED
      BY <2>1, <2>2
  <1>3. ASSUME NEW q \in matched PROVE Cardinality({f \in own : q \in f.refs}) = 1
    <2>1. PICK f \in findings : Cites(f, rule, q) /\ \A g \in findings : Cites(g, rule, q) => g = f
      BY <1>1 DEF Full
    <2>2. {g \in own : q \in g.refs} = {f}
      BY <2>1 DEF Cites
    <2> QED
      BY <2>2, FS_Singleton
  <1> QED
    BY <1>2, <1>3 DEF Covers, Full

(* Only the findings of the rule matter. *)
LEMMA SameFull ==
    ASSUME NEW fs, NEW gs, NEW rule, NEW rs, NEW lvl, Full(fs, rule, rs, lvl),
           \A f \in fs : f.rule = rule => f \in gs, \A f \in gs : f.rule = rule => f \in fs
    PROVE  Full(gs, rule, rs, lvl)
  <1>1. \A f \in gs : f.rule = rule => f.refs \subseteq Matched(rule, rs)
    BY DEF Full
  <1>2. \A q \in Matched(rule, rs) : \E f \in gs : Cites(f, rule, q) /\ \A g \in gs : Cites(g, rule, q) => g = f
    BY DEF Full, Cites
  <1>3. lvl = 5 => \A f \in gs : f.rule = rule => f.n = 1
    BY DEF Full
  <1> QED
    BY <1>1, <1>2, <1>3 DEF Full

(* Findings that change in their key or status only cite what they cited. *)
LEMMA ImageFull ==
    ASSUME NEW fs, NEW to, NEW rule, NEW rs, NEW lvl, Full(fs, rule, rs, lvl),
           \A m \in fs : to[m].rule = m.rule /\ to[m].refs = m.refs /\ to[m].n = m.n
    PROVE  Full({to[m] : m \in fs}, rule, rs, lvl)
  <1> DEFINE gs == {to[m] : m \in fs}
  <1>1. \A g \in gs : \E m \in fs : g = to[m]
    OBVIOUS
  <1>2. \A m \in fs : to[m] \in gs
    OBVIOUS
  <1> HIDE DEF gs
  <1>3. \A g \in gs : g.rule = rule => g.refs \subseteq Matched(rule, rs)
    BY <1>1 DEF Full
  <1>4. ASSUME NEW q \in Matched(rule, rs)
        PROVE  \E f \in gs : Cites(f, rule, q) /\ \A g \in gs : Cites(g, rule, q) => g = f
    <2>1. PICK m \in fs : Cites(m, rule, q) /\ \A o \in fs : Cites(o, rule, q) => o = m
      BY DEF Full
    <2>2. Cites(to[m], rule, q)
      BY <2>1 DEF Cites
    <2>3. ASSUME NEW g \in gs, Cites(g, rule, q) PROVE g = to[m]
      <3>1. PICK o \in fs : g = to[o]
        BY <1>1
      <3>2. Cites(o, rule, q)
        BY <2>3, <3>1 DEF Cites
      <3> QED
        BY <2>1, <3>1, <3>2
    <2> QED
      BY <1>2, <2>2, <2>3
  <1>5. lvl = 5 => \A g \in gs : g.rule = rule => g.n = 1
    BY <1>1 DEF Full
  <1> QED
    BY <1>3, <1>4, <1>5 DEF Full, gs

(* What a rule found is on each row it matches. *)
LEMMA FoundFull ==
    ASSUME NEW rule \in Rule, NEW rs \in SUBSET Row, NEW lvl
    PROVE  Full({FoundOn(rule, q) : q \in Matched(rule, rs)}, rule, rs, lvl)
  <1> DEFINE found == {FoundOn(rule, q) : q \in Matched(rule, rs)}
  <1>1. \A f \in found : \E q \in Matched(rule, rs) : f = FoundOn(rule, q)
    OBVIOUS
  <1>2. \A q \in Matched(rule, rs) : FoundOn(rule, q) \in found
    OBVIOUS
  <1>3. \A q : FoundOn(rule, q).rule = rule /\ FoundOn(rule, q).refs = {q} /\ FoundOn(rule, q).n = 1
    BY DEF FoundOn
  <1> HIDE DEF found
  <1>4. \A f \in found : f.rule = rule => f.refs \subseteq Matched(rule, rs)
    BY <1>1, <1>3
  <1>5. ASSUME NEW q \in Matched(rule, rs)
        PROVE  \E f \in found : Cites(f, rule, q) /\ \A g \in found : Cites(g, rule, q) => g = f
    <2>1. Cites(FoundOn(rule, q), rule, q)
      BY <1>3 DEF Cites
    <2>2. ASSUME NEW g \in found, Cites(g, rule, q) PROVE g = FoundOn(rule, q)
      <3>1. PICK p \in Matched(rule, rs) : g = FoundOn(rule, p)
        BY <1>1
      <3>2. p = q
        BY <1>3, <2>2, <3>1 DEF Cites
      <3> QED
        BY <3>1, <3>2
    <2> QED
      BY <1>2, <2>1, <2>2
  <1>6. \A f \in found : f.n = 1
    BY <1>1, <1>3
  <1> QED
    BY <1>4, <1>5, <1>6 DEF Full, found

(* A fold cites what the findings of its group cite. *)
LEMMA FoldAtRefs ==
    ASSUME NEW ds, IsFiniteSet(ds), NEW f \in ds
    PROVE  LET m == FoldAt(ds, f.rule, Host(f))
           IN  /\ m.rule = f.rule
               /\ \A q : q \in m.refs <=> \E g \in ds : g.rule = f.rule /\ Host(g) = Host(f) /\ q \in g.refs
  <1> DEFINE grp == Group(ds, f.rule, Host(f))
             m == FoldAt(ds, f.rule, Host(f))
  <1>1. f \in grp /\ grp \subseteq ds /\ \A g : g \in grp <=> g \in ds /\ g.rule = f.rule /\ Host(g) = Host(f)
    BY DEF Group
  <1>2. IsFiniteSet(grp)
    BY <1>1, FS_Subset
  <1>3. CASE Cardinality(grp) = 1
    <2>1. PICK x : grp = {x}
      BY <1>2, <1>3, FS_Singleton
    <2>2. grp = {f}
      BY <1>1, <2>1
    <2>3. m = f
      BY <1>3, <2>2 DEF FoldAt
    <2> HIDE DEF grp, m
    <2> QED
      BY <1>1, <2>2, <2>3 DEF m
  <1>4. CASE Cardinality(grp) # 1
    <2>1. m = Folded(f.rule, Host(f), grp)
      BY <1>4 DEF FoldAt
    <2>2. m.rule = f.rule /\ m.refs = UNION {g.refs : g \in grp}
      BY <2>1, FoldedIs
    <2> HIDE DEF grp, m
    <2>3. \A q : q \in m.refs <=> \E g \in grp : q \in g.refs
      BY <2>2
    <2> QED
      BY <1>1, <2>2, <2>3 DEF m
  <1> QED
    BY <1>3, <1>4

(* Folding drops no row, and cites none twice. *)
LEMMA FoldsFull ==
    ASSUME NEW fs, NEW ds, ds \subseteq fs, IsFiniteSet(ds), NEW rule, NEW rs, NEW lvl, Full(fs, rule, rs, lvl),
           lvl = 5 => ds = {}
    PROVE  Full((fs \ ds) \cup Folds(ds), rule, rs, lvl)
  <1> DEFINE all == (fs \ ds) \cup Folds(ds)
             to(f) == FoldAt(ds, f.rule, Host(f))
  <1>1. \A m \in Folds(ds) : \E f \in ds : m = to(f)
    BY FoldsAre
  <1>2. \A f \in ds : to(f) \in Folds(ds)
    BY FoldsAre
  <1>3. \A f \in ds : /\ to(f).rule = f.rule
                      /\ \A q : q \in to(f).refs <=> \E g \in ds : g.rule = f.rule /\ Host(g) = Host(f) /\ q \in g.refs
    BY FoldAtRefs
  <1>4. \A f \in fs : f \notin ds => f \in all
    OBVIOUS
  <1>5. \A m \in all : (m \in fs /\ m \notin ds) \/ m \in Folds(ds)
    OBVIOUS
  <1>6. Folds(ds) \subseteq all
    OBVIOUS
  <1>7. \A f, g \in ds : f.rule = g.rule /\ Host(f) = Host(g) => to(f) = to(g)
    OBVIOUS
  <1> HIDE DEF all, to
  <1>8. ASSUME NEW m \in all, m.rule = rule PROVE m.refs \subseteq Matched(rule, rs)
    <2>1. CASE m \in fs
      BY <1>8, <2>1 DEF Full
    <2>2. CASE m \in Folds(ds)
      <3>1. PICK f \in ds : m = to(f)
        BY <1>1, <2>2
      <3>2. \A q \in m.refs : \E g \in ds : g.rule = rule /\ q \in g.refs
        BY <1>3, <1>8, <3>1
      <3> QED
        BY <3>2 DEF Full
    <2> QED
      BY <1>5, <2>1, <2>2
  <1>9. ASSUME NEW q \in Matched(rule, rs)
        PROVE  \E f \in all : Cites(f, rule, q) /\ \A g \in all : Cites(g, rule, q) => g = f
    <2>1. PICK f \in fs : Cites(f, rule, q) /\ \A g \in fs : Cites(g, rule, q) => g = f
      BY DEF Full
    <2>2. ASSUME NEW m \in Folds(ds), Cites(m, rule, q) PROVE f \in ds /\ m = to(f)
      <3>1. PICK g \in ds : m = to(g)
        BY <1>1, <2>2
      <3>2. PICK h \in ds : h.rule = g.rule /\ Host(h) = Host(g) /\ q \in h.refs
        BY <1>3, <2>2, <3>1 DEF Cites
      <3>3. Cites(h, rule, q)
        BY <1>3, <2>2, <3>1, <3>2 DEF Cites
      <3>4. h = f
        BY <2>1, <3>3
      <3> QED
        BY <1>7, <3>1, <3>2, <3>4
    <2>3. CASE f \in ds
      <3>1. Cites(to(f), rule, q)
        BY <1>3, <2>1, <2>3 DEF Cites
      <3>2. ASSUME NEW m \in all, Cites(m, rule, q) PROVE m = to(f)
        BY <1>5, <2>1, <2>2, <2>3, <3>2
      <3> QED
        BY <1>2, <1>6, <2>3, <3>1, <3>2
    <2>4. CASE f \notin ds
      <3>1. ASSUME NEW m \in all, Cites(m, rule, q) PROVE m = f
        BY <1>5, <2>1, <2>2, <2>4, <3>1
      <3> QED
        BY <1>4, <2>1, <2>4, <3>1
    <2> QED
      BY <2>3, <2>4
  <1>10. ASSUME lvl = 5 PROVE \A f \in all : f.rule = rule => f.n = 1
    <2>1. \A m \in all : m \in fs
      BY <1>1, <1>5, <1>10
    <2> QED
      BY <1>10, <2>1 DEF Full
  <1> QED
    BY <1>8, <1>9, <1>10 DEF Full, all

(* The image of a finite set is finite. *)
LEMMA ImageFinite ==
    ASSUME NEW S, IsFiniteSet(S), NEW to
    PROVE  IsFiniteSet({to[m] : m \in S})
  <1> DEFINE T == {to[m] : m \in S}
             M == [m \in S |-> to[m]]
  <1>1. \A m \in S : M[m] = to[m] /\ to[m] \in T
    OBVIOUS
  <1>2. \A t \in T : \E m \in S : t = to[m]
    OBVIOUS
  <1>3. M \in [S -> T]
    OBVIOUS
  <1> HIDE DEF M, T
  <1>4. M \in Surjection(S, T)
    BY <1>1, <1>2, <1>3 DEF Surjection
  <1>5. IsFiniteSet(T)
    BY <1>4, FS_Surjection
  <1> QED
    BY <1>5 DEF T

(* Folding makes a finite number of findings of a finite number. *)
LEMMA FoldsFinite ==
    ASSUME NEW ds, IsFiniteSet(ds)
    PROVE  IsFiniteSet(Folds(ds))
  <1> DEFINE to == [f \in ds |-> FoldAt(ds, f.rule, Host(f))]
             img == {to[f] : f \in ds}
  <1>1. \A f \in ds : to[f] = FoldAt(ds, f.rule, Host(f))
    OBVIOUS
  <1> HIDE DEF to
  <1>2. IsFiniteSet(img)
    BY ImageFinite
  <1>3. \A m \in Folds(ds) : m \in img
    BY <1>1, FoldsAre
  <1>4. Folds(ds) \in SUBSET img
    BY <1>3
  <1> HIDE DEF img
  <1> QED
    BY <1>2, <1>4, FS_Subset

(* What a run stores of a rule is on each row it saw that the rule matches. *)
LEMMA RebuiltFull ==
    ASSUME NEW rule \in Rule, NEW rs \in SUBSET Row, \A q, p \in rs : q.rec = p.rec => q = p, IsFiniteSet(rs),
           NEW fs, NEW saved, NEW lvl
    PROVE  LET new == Rebuilt({FoundOn(rule, q) : q \in Matched(rule, rs)}, fs, saved, lvl)
           IN  Full(new, rule, rs, lvl) /\ IsFiniteSet(new)
  <1> DEFINE found == {FoundOn(rule, q) : q \in Matched(rule, rs)}
             ds == Down(found, fs, saved, lvl)
             all == (found \ ds) \cup Folds(ds)
             to == [m \in all |-> GivenBack(m, fs, saved)]
             new == Rebuilt(found, fs, saved, lvl)
  <1>1. Matched(rule, rs) \in SUBSET rs
    BY DEF Matched
  <1>2. Formed(found) /\ Apart(found) /\ \A f \in found : f.rule = rule
    <2> HIDE DEF found
    <2> QED
      BY <1>1, FoundFormed DEF found
  <1>3. Full(found, rule, rs, lvl)
    BY FoundFull
  <1>4. IsFiniteSet(found)
    <2> DEFINE at == [q \in Matched(rule, rs) |-> FoundOn(rule, q)]
    <2>1. found = {at[q] : q \in Matched(rule, rs)}
      OBVIOUS
    <2>2. IsFiniteSet(Matched(rule, rs))
      BY <1>1, FS_Subset
    <2> HIDE DEF found, at
    <2> QED
      BY <2>1, <2>2, ImageFinite
  <1> HIDE DEF found
  <1>5. ds \subseteq found /\ (lvl = 5 => ds = {})
    BY DEF Down, Below
  <1>6. new = {GivenBack(m, fs, saved) : m \in all}
    BY RebuiltIs
  <1> HIDE DEF ds, new
  <1>7. IsFiniteSet(ds)
    BY <1>4, <1>5, FS_Subset
  <1>8. Full(all, rule, rs, lvl)
    BY <1>3, <1>5, <1>7, FoldsFull
  <1>9. IsFiniteSet(all)
    BY <1>4, <1>7, FoldsFinite, FS_Union, FS_Subset
  <1>10. Formed(all)
    <2>1. \A f \in ds : f.rule \in Rule
      BY <1>2, <1>5
    <2> QED
      BY <1>2, <1>5, <2>1, FoldsKeep
  <1>11. \A m \in all : to[m] = GivenBack(m, fs, saved)
    OBVIOUS
  <1>12. new = {to[m] : m \in all}
    BY <1>6
  <1> HIDE DEF all, to
  <1>13. \A m \in all : to[m].rule = m.rule /\ to[m].refs = m.refs /\ to[m].n = m.n
    BY <1>10, <1>11, GivenBackIs DEF Formed
  <1>14. Full(new, rule, rs, lvl)
    BY <1>8, <1>12, <1>13, ImageFull
  <1>15. IsFiniteSet(new)
    BY <1>9, <1>12, ImageFinite
  <1> QED
    BY <1>14, <1>15 DEF new, found

(* Folding the findings of widespread rules drops no row. *)
LEMMA RefoldFull ==
    ASSUME NEW fs, NEW lvl, NEW rules, Formed(fs), Apart(fs), IsFiniteSet(fs)
    PROVE  LET new == foldWidespread(fs, lvl, rules)
           IN  IsFiniteSet(new) /\ \A rule, rs : Full(fs, rule, rs, lvl) => Full(new, rule, rs, lvl)
  <1> DEFINE new == foldWidespread(fs, lvl, rules)
  <1> DEFINE ds == WideDown(fs, lvl, rules)
             taken == KeysTaken(fs, ds)
  <1>1. ds \in SUBSET fs /\ \A f \in ds : f.rule \in rules /\ f.rule \in Rule \ Custom /\ lvl < 5 /\ ~decided(f)
    BY FoldWidespreadIs
  <1>2. new = (fs \ ds) \cup {Retitled(m, fs, taken) : m \in Folds(ds)}
    BY FoldWidespreadIs
  <1> HIDE DEF ds, taken
  <1> HIDE DEF new
  <1> DEFINE all == (fs \ ds) \cup Folds(ds)
             to == [m \in all |-> Retitled(m, fs, taken)]
  <1>3. lvl = 5 => ds = {}
    BY <1>1
  <1>4. IsFiniteSet(ds)
    BY <1>1, FS_Subset
  <1>5. \A rule, rs : Full(fs, rule, rs, lvl) => Full(all, rule, rs, lvl)
    BY <1>1, <1>3, <1>4, FoldsFull
  <1>6. IsFiniteSet(all)
    BY <1>4, FoldsFinite, FS_Union, FS_Subset
  <1>7. Formed(all)
    BY <1>1, FoldsKeep
  <1>8. \A m \in fs : Retitled(m, fs, taken) = m
    BY DEF Retitled
  <1>9. new = {to[m] : m \in all}
    BY <1>2, <1>8
  <1>10. \A m \in all : to[m] = Retitled(m, fs, taken)
    OBVIOUS
  <1> HIDE DEF all, to
  <1>11. ASSUME NEW m \in all PROVE to[m].rule = m.rule /\ to[m].refs = m.refs /\ to[m].n = m.n
    <2>1. m = [rule |-> m.rule, key |-> m.key, refs |-> m.refs, keyed |-> m.keyed, status |-> m.status, n |-> m.n]
      BY <1>7 DEF Formed, IsFinding
    <2>2. to[m] = m \/ \E k : to[m] = [m EXCEPT !.key = k]
      BY <1>10 DEF Retitled
    <2> QED
      BY <2>1, <2>2
  <1>12. IsFiniteSet(new)
    BY <1>6, <1>9, ImageFinite
  <1>13. ASSUME NEW rule, NEW rs, Full(fs, rule, rs, lvl) PROVE Full(new, rule, rs, lvl)
    BY <1>5, <1>9, <1>11, <1>13, ImageFull
  <1> QED
    BY <1>12, <1>13 DEF new

(* The invariant but for Sound, after a step. *)
Keeps == Finite /\ Single /\ Keeping /\ Kept

(* Removing evidence, another level or rule catalogue while a run goes on is not quiet. *)
LEMMA QuietMeans ==
    ASSUME Quiet'
    PROVE  /\ \A e \in Evidence : EndImport(e) \/ RemoveRows(e) \/ ClearFindings(e) => ~RunGoing
           /\ \A lvl : setDetectionLevel(lvl) => ~RunGoing
           /\ \A rule : DeleteRule(rule) => ~RunGoing
           /\ \A rule : ~RestoreRule(rule)
           /\ \A r \in Reason : LoadRules(r) => catalogue = {} \/ ~running
  <1>1. \A e \in Evidence : EndImport(e) \/ RemoveRows(e) \/ ClearFindings(e) => ~RunGoing
    BY DEF Quiet, EndImport, RemoveRows, ClearFindings
  <1>2. \A lvl : setDetectionLevel(lvl) => ~RunGoing
    BY DEF Quiet, setDetectionLevel
  <1>3. \A rule : (DeleteRule(rule) => ~RunGoing) /\ ~RestoreRule(rule)
    BY DEF Quiet, DeleteRule, RestoreRule
  <1>4. \A r \in Reason : LoadRules(r) => catalogue = {} \/ ~running
    BY DEF Quiet, LoadRules
  <1> QED
    BY <1>1, <1>2, <1>3, <1>4

(* No run is active when none goes on. *)
LEMMA NoneGoing ==
    ASSUME ~RunGoing
    PROVE  \A r \in Reason : run[r].pc = "off" /\ ~Active(run[r])
  BY DEF RunGoing, Active

(* The start of an import, and its rows. *)
LEMMA BeginImportKeeps ==
    ASSUME Keeps, NEW e \in Evidence, BeginImport(e), Sound
    PROVE  Keeps'
  <1>1. files' = [files EXCEPT ![e] = "importing"] /\ files \in [Evidence -> FileStates]
    BY DEF BeginImport, Sound, RowsKept
  <1>2. Importing' /\ ~Settled'
    BY <1>1 DEF Importing, Settled
  <1> QED
    BY <1>2 DEF Keeps, BeginImport, Finite, Single, Keeping, Kept

(* An import under way: the rows may get ahead of every run. *)
LEMMA WriteRowsKeeps ==
    ASSUME Keeps, NEW e \in Evidence, WriteRows(e), Sound
    PROVE  Keeps'
  <1> DEFINE at == [x \in RecordsOf[e] |-> [rec |-> x, gen |-> imports]]
             new == {at[x] : x \in RecordsOf[e]}
  <1>1. files' = [files EXCEPT ![e] = "written"] /\ files \in [Evidence -> FileStates]
    BY DEF WriteRows, Sound, RowsKept
  <1>2. Importing' /\ ~Settled'
    BY <1>1 DEF Importing, Settled
  <1>3. rows' = rows \cup new
    BY DEF WriteRows
  <1> HIDE DEF at
  <1>4. IsFiniteSet(new)
    BY ImageFinite, NamesAssumption
  <1> HIDE DEF new
  <1>5. IsFiniteSet(rows')
    BY <1>3, <1>4, FS_Union DEF Keeps, Finite
  <1> QED
    BY <1>2, <1>5 DEF Keeps, WriteRows, Finite, Single, Keeping, Kept

(* An import that ends arms the timer. *)
LEMMA EndImportKeeps ==
    ASSUME Keeps, NEW e \in Evidence, EndImport(e), Quiet'
    PROVE  Keeps'
  <1>1. \A r \in Reason : ~Active(run[r])
    BY QuietMeans, NoneGoing
  <1>2. ~Settled'
    BY DEF EndImport, Settled
  <1> QED
    BY <1>1, <1>2 DEF Keeps, EndImport, Finite, Single, Keeping, Kept

(* The findings of an engine are none of a rule's. *)
LEMMA StoreEngineKeeps ==
    ASSUME Keeps, NEW e \in Evidence, StoreEngine(e), Sound
    PROVE  Keeps'
  <1> DEFINE cited == {r \in rows : r.rec \in RecordsOf[e]}
             raised == [q \in cited |-> Finding("engine", <<"engine", q>>, {q})]
             plain == {raised[q] : q \in cited}
             at == [f \in plain |-> [f EXCEPT !.keyed = f.refs \cap rows]]
             new == {at[f] : f \in plain}
  <1>1. findings' = findings \cup new
    <2>1. plain = {Finding("engine", <<"engine", q>>, {q}) : q \in cited}
      OBVIOUS
    <2>2. findings' = findings \cup {[f EXCEPT !.keyed = f.refs \cap rows] : f \in plain}
      BY <2>1 DEF StoreEngine, withRecordKeys
    <2> HIDE DEF plain
    <2>3. new = {[f EXCEPT !.keyed = f.refs \cap rows] : f \in plain}
      OBVIOUS
    <2> QED
      BY <2>2, <2>3
  <1>2. \A f \in new : f.rule = "engine"
    <2>1. ASSUME NEW q \in cited PROVE at[raised[q]].rule = "engine"
      <3>1. raised[q] = Finding("engine", <<"engine", q>>, {q})
        OBVIOUS
      <3>2. at[raised[q]] = [raised[q] EXCEPT !.keyed = raised[q].refs \cap rows]
        OBVIOUS
      <3> HIDE DEF raised, at, cited
      <3> QED
        BY <3>1, <3>2 DEF Finding
    <2>2. \A f \in plain : at[f].rule = "engine"
      BY <2>1
    <2> HIDE DEF at
    <2> QED
      BY <2>2
  <1>3. IsFiniteSet(cited)
    <2>1. cited \in SUBSET rows
      OBVIOUS
    <2> HIDE DEF cited
    <2> QED
      BY <2>1, FS_Subset DEF Keeps, Finite
  <1> HIDE DEF cited, raised
  <1>4. IsFiniteSet(plain)
    BY <1>3, ImageFinite
  <1> HIDE DEF plain, at
  <1>5. IsFiniteSet(new)
    BY <1>4, ImageFinite
  <1> HIDE DEF new
  <1>6. IsFiniteSet(findings')
    BY <1>1, <1>5, FS_Union DEF Keeps, Finite
  <1>7. ASSUME NEW rule \in Rule, NEW rs, NEW lvl, Full(findings, rule, rs, lvl) PROVE Full(findings', rule, rs, lvl)
    BY <1>1, <1>2, <1>7, SameFull, NamesApart
  <1>8. \A r \in Reason : Upheld(run[r]) \subseteq Rule
    BY DEF Upheld, Sound, RunsKept, Runs
  <1>9. Keeping'
    BY <1>7, <1>8 DEF Keeps, StoreEngine, Keeping, Importing
  <1>10. Kept'
    BY <1>7 DEF Keeps, StoreEngine, Kept, Settled, Flagged, Sound, RunGoing
  <1>11. Single'
    BY DEF Keeps, StoreEngine, Single
  <1> QED
    BY <1>6, <1>9, <1>10, <1>11 DEF Keeps, Finite, StoreEngine

(* Evidence goes. *)
LEMMA RemoveRowsKeeps ==
    ASSUME Keeps, NEW e \in Evidence, RemoveRows(e), Quiet', Sound
    PROVE  Keeps'
  <1>1. \A r \in Reason : ~Active(run[r])
    BY QuietMeans, NoneGoing
  <1>2. files' = [files EXCEPT ![e] = "removed"] /\ files \in [Evidence -> FileStates]
    BY DEF RemoveRows, Sound, RowsKept
  <1>3. ~Settled'
    BY <1>2 DEF Settled
  <1>4. IsFiniteSet(rows')
    <2>1. rows' \in SUBSET rows
      BY DEF RemoveRows
    <2> QED
      BY <2>1, FS_Subset DEF Keeps, Finite
  <1>5. Single' /\ Keeping'
    BY <1>1 DEF Keeps, RemoveRows, Single, Keeping
  <1> QED
    BY <1>3, <1>4, <1>5 DEF Keeps, RemoveRows, Finite, Kept

(* Without findings of the rules all is well while there are no rows. *)
LEMMA EmptyFull ==
    ASSUME NEW fs, NEW rule, NEW lvl, \A f \in fs : f.rule # rule
    PROVE  Full(fs, rule, {}, lvl)
  BY DEF Full, Matched

(* No rows without files. *)
LEMMA NoRows ==
    ASSUME RowsKept, \A e \in Evidence : files[e] \notin {"written", "present"}
    PROVE  rows = {}
  BY DEF RowsKept, Row, Record

(* The derived state goes with the evidence; what is left was added after the last run. *)
LEMMA ClearFindingsKeeps ==
    ASSUME Keeps, NEW e \in Evidence, ClearFindings(e), Quiet', Sound
    PROVE  Keeps'
  <1> DEFINE kept == {f \in findings : f.rule = "engine" /\ ~EngineOf(f, e)}
  <1>1. \A r \in Reason : ~Active(run[r]) /\ run[r].pc # "prune"
    BY QuietMeans, NoneGoing
  <1>2. /\ findings' = kept /\ files' = [files EXCEPT ![e] = "absent"] /\ files \in [Evidence -> FileStates]
        /\ addedAfter' = {x \in Evidence \ {e} : files[x] # "absent"}
        /\ UNCHANGED <<rows, level, catalogue, run, running>>
    BY DEF ClearFindings, Sound, RowsKept
  <1>3. kept \in SUBSET findings /\ \A f \in kept : f.rule \notin Rule
    BY NamesApart
  <1> HIDE DEF kept
  <1>4. IsFiniteSet(findings')
    BY <1>2, <1>3, FS_Subset DEF Keeps, Finite
  <1>5. Single' /\ Keeping'
    BY <1>1, <1>2 DEF Keeps, Single, Keeping
  <1>6. ASSUME Settled', ~Flagged' PROVE \A rule \in catalogue' : Full(findings', rule, rows', level')
    <2>1. \A x \in Evidence : files'[x] = "absent"
      BY <1>2, <1>6 DEF Settled, Flagged
    <2>2. rows' = {}
      <3>1. ASSUME NEW x \in Evidence PROVE files[x] \notin {"written", "present"}
        BY <1>2, <2>1 DEF ClearFindings
      <3> QED
        BY <1>2, <3>1, NoRows DEF Sound
    <2>3. catalogue' \subseteq Rule
      BY <1>2 DEF Sound
    <2> QED
      BY <1>2, <1>3, <2>2, <2>3, EmptyFull
  <1> QED
    BY <1>2, <1>4, <1>5, <1>6 DEF Keeps, Finite, Kept

(* A call of runEnabledRules at the present level. *)
LEMMA CallKeeps ==
    ASSUME Sound, NEW r \in Reason, Call(r, level'), run[r].pc = "off",
           (\A q \in Reason : run[q].pc # "off" => run[q].level = level')
    PROVE  /\ \A q \in Reason : Active(run'[q]) => Active(run[q]) /\ run'[q] = run[q]
           /\ \A q \in Reason : Active(run[q]) => run'[q] = run[q]
           /\ \A q \in Reason : run'[q].pc # "off" => run'[q].level = level'
           /\ \A q \in Reason : run'[q].pc = "prune" => run'[q] = run[q]
           /\ RunGoing'
  <1> DEFINE x == [NoRun EXCEPT !.pc = "load", !.level = level']
  <1>1. run' = [run EXCEPT ![r] = x] /\ run \in [Reason -> Runs]
    BY DEF Call, Sound, RunsKept
  <1>2. x.pc = "load" /\ x.level = level'
    BY DEF NoRun
  <1> HIDE DEF x
  <1>3. run'[r] = x /\ \A q \in Reason : q # r => run'[q] = run[q]
    BY <1>1
  <1>4. ~Active(run[r]) /\ ~Active(x)
    BY <1>2 DEF Active
  <1> QED
    BY <1>2, <1>3, <1>4 DEF RunGoing, Active

(* The run button, the timer, and the level, which the analyst may change while no file is there. *)
LEMMA RunManuallyKeeps ==
    ASSUME Keeps, RunManually, Sound
    PROVE  Keeps'
  <1>1. /\ Call("manual", level') /\ run["manual"].pc = "off" /\ "manual" \in Reason
        /\ UNCHANGED <<rows, files, addedAfter, findings, level, catalogue, running, timer, errors>>
    BY DEF RunManually, Reason
  <1>2. \A q \in Reason : run[q].pc # "off" => run[q].level = level'
    BY <1>1 DEF Keeps, Single
  <1>3. /\ \A q \in Reason : Active(run'[q]) => Active(run[q]) /\ run'[q] = run[q]
        /\ \A q \in Reason : Active(run[q]) => run'[q] = run[q]
        /\ \A q \in Reason : run'[q].pc # "off" => run'[q].level = level'
        /\ \A q \in Reason : run'[q].pc = "prune" => run'[q] = run[q]
        /\ RunGoing'
    BY <1>1, <1>2, CallKeeps
  <1>4. Single'
    BY <1>1, <1>3 DEF Keeps, Single
  <1>5. Keeping'
    BY <1>1, <1>3 DEF Keeps, Keeping, Importing
  <1>6. Kept'
    BY <1>3 DEF Kept, Settled
  <1> QED
    BY <1>1, <1>4, <1>5, <1>6 DEF Keeps, Finite

(* The timer starts a run of its own. *)
LEMMA TimerFiresKeeps ==
    ASSUME Keeps, TimerFires, Sound
    PROVE  Keeps'
  <1>1. UNCHANGED <<rows, files, addedAfter, findings, level, catalogue, running, errors>>
    BY DEF TimerFires
  <1>2. CASE running \/ \E e \in Evidence : files[e] \in {"importing", "written"}
    <2>1. run' = run
      BY <1>2 DEF TimerFires
    <2>2. ~Settled'
      <3>1. running => RunGoing
        BY DEF Keeps, Single, RunGoing, Active
      <3> QED
        BY <1>1, <1>2, <2>1, <3>1 DEF Settled, RunGoing
    <2> QED
      BY <1>1, <2>1, <2>2 DEF Keeps, Finite, Single, Keeping, Importing, Kept
  <1>3. CASE ~(running \/ \E e \in Evidence : files[e] \in {"importing", "written"})
    <2>1. Call("ingest", level') /\ run["ingest"].pc = "off" /\ "ingest" \in Reason
      BY <1>3 DEF TimerFires, Reason
    <2>2. \A q \in Reason : run[q].pc # "off" => run[q].level = level'
      BY <1>1 DEF Keeps, Single
    <2>3. /\ \A q \in Reason : Active(run'[q]) => Active(run[q]) /\ run'[q] = run[q]
          /\ \A q \in Reason : Active(run[q]) => run'[q] = run[q]
          /\ \A q \in Reason : run'[q].pc # "off" => run'[q].level = level'
          /\ \A q \in Reason : run'[q].pc = "prune" => run'[q] = run[q]
          /\ RunGoing'
      BY <2>1, <2>2, CallKeeps
    <2>4. Single'
      BY <1>1, <2>3 DEF Keeps, Single
    <2>5. Keeping'
      BY <1>1, <2>3 DEF Keeps, Keeping, Importing
    <2>6. Kept'
      BY <2>3 DEF Kept, Settled
    <2> QED
      BY <1>1, <2>4, <2>5, <2>6 DEF Keeps, Finite
  <1> QED
    BY <1>2, <1>3

(* A new level starts a run: quiet, when none is going. *)
LEMMA SetLevelKeeps ==
    ASSUME Keeps, NEW lvl \in {2, 5}, setDetectionLevel(lvl), Quiet', Sound
    PROVE  Keeps'
  <1>1. /\ level' = lvl /\ run["manual"].pc = "off" /\ "manual" \in Reason
        /\ UNCHANGED <<rows, files, addedAfter, findings, catalogue, running, timer, errors>>
    BY DEF setDetectionLevel, Reason
  <1>2. ~RunGoing /\ \A q \in Reason : run[q].pc = "off" /\ ~Active(run[q])
    BY QuietMeans, NoneGoing
  <1>3. CASE running \/ \A e \in Evidence : files[e] = "absent"
    <2>1. run' = run /\ \A e \in Evidence : files[e] = "absent"
      BY <1>2, <1>3 DEF setDetectionLevel, Keeps, Single
    <2>2. rows = {}
      BY <2>1, NoRows DEF Sound
    <2>3. ASSUME NEW rule \in catalogue, Full(findings, rule, rows, level) PROVE Full(findings, rule, rows, lvl)
      <3>1. \A f \in findings : f.rule = rule => f.refs = {}
        BY <2>2, <2>3 DEF Full, Matched
      <3>2. \A f \in findings : f.rule # rule
        BY <3>1, FormedRefs DEF Sound, FindingsKept
      <3> QED
        BY <2>2, <3>2, EmptyFull
    <2>4. Kept'
      BY <1>1, <2>1, <2>3 DEF Keeps, Kept, Settled, Flagged, RunGoing
    <2> QED
      BY <1>1, <1>2, <2>1, <2>4 DEF Keeps, Finite, Single, Keeping
  <1>4. CASE ~(running \/ \A e \in Evidence : files[e] = "absent")
    <2>1. Call("manual", level')
      BY <1>1, <1>4 DEF setDetectionLevel
    <2>2. /\ \A q \in Reason : Active(run'[q]) => Active(run[q]) /\ run'[q] = run[q]
          /\ \A q \in Reason : Active(run[q]) => run'[q] = run[q]
          /\ \A q \in Reason : run'[q].pc # "off" => run'[q].level = level'
          /\ \A q \in Reason : run'[q].pc = "prune" => run'[q] = run[q]
          /\ RunGoing'
      BY <1>1, <1>2, <2>1, CallKeeps
    <2>3. Single'
      BY <1>1, <1>2, <2>2 DEF Keeps, Single
    <2>4. Keeping'
      BY <1>2, <2>2 DEF Keeping
    <2>5. Kept'
      BY <2>2 DEF Kept, Settled
    <2> QED
      BY <1>1, <2>3, <2>4, <2>5 DEF Keeps, Finite
  <1> QED
    BY <1>3, <1>4

(* An active run that goes on: what has to be looked at. *)
LEMMA ActiveKeeps ==
    ASSUME Keeps, Sound, NEW r \in Reason, Active(run[r]), NEW x, run' = [run EXCEPT ![r] = x], Active(x),
           x.level = run[r].level, x.rules = run[r].rules,
           UNCHANGED <<files, level, catalogue, running>>,
           x.pc = "prune" => errors' = x.failed,
           Importing \/ /\ x.pc \in {"next", "store"} => x.seen = rows'
                        /\ \A rule \in Upheld(x) : Full(findings', rule, rows', x.level)
    PROVE  Single' /\ Keeping' /\ Kept'
  <1>1. run'[r] = x /\ \A q \in Reason : q # r => run'[q] = run[q]
    BY DEF Sound, RunsKept
  <1>2. \A q \in Reason : q # r => ~Active(run[q])
    BY DEF Keeps, Single
  <1>3. \A q \in Reason : Active(run'[q]) <=> Active(run[q])
    BY <1>1
  <1>4. run[r].pc # "off" /\ x.pc # "off" /\ \A q \in Reason : run[q].pc = "prune" => Active(run[q])
    BY DEF Active
  <1>5. ASSUME NEW q \in Reason
        PROVE  /\ run'[q].pc # "off" => run'[q].level = level'
               /\ Active(run'[q]) => run'[q].rules = catalogue'
               /\ run'[q].pc = "prune" => errors' = run'[q].failed
    <2>1. CASE q = r
      BY <1>1, <1>4, <2>1 DEF Keeps, Single
    <2>2. CASE q # r
      BY <1>1, <1>2, <1>4, <2>2 DEF Keeps, Single
    <2> QED
      BY <2>1, <2>2
  <1>6. Single'
    BY <1>3, <1>5 DEF Keeps, Single
  <1>7. Keeping'
    BY <1>1, <1>2 DEF Keeping, Importing
  <1>8. Kept'
    BY <1>1, <1>4 DEF Kept, Settled, RunGoing
  <1> QED
    BY <1>6, <1>7, <1>8

(* Loading the rules: the run becomes the only active one. *)
LEMMA LoadRulesKeeps ==
    ASSUME Keeps, NEW r \in Reason, LoadRules(r), Quiet', Sound
    PROVE  Keeps'
  <1>1. /\ run[r].pc = "load" /\ run \in [Reason -> Runs]
        /\ UNCHANGED <<rows, files, addedAfter, findings, level, catalogue, timer, errors>>
    BY DEF LoadRules, Sound, RunsKept
  <1>2. CASE catalogue = {}
    <2>1. run' = [run EXCEPT ![r] = NoRun] /\ running' = running
      BY <1>2 DEF LoadRules
    <2>2. run'[r] = NoRun /\ \A q \in Reason : q # r => run'[q] = run[q]
      BY <1>1, <2>1
    <2>3. ~Active(run[r]) /\ ~Active(NoRun) /\ NoRun.pc = "off"
      BY <1>1 DEF Active, NoRun
    <2>4. Single' /\ Keeping'
      BY <1>1, <2>1, <2>2, <2>3 DEF Keeps, Single, Keeping, Importing
    <2>5. Kept'
      BY <1>1, <1>2 DEF Kept
    <2> QED
      BY <1>1, <2>4, <2>5 DEF Keeps, Finite
  <1>3. CASE catalogue # {}
    <2> DEFINE x == [run[r] EXCEPT !.rules = catalogue, !.todo = catalogue, !.seen = rows, !.pc = "next"]
    <2>1. run' = [run EXCEPT ![r] = x] /\ running' = TRUE /\ ~running
      BY <1>3, QuietMeans DEF LoadRules
    <2>2. x.pc = "next" /\ x.level = run[r].level /\ x.rules = catalogue /\ x.todo = catalogue /\ x.seen = rows
      BY <1>1 DEF Runs
    <2> HIDE DEF x
    <2>3. run'[r] = x /\ \A q \in Reason : q # r => run'[q] = run[q]
      BY <1>1, <2>1
    <2>4. Active(x) /\ x.pc # "off" /\ \A q \in Reason : ~Active(run[q])
      BY <2>1, <2>2 DEF Keeps, Single, Active
    <2>5. \A q \in Reason : run[q].pc # "prune"
      BY <2>4 DEF Active
    <2>6. Single'
      BY <1>1, <2>1, <2>2, <2>3, <2>4, <2>5 DEF Keeps, Single
    <2>7. Upheld(x) = {}
      BY <2>2 DEF Upheld
    <2>8. Keeping'
      BY <1>1, <2>2, <2>3, <2>4, <2>7 DEF Keeping
    <2>9. Kept'
      BY <2>3, <2>4 DEF Kept, Settled, RunGoing
    <2> QED
      BY <1>1, <2>6, <2>8, <2>9 DEF Keeps, Finite
  <1> QED
    BY <1>2, <1>3

(* A rule is evaluated; another one throws. *)
LEMMA EvaluateRuleKeeps ==
    ASSUME Keeps, NEW r \in Reason, EvaluateRule(r), Sound
    PROVE  Keeps'
  <1> DEFINE rule == CHOOSE rule \in run[r].todo : TRUE
             found == withRecordKeys(Raised(rule, run[r].seen))
             x == [run[r] EXCEPT !.found = found, !.todo = @ \ {rule}, !.rule = {rule}, !.pc = "store"]
  <1>1. /\ run[r].pc = "next" /\ run[r] \in Runs /\ RunKept(run[r], rows)
        /\ UNCHANGED <<rows, files, findings, level, catalogue, running, errors>>
    BY DEF EvaluateRule, Sound, RunsKept
  <1>2. run' = [run EXCEPT ![r] = x]
    BY DEF EvaluateRule
  <1>3. /\ x.pc = "store" /\ x.level = run[r].level /\ x.rules = run[r].rules /\ x.seen = run[r].seen
        /\ x.todo = run[r].todo \ {rule} /\ x.rule = {rule} /\ x.failed = run[r].failed
    BY <1>1 DEF Runs
  <1> HIDE DEF x, rule
  <1>4. Upheld(x) \subseteq Upheld(run[r])
    <2>1. run[r].rule = {}
      BY <1>1 DEF RunKept
    <2> QED
      BY <1>3, <2>1 DEF Upheld
  <1>5. Active(run[r]) /\ Active(x)
    BY <1>1, <1>3 DEF Active
  <1>6. Importing \/ /\ x.pc \in {"next", "store"} => x.seen = rows'
                     /\ \A other \in Upheld(x) : Full(findings', other, rows', x.level)
    BY <1>1, <1>3, <1>4, <1>5 DEF Keeps, Keeping
  <1>7. Single' /\ Keeping' /\ Kept'
    BY <1>1, <1>2, <1>3, <1>5, <1>6, ActiveKeeps
  <1> QED
    BY <1>1, <1>7 DEF Keeps, Finite

(* A rule that throws is not among the rules the run is through with. *)
LEMMA RuleFailsKeeps ==
    ASSUME Keeps, NEW r \in Reason, RuleFails(r), Sound
    PROVE  Keeps'
  <1> DEFINE rule == CHOOSE rule \in run[r].todo : TRUE
             x == [run[r] EXCEPT !.todo = @ \ {rule}, !.failed = @ \cup {rule},
                                 !.seen = IF run[r].todo = {rule} THEN {} ELSE @,
                                 !.pc = IF run[r].todo = {rule} THEN "refold" ELSE "next"]
  <1>1. /\ run[r].pc = "next" /\ run[r] \in Runs /\ RunKept(run[r], rows)
        /\ UNCHANGED <<rows, files, findings, level, catalogue, running, errors>>
    BY DEF RuleFails, Sound, RunsKept
  <1>2. run' = [run EXCEPT ![r] = x]
    BY DEF RuleFails
  <1>3. /\ x.pc \in {"next", "refold"} /\ x.level = run[r].level /\ x.rules = run[r].rules
        /\ x.pc = "next" => x.seen = run[r].seen
        /\ x.todo = run[r].todo \ {rule} /\ x.rule = run[r].rule /\ x.failed = run[r].failed \cup {rule}
    BY <1>1 DEF Runs
  <1> HIDE DEF x, rule
  <1>4. Upheld(x) \subseteq Upheld(run[r])
    BY <1>3 DEF Upheld
  <1>5. Active(run[r]) /\ Active(x)
    BY <1>1, <1>3 DEF Active
  <1>6. Importing \/ /\ x.pc \in {"next", "store"} => x.seen = rows'
                     /\ \A other \in Upheld(x) : Full(findings', other, rows', x.level)
    BY <1>1, <1>3, <1>4, <1>5 DEF Keeps, Keeping
  <1>7. Single' /\ Keeping' /\ Kept'
    BY <1>1, <1>2, <1>3, <1>5, <1>6, ActiveKeeps
  <1> QED
    BY <1>1, <1>7 DEF Keeps, Finite

(* The findings of a rule are replaced by those of the rows the run saw. *)
LEMMA ReplaceKeeps ==
    ASSUME Keeps, NEW r \in Reason, replaceFindings(r), Sound
    PROVE  Keeps'
  <1> DEFINE current == {f \in findings : f.rule \in run[r].rule}
             saved == Archived(current, archive)
             new == Rebuilt(run[r].found, current, saved, run[r].level)
             rest == findings \ current
             x == [run[r] EXCEPT !.found = {}, !.rule = {}, !.seen = IF run[r].todo = {} THEN {} ELSE @,
                                 !.pc = IF run[r].todo = {} THEN "refold" ELSE "next"]
  <1>1. /\ run[r].pc = "store" /\ run[r] \in Runs /\ RunKept(run[r], rows)
        /\ UNCHANGED <<rows, files, level, catalogue, running, errors>>
    BY DEF replaceFindings, Sound, RunsKept
  <1>2. PICK rule \in Rule :
           run[r].rule = {rule} /\ run[r].found = {FoundOn(rule, q) : q \in {p \in run[r].seen : p.rec \in Matches[rule]}}
    BY <1>1 DEF RunKept
  <1>3. run' = [run EXCEPT ![r] = x] /\ findings' = rest \cup new
    BY DEF replaceFindings
  <1>4. /\ x.pc \in {"next", "refold"} /\ x.level = run[r].level /\ x.rules = run[r].rules
        /\ x.pc = "next" => x.seen = run[r].seen
        /\ x.todo = run[r].todo /\ x.rule = {} /\ x.failed = run[r].failed
    BY <1>1 DEF Runs
  <1>5. rest \in SUBSET findings /\ (\A f \in rest : f.rule # rule) /\ \A f \in findings : f.rule # rule => f \in rest
    BY <1>2
  <1> HIDE DEF x, rest
  <1>6. (\A f \in new : f.rule = rule) /\ Full(new, rule, run[r].seen, run[r].level) /\ IsFiniteSet(new)
    <2> DEFINE rs == run[r].seen
    <2>1. rs \in SUBSET Row /\ \A q, p \in rs : q.rec = p.rec => q = p
      BY <1>1 DEF Runs, RunKept, Sound, RowsKept
    <2>2. IsFiniteSet(rs)
      <3>1. rs \in SUBSET rows
        BY <1>1 DEF RunKept
      <3> QED
        BY <3>1, FS_Subset DEF Keeps, Finite
    <2>3. run[r].found = {FoundOn(rule, q) : q \in Matched(rule, rs)} /\ Matched(rule, rs) \in SUBSET rs
      BY <1>2 DEF Matched
    <2>4. Formed(current) /\ Entries(saved)
      <3>1. Formed(current)
        BY DEF Sound, FindingsKept, Formed
      <3> QED
        BY <3>1, ArchivedEntries DEF Sound, FindingsKept
    <2> HIDE DEF rs, current, saved
    <2>5. /\ Full(Rebuilt({FoundOn(rule, q) : q \in Matched(rule, rs)}, current, saved, run[r].level), rule, rs,
                  run[r].level)
          /\ IsFiniteSet(Rebuilt({FoundOn(rule, q) : q \in Matched(rule, rs)}, current, saved, run[r].level))
      BY <2>1, <2>2, RebuiltFull
    <2>6. /\ Matched(rule, rs) \in SUBSET Row
          /\ \A q, p \in Matched(rule, rs) : q.rec = p.rec => q = p
      BY <2>1, <2>3
    <2>7. \A f \in Rebuilt({FoundOn(rule, q) : q \in Matched(rule, rs)}, current, saved, run[r].level) : f.rule = rule
      BY <2>4, <2>6, RebuiltFormed
    <2> QED
      BY <2>3, <2>5, <2>7 DEF rs
  <1> HIDE DEF new
  <1>7. IsFiniteSet(findings')
    BY <1>3, <1>5, <1>6, FS_Union, FS_Subset DEF Keeps, Finite
  <1>8. Active(run[r]) /\ Active(x)
    BY <1>1, <1>4 DEF Active
  <1>9. Upheld(x) \subseteq Upheld(run[r]) \cup {rule}
    BY <1>2, <1>4 DEF Upheld
  <1>10. ASSUME ~Importing PROVE \A other \in Upheld(x) : Full(findings', other, rows', x.level)
    <2> SUFFICES ASSUME NEW other \in Upheld(x) PROVE Full(findings', other, rows', x.level)
      OBVIOUS
    <2>1. run[r].seen = rows /\ \A o \in Upheld(run[r]) : Full(findings, o, rows, run[r].level)
      BY <1>1, <1>8, <1>10 DEF Keeps, Keeping
    <2>2. CASE other = rule
      <3>1. Full(new, rule, rows, run[r].level)
        BY <1>6, <2>1
      <3>2. \A f \in findings' : f.rule = rule => f \in new
        BY <1>3, <1>5
      <3> QED
        BY <1>1, <1>3, <1>4, <2>2, <3>1, <3>2, SameFull
    <2>3. CASE other # rule
      <3>1. Full(findings, other, rows, run[r].level)
        BY <1>9, <2>1, <2>3
      <3>2. \A f \in findings : f.rule = other => f \in findings'
        BY <1>3, <1>5, <2>3
      <3>3. \A f \in findings' : f.rule = other => f \in findings
        BY <1>3, <1>5, <1>6, <2>3
      <3> QED
        BY <1>1, <1>4, <3>1, <3>2, <3>3, SameFull
    <2> QED
      BY <2>2, <2>3
  <1>11. Importing \/ (x.pc \in {"next", "store"} => x.seen = rows')
    BY <1>1, <1>4, <1>8 DEF Keeps, Keeping
  <1>12. Single' /\ Keeping' /\ Kept'
    BY <1>1, <1>3, <1>4, <1>8, <1>10, <1>11, ActiveKeeps
  <1> QED
    BY <1>1, <1>7, <1>12 DEF Keeps, Finite

(* The findings of widespread rules are folded. *)
LEMMA RefoldKeeps ==
    ASSUME Keeps, NEW r \in Reason, refoldWidespread(r), Sound
    PROVE  Keeps'
  <1> DEFINE x == [run[r] EXCEPT !.pc = "diags"]
  <1>1. /\ run[r].pc = "refold" /\ run[r] \in Runs /\ run' = [run EXCEPT ![r] = x]
        /\ UNCHANGED <<rows, files, level, catalogue, running, errors>>
    BY DEF refoldWidespread, Sound, RunsKept
  <1>2. /\ x.pc = "diags" /\ x.level = run[r].level /\ x.rules = run[r].rules
        /\ Upheld(x) = Upheld(run[r])
    BY <1>1 DEF Runs, Upheld
  <1> HIDE DEF x
  <1>3. Active(run[r]) /\ Active(x)
    BY <1>1, <1>2 DEF Active
  <1>4. /\ IsFiniteSet(findings')
        /\ \A rule, rs : Full(findings, rule, rs, run[r].level) => Full(findings', rule, rs, run[r].level)
    BY RefoldFull DEF refoldWidespread, Sound, FindingsKept, Keeps, Finite
  <1>5. Importing \/ \A rule \in Upheld(x) : Full(findings', rule, rows', x.level)
    BY <1>1, <1>2, <1>3, <1>4 DEF Keeps, Keeping
  <1>6. Single' /\ Keeping' /\ Kept'
    BY <1>1, <1>2, <1>3, <1>5, ActiveKeeps
  <1> QED
    BY <1>1, <1>4, <1>6 DEF Keeps, Finite

(* The diagnostics have the rules that failed. *)
LEMMA SaveDiagnosticsKeeps ==
    ASSUME Keeps, NEW r \in Reason, saveDiagnostics(r), Sound
    PROVE  Keeps'
  <1> DEFINE x == [run[r] EXCEPT !.pc = "prune"]
  <1>1. /\ run[r].pc = "diags" /\ run[r] \in Runs /\ run' = [run EXCEPT ![r] = x] /\ errors' = run[r].failed
        /\ UNCHANGED <<rows, files, findings, level, catalogue, running>>
    BY DEF saveDiagnostics, Sound, RunsKept
  <1>2. /\ x.pc = "prune" /\ x.level = run[r].level /\ x.rules = run[r].rules
        /\ x.failed = run[r].failed /\ Upheld(x) = Upheld(run[r])
    BY <1>1 DEF Runs, Upheld
  <1> HIDE DEF x
  <1>3. Active(run[r]) /\ Active(x)
    BY <1>1, <1>2 DEF Active
  <1>4. Importing \/ \A rule \in Upheld(x) : Full(findings', rule, rows', x.level)
    BY <1>1, <1>2, <1>3 DEF Keeps, Keeping
  <1>5. Single' /\ Keeping' /\ Kept'
    BY <1>1, <1>2, <1>3, <1>4, ActiveKeeps
  <1> QED
    BY <1>1, <1>5 DEF Keeps, Finite

(* The run ends: every rule is through, or has failed and is named in the diagnostics. *)
LEMMA PruneKeeps ==
    ASSUME Keeps, NEW r \in Reason, pruneOrphanFindings(r), Sound
    PROVE  Keeps'
  <1> DEFINE orphans == {f \in findings : f.rule \notin run[r].rules \cup {"engine"} /\ ~decided(f)}
  <1>1. /\ run[r].pc = "prune" /\ run[r] \in Runs /\ RunKept(run[r], rows) /\ run \in [Reason -> Runs]
        /\ run' = [run EXCEPT ![r] = NoRun] /\ findings' = findings \ orphans /\ running' = FALSE
        /\ UNCHANGED <<rows, files, addedAfter, level, catalogue, timer, errors>>
    BY DEF pruneOrphanFindings, Sound, RunsKept
  <1>2. Active(run[r]) /\ ~Active(NoRun) /\ NoRun.pc = "off"
    BY <1>1 DEF Active, NoRun
  <1>3. run'[r] = NoRun /\ \A q \in Reason : q # r => run'[q] = run[q] /\ ~Active(run[q])
    BY <1>1, <1>2 DEF Keeps, Single
  <1>4. \A q \in Reason : run'[q].pc # "prune"
    BY <1>2, <1>3 DEF Active
  <1>5. findings' \in SUBSET findings /\ \A f \in findings : f.rule \in run[r].rules => f \in findings'
    BY <1>1
  <1>6. run[r].rules = catalogue /\ run[r].level = level /\ errors = run[r].failed
    BY <1>1, <1>2 DEF Keeps, Single
  <1> HIDE DEF orphans
  <1>7. Single' /\ Keeping'
    BY <1>1, <1>2, <1>3, <1>4 DEF Keeps, Single, Keeping
  <1>8. ASSUME Settled', ~Flagged' PROVE \A rule \in catalogue' : Full(findings', rule, rows', level')
    <2>1. ~Importing /\ errors = {}
      BY <1>1, <1>8 DEF Settled, Flagged, Importing
    <2>2. Upheld(run[r]) = catalogue
      BY <1>1, <1>6, <2>1 DEF RunKept, Upheld
    <2>3. \A rule \in catalogue : Full(findings, rule, rows, level)
      BY <1>2, <1>6, <2>1, <2>2 DEF Keeps, Keeping
    <2> QED
      BY <1>1, <1>5, <1>6, <2>3, SameFull
  <1>9. IsFiniteSet(findings')
    BY <1>5, FS_Subset DEF Keeps, Finite
  <1> QED
    BY <1>1, <1>7, <1>8, <1>9 DEF Keeps, Finite, Kept

(* The analyst's decisions touch no row a finding cites. *)
LEMMA SetStatusKeeps ==
    ASSUME Keeps, NEW f \in findings, NEW s \in {"new", "false_positive"}, setStatusFor(f, s), Sound
    PROVE  Keeps'
  <1> DEFINE g == [f EXCEPT !.status = s]
             to == [m \in findings |-> IF m = f THEN g ELSE m]
  <1>1. /\ findings' = (findings \ {f}) \cup {g}
        /\ UNCHANGED <<rows, files, addedAfter, level, catalogue, run, running, timer, errors>>
    BY DEF setStatusFor
  <1>2. IsFinding(f)
    BY DEF Sound, FindingsKept, Formed
  <1>3. g.rule = f.rule /\ g.refs = f.refs /\ g.n = f.n
    BY <1>2, StatusIs
  <1> HIDE DEF g
  <1>4. findings' = {to[m] : m \in findings}
    BY <1>1
  <1>5. \A m \in findings : to[m].rule = m.rule /\ to[m].refs = m.refs /\ to[m].n = m.n
    BY <1>3
  <1> HIDE DEF to
  <1>6. IsFiniteSet(findings')
    BY <1>4, ImageFinite DEF Keeps, Finite
  <1>7. ASSUME NEW rule, NEW rs, NEW lvl, Full(findings, rule, rs, lvl) PROVE Full(findings', rule, rs, lvl)
    BY <1>4, <1>5, <1>7, ImageFull
  <1>8. Keeping'
    BY <1>1, <1>7 DEF Keeps, Keeping, Importing
  <1>9. Kept'
    BY <1>1, <1>7 DEF Keeps, Kept, Settled, Flagged, RunGoing
  <1> QED
    BY <1>1, <1>6, <1>8, <1>9 DEF Keeps, Finite, Single

(* A rule less. *)
LEMMA DeleteRuleKeeps ==
    ASSUME Keeps, NEW rule \in Rule, DeleteRule(rule), Quiet'
    PROVE  Keeps'
  <1>1. \A r \in Reason : run[r].pc = "off" /\ ~Active(run[r])
    BY QuietMeans, NoneGoing
  <1>2. /\ catalogue' \subseteq catalogue
        /\ UNCHANGED <<rows, files, addedAfter, findings, level, run, running, timer, errors>>
    BY DEF DeleteRule
  <1>3. Kept'
    BY <1>2 DEF Keeps, Kept, Settled, Flagged, RunGoing
  <1> QED
    BY <1>1, <1>2, <1>3 DEF Keeps, Finite, Single, Keeping

(* At first there is nothing to keep up with. *)
LEMMA KeepsInit == FindingsInit => Keeps
  <1> SUFFICES ASSUME FindingsInit PROVE Keeps
    OBVIOUS
  <1>1. rows = {} /\ findings = {} /\ running = FALSE /\ \A r \in Reason : run[r].pc = "off"
    BY DEF FindingsInit, NoRun
  <1>2. Finite
    BY <1>1, FS_EmptySet DEF Finite
  <1>3. Single /\ Keeping
    BY <1>1 DEF Single, Keeping, Active
  <1>4. Kept
    BY <1>1, EmptyFull DEF Kept
  <1> QED
    BY <1>2, <1>3, <1>4 DEF Keeps

(* Every quiet step keeps the findings up with the rows. *)
LEMMA KeepsStep ==
    ASSUME Keeps, Sound, [FindingsNext]_findingsVars, Quiet'
    PROVE  Keeps'
  <1>1. ASSUME NEW e \in Evidence,
               BeginImport(e) \/ WriteRows(e) \/ StoreEngine(e) \/ EndImport(e) \/ RemoveRows(e) \/ ClearFindings(e)
        PROVE  Keeps'
    BY <1>1, BeginImportKeeps, WriteRowsKeeps, StoreEngineKeeps, EndImportKeeps, RemoveRowsKeeps, ClearFindingsKeeps
  <1>2. ASSUME NEW r \in Reason, RuleRun(r)
        PROVE  Keeps'
    BY <1>2, LoadRulesKeeps, EvaluateRuleKeeps, RuleFailsKeeps, ReplaceKeeps, RefoldKeeps, SaveDiagnosticsKeeps,
       PruneKeeps DEF RuleRun
  <1>3. ASSUME NEW rule \in Rule, DeleteRule(rule) \/ RestoreRule(rule)
        PROVE  Keeps'
    BY <1>3, DeleteRuleKeeps, QuietMeans
  <1>4. CASE UNCHANGED findingsVars
    BY <1>4 DEF findingsVars, Keeps, Finite, Single, Keeping, Importing, Kept, Settled, Flagged, RunGoing
  <1> QED
    BY <1>1, <1>2, <1>3, <1>4, RunManuallyKeeps, TimerFiresKeeps, SetLevelKeeps, SetStatusKeeps DEF FindingsNext

(* When nothing goes on, every row a rule matches is cited by exactly one of its findings and no other row is,
   whatever was run, folded, decided, imported and removed before; or the page says that evidence was added
   since, or that a rule failed. *)
THEOREM FindingsKeepUpWithRows == FindingsSpec => []FindingsKeepUp
  <1>1. FindingsInit => KeepInv
    BY SoundInit, KeepsInit DEF KeepInv, Keeps
  <1>2. KeepInv /\ [FindingsNext]_findingsVars => KeepInv'
    <2> SUFFICES ASSUME KeepInv, [FindingsNext]_findingsVars, Quiet' PROVE Sound' /\ Keeps'
      BY DEF KeepInv, Keeps
    <2>1. Quiet /\ Undisturbed'
      BY MixedGrows DEF Quiet, Undisturbed
    <2>2. Sound /\ Keeps
      BY <2>1 DEF KeepInv, Keeps
    <2> QED
      BY <2>1, <2>2, SoundStep, KeepsStep
  <1>3. KeepInv => FindingsKeepUp
    <2> SUFFICES ASSUME KeepInv, Idle, Quiet, ~Flagged PROVE UpToDate
      BY DEF FindingsKeepUp, Quiet
    <2>1. Settled
      BY DEF Idle, Settled
    <2>2. \A rule \in catalogue : Full(findings, rule, rows, level)
      BY <2>1 DEF KeepInv, Kept
    <2> QED
      BY <2>2, FullCovers DEF UpToDate
  <1> QED
    BY <1>1, <1>2, <1>3, PTL DEF FindingsSpec
=============================================================================
