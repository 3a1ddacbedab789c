---------------------------- MODULE Review_proofs ----------------------------
(***************************************************************************)
(* Proofs about the analyst's side of a case, for any findings, chains,    *)
(* stories and settings.                                                   *)
(*                                                                         *)
(* The inbox: the ledger's entries are numbered and linked without a gap,  *)
(* a proposal written from the inbox ends accepted, and undoing one puts   *)
(* the case back to what it was, unless the Review page settled it too or  *)
(* something was written since.                                            *)
(*                                                                         *)
(* The review: what is decided holds every finding once; marking a finding *)
(* false positive moves no other one up the list; a case whose incidents   *)
(* are decided as wholes is confirmed or not whatever the report prints;   *)
(* and the report's cover agrees with the decisions and the checks.  The   *)
(* state that matters is small (ReviewInv); the proofs are about what is   *)
(* computed from it: incidents, selection, verdict and scores.             *)
(***************************************************************************)
EXTENDS AiInbox, Review, FiniteSetTheorems, WellFoundedInduction, TLAPS

-----------------------------------------------------------------------------
(* The inductive invariant *)

IsSeq(s) == Len(s) \in Nat /\ s = [i \in 1 .. Len(s) |-> s[i]]
Single(s) == s # <<>> /\ s = <<s[1]>>

TaskFields == {"pc", "todo", "p", "before"}
PageFields == {"pc", "fnd", "review", "seen", "p", "before", "pending"}
FindingFields == {"status", "by", "excluded", "unlinked", "note"}
ProposalFields == {"kind", "target", "d", "exposed", "status", "applied", "undone"}
AppendFields == {"kind", "p", "read", "after"}
LatestFields == {"p", "read", "case"}
Proposed == 1 .. Len(inbox)

\* The findings and the chains' reviews of a case, and a snapshot of some, as far as an undo puts them back.
FindingsOf(of) ==
  /\ of = [f \in Fnd |-> of[f]]
  /\ \A f \in Fnd : of[f] = [x \in FindingFields |-> of[f][x]]
ReviewsOf(rs) == rs = [c \in Chain |-> rs[c]]
Whole(b) == \A f \in DOMAIN b.findings : b.findings[f] = [x \in FindingFields |-> b.findings[f][x]]

\* Appends queue: the first one at most has read the last entry, and it is the last one.
LedgerInv ==
  /\ IsSeq(ledger) /\ IsSeq(logging) /\ verifyLedger
  /\ \A i \in 1 .. Len(logging) :
       /\ DOMAIN logging[i] = AppendFields
       /\ logging[i].read = FALSE \/ (i = 1 /\ logging[i].after = Len(ledger))

Shapes ==
  /\ IsSeq(inbox) /\ \A p \in Proposed : DOMAIN inbox[p] = ProposalFields
  /\ DOMAIN accept = TaskFields /\ DOMAIN undo = TaskFields /\ DOMAIN page = PageFields
  /\ DOMAIN latest = LatestFields
  /\ FindingsOf(fnd) /\ ReviewsOf(review)
  /\ wrote \subseteq Proposed /\ created \subseteq wrote

\* A decision is kept with what it found; so does the Review page.
Holds(p, s) == inbox[p].kind = "decision" => Single(s) /\ Whole(s[1])
Snapshots ==
  /\ \A p \in Proposed : inbox[p].applied # <<>> => Holds(p, inbox[p].applied)
  /\ accept.pc \in {"write", "settle"} => Single(accept.before) /\ Holds(accept.p, accept.before)
  /\ undo.pc = "revert" => Holds(undo.p, undo.before)
  /\ page.pc # "closed" => FindingsOf(page.fnd)
  /\ page.pc \in {"list", "settle"} => Single(page.before) /\ Whole(page.before[1])

\* An acceptance holds the proposal it writes.
Accepting ==
  /\ accept.pc \in {"off", "check"} => accept.p = 0
  /\ accept.pc = "check" => accept.todo # {}
  /\ accept.pc \in {"write", "settle"} => accept.p \in Proposed
  /\ accept.pc = "settle" => accept.p \in wrote
  /\ accept.pc \in {"off", "check", "write", "settle"}
  /\ accept.todo \subseteq Proposed
  /\ undo.pc \in {"revert", "settle"} => undo.p \in Proposed

\* Nobody but the Review page accepts the proposal that is being accepted, or the one that is being undone.
Alone ==
  /\ accept.p \in Proposed \ crossed => inbox[accept.p].status # "accepted" /\ page.p # accept.p
  /\ undo.pc = "revert" /\ undo.p \notin crossed =>
       accept.p # undo.p /\ inbox[undo.p].status = "accepted" /\ undo.before = inbox[undo.p].applied

\* What an acceptance reads before it writes p, of the case c.
ReadFor(p, c) ==
  CASE inbox[p].kind = "decision" -> Before(CHOOSE x \in Found(inbox[p].target, c[1]) : TRUE, c[1], c[2])
    [] inbox[p].kind = "summary" -> c[3]
    [] OTHER -> "none"

\* Taking back p, with what was read for it, makes the case the one it was read in.
Undoable(p, b, c) ==
  IF inbox[p].kind = "decision"
  THEN /\ \A f \in Fnd : IF f \in DOMAIN b.findings
                         THEN /\ b.findings[f] = c[1][f]
                              /\ WroteNote(b, inbox[p].d) \/ fnd[f].note = c[1][f].note
                         ELSE fnd[f] = c[1][f]
       /\ \A x \in Chain : IF x = b.item THEN b.review = c[2][x] ELSE review[x] = c[2][x]
       /\ summary = c[3] /\ created = c[4]
  ELSE IF inbox[p].kind = "summary"
  THEN b = c[3] /\ fnd = c[1] /\ review = c[2] /\ created = c[4]
  ELSE created \ {p} = c[4] /\ fnd = c[1] /\ review = c[2] /\ summary = c[3]

\* The last write of the case, when it is an acceptance's, can be undone with what was recorded for it.
Recorded(p) == IF accept.p = p THEN accept.before ELSE inbox[p].applied
Latest ==
  /\ latest.read # 0 => /\ latest.p = 0 /\ accept.pc = "write" /\ latest.read = accept.p
                        /\ latest.case = <<case>> /\ accept.before = <<ReadFor(accept.p, case)>>
                        /\ accept.p \in wrote => accept.p \in crossed
  /\ latest.p # 0 /\ latest.p \notin crossed =>
       /\ latest.p \in wrote /\ Single(latest.case) /\ Single(Recorded(latest.p))
       /\ Undoable(latest.p, Recorded(latest.p)[1], latest.case[1])
       /\ latest.case[1] = <<latest.case[1][1], latest.case[1][2], latest.case[1][3], latest.case[1][4]>>
       /\ FindingsOf(latest.case[1][1]) /\ ReviewsOf(latest.case[1][2])

CaseInv == Shapes /\ Snapshots /\ Accepting /\ Alone /\ WrittenIsAccepted /\ Latest
InboxInv == LedgerInv /\ CaseInv

-----------------------------------------------------------------------------
(* Sequences, and the least of a set of proposals *)

\* A sequence is one over its own elements.
LEMMA EveryPlace ==
  ASSUME NEW s, IsSeq(s)
  PROVE  s \in Seq({s[i] : i \in 1 .. Len(s)})
<1>1. s \in [1 .. Len(s) -> {s[i] : i \in 1 .. Len(s)}]
  BY DEF IsSeq
<1>. QED BY <1>1 DEF IsSeq

\* Any element of Seq(S) is a sequence in this sense.
LEMMA IsOne ==
  ASSUME NEW S, NEW s \in Seq(S)
  PROVE  IsSeq(s)
BY DEF IsSeq

\* A function on 1..n is a sequence of length n.
LEMMA FunctionIsSeq ==
  ASSUME NEW n \in Nat, NEW s, s = [i \in 1 .. n |-> s[i]]
  PROVE  IsSeq(s) /\ Len(s) = n
<1>1. s \in [1 .. n -> {s[i] : i \in 1 .. n}]
  OBVIOUS
<1>2. s \in Seq({s[i] : i \in 1 .. n}) /\ Len(s) = n
  BY <1>1
<1>. QED BY <1>2 DEF IsSeq

\* An element is added at the end.
LEMMA Appended ==
  ASSUME NEW s, IsSeq(s), NEW e
  PROVE  /\ IsSeq(Append(s, e)) /\ Len(Append(s, e)) = Len(s) + 1
         /\ \A i \in 1 .. Len(s) : Append(s, e)[i] = s[i]
         /\ Append(s, e)[Len(s) + 1] = e
<1>. DEFINE S == {s[i] : i \in 1 .. Len(s)} \cup {e}
<1>1. s \in Seq(S)
  <2>1. s \in [1 .. Len(s) -> S]
    BY DEF IsSeq
  <2>. QED BY <2>1 DEF IsSeq
<1>2. e \in S
  OBVIOUS
<1>. HIDE DEF S
<1>3. Append(s, e) \in Seq(S) /\ Len(Append(s, e)) = Len(s) + 1
  BY <1>1, <1>2
<1>4. IsSeq(Append(s, e))
  BY <1>3, IsOne
<1>. QED BY <1>1, <1>2, <1>3, <1>4

\* The first element is taken away.
LEMMA Shifted ==
  ASSUME NEW s, IsSeq(s), s # <<>>
  PROVE  /\ IsSeq(Tail(s)) /\ Len(Tail(s)) = Len(s) - 1 /\ Len(s) > 0 /\ Head(s) = s[1]
         /\ \A i \in 1 .. Len(s) - 1 : Tail(s)[i] = s[i + 1]
<1>. DEFINE S == {s[i] : i \in 1 .. Len(s)}
<1>1. s \in Seq(S)
  BY EveryPlace
<1>. HIDE DEF S
<1>2. Tail(s) \in Seq(S) /\ Len(Tail(s)) = Len(s) - 1 /\ Len(s) > 0 /\ Head(s) = s[1]
  BY <1>1
<1>3. IsSeq(Tail(s))
  BY <1>2, IsOne
<1>. QED BY <1>1, <1>2, <1>3

\* A set of proposals that is not empty has a least one.
LEMMA LeastIn ==
  ASSUME NEW S, S \subseteq Nat, S # {}
  PROVE  Min(S) \in S
<1>1. PICK x \in S : \A y \in S : x =< y
  <2>. DEFINE R == {ss \in Nat \X Nat : ss[1] < ss[2]}
  <2>1. IsWellFoundedOn(R, Nat)
    BY NatLessThanWellFounded DEF OpToRel
  <2>2. \A m, n \in Nat : m < n => <<m, n>> \in R
    OBVIOUS
  <2>. HIDE DEF R
  <2>3. PICK x \in S : \A y \in S : <<y, x>> \notin R
    BY <2>1, WFMin, Zenon
  <2>4. \A y \in S : x \in Nat /\ y \in Nat /\ ~(y < x)
    BY <2>2, <2>3
  <2>5. \A y \in S : x =< y
    BY <2>4, SMT
  <2>. QED BY <2>5
<1>. QED BY <1>1 DEF Min

\* Appends queued behind those under way.
LEMMA Queued ==
  ASSUME IsSeq(logging), NEW n \in Nat, NEW new, new = [i \in 1 .. n |-> new[i]]
  PROVE  /\ IsSeq(logging \o new) /\ Len(logging \o new) = Len(logging) + n
         /\ \A i \in 1 .. Len(logging) : (logging \o new)[i] = logging[i]
         /\ \A i \in 1 .. n : (logging \o new)[Len(logging) + i] = new[i]
<1>. DEFINE S == {logging[i] : i \in 1 .. Len(logging)} \cup {new[i] : i \in 1 .. n}
<1>1. logging \in Seq(S)
  <2>1. logging \in [1 .. Len(logging) -> S]
    BY DEF IsSeq
  <2>. QED BY <2>1 DEF IsSeq
<1>2. new \in Seq(S) /\ Len(new) = n
  <2>1. new \in [1 .. n -> S]
    OBVIOUS
  <2>. QED BY <2>1
<1>. HIDE DEF S
<1>3. logging \o new \in Seq(S) /\ Len(logging \o new) = Len(logging) + Len(new)
  BY <1>1, <1>2
<1>4. IsSeq(logging \o new)
  BY <1>3, IsOne
<1>. QED BY <1>1, <1>2, <1>3, <1>4

\* The appends of an update are queued behind those under way; none of them has read the ledger yet.
LEMMA Logged ==
  ASSUME IsSeq(logging), NEW kind, NEW ps, IsFiniteSet(ps)
  PROVE  /\ IsSeq(Log(kind, ps)) /\ Len(Log(kind, ps)) >= Len(logging)
         /\ \A i \in 1 .. Len(logging) : Log(kind, ps)[i] = logging[i]
         /\ \A i \in 1 .. Len(Log(kind, ps)) :
              i > Len(logging) => DOMAIN Log(kind, ps)[i] = AppendFields /\ Log(kind, ps)[i].read = FALSE
<1>. DEFINE n == Cardinality(ps)
            new == [i \in 1 .. n |-> [kind |-> kind, p |-> Nth(ps, i), read |-> FALSE, after |-> 0]]
<1>1. n \in Nat
  BY FS_CardinalityType
<1>2. \A i \in 1 .. n : DOMAIN new[i] = AppendFields /\ new[i].read = FALSE
  BY DEF AppendFields
<1>3. new = [i \in 1 .. n |-> new[i]] /\ Log(kind, ps) = logging \o new
  BY DEF Log
<1>. HIDE DEF n, new
<1>5. /\ IsSeq(logging \o new) /\ Len(logging \o new) = Len(logging) + n
      /\ \A i \in 1 .. Len(logging) : (logging \o new)[i] = logging[i]
      /\ \A i \in 1 .. n : (logging \o new)[Len(logging) + i] = new[i]
  BY <1>1, <1>3, Queued
<1>6. ASSUME NEW i \in 1 .. Len(logging) + n, i > Len(logging)
      PROVE  (logging \o new)[i] = new[i - Len(logging)] /\ i - Len(logging) \in 1 .. n
  <2>1. Len(logging) \in Nat /\ i \in Nat
    BY <1>1 DEF IsSeq
  <2>2. i - Len(logging) \in 1 .. n /\ Len(logging) + (i - Len(logging)) = i
    BY <1>1, <1>6, <2>1
  <2>. QED BY <1>5, <2>2
<1>7. Len(logging) \in Nat
  BY DEF IsSeq
<1>8. ASSUME NEW i \in 1 .. Len(logging \o new), i > Len(logging)
      PROVE  DOMAIN (logging \o new)[i] = AppendFields /\ (logging \o new)[i].read = FALSE
  BY <1>2, <1>5, <1>6, <1>8
<1>9. Len(logging \o new) >= Len(logging)
  BY <1>1, <1>5, <1>7
<1>. QED BY <1>3, <1>5, <1>8, <1>9

-----------------------------------------------------------------------------
(* The ledger *)

\* Whatever appends are queued, the ledger stays what it was.
LEMMA LoggedKeepsLedger ==
  ASSUME LedgerInv, UNCHANGED ledger, NEW kind, NEW ps, IsFiniteSet(ps),
         logging' = logging \/ logging' = Log(kind, ps)
  PROVE  LedgerInv'
<1>1. CASE logging' = logging
  BY <1>1 DEF LedgerInv, IsSeq, verifyLedger, AppendFields
<1>2. CASE logging' = Log(kind, ps)
  <2>1. IsSeq(logging) /\ IsSeq(ledger) /\ verifyLedger /\ Len(logging) \in Nat
    BY DEF LedgerInv, IsSeq
  <2>2. /\ IsSeq(logging') /\ Len(logging') >= Len(logging)
        /\ \A i \in 1 .. Len(logging) : logging'[i] = logging[i]
        /\ \A i \in 1 .. Len(logging') :
             i > Len(logging) => DOMAIN logging'[i] = AppendFields /\ logging'[i].read = FALSE
    BY <1>2, <2>1, Logged
  <2>3. IsSeq(ledger)' /\ verifyLedger' /\ IsSeq(logging)'
    BY <2>1, <2>2 DEF IsSeq, verifyLedger
  <2>4. ASSUME NEW i \in 1 .. Len(logging')
        PROVE  DOMAIN logging'[i] = AppendFields
               /\ (logging'[i].read = FALSE \/ (i = 1 /\ logging'[i].after = Len(ledger')))
    <3>0. Len(logging') \in Nat /\ i \in Nat
      BY <2>2 DEF IsSeq
    <3>1. CASE i > Len(logging)
      BY <2>2, <3>1
    <3>2. CASE ~(i > Len(logging))
      <4>1. i \in 1 .. Len(logging)
        BY <2>1, <3>0, <3>2
      <4>. QED BY <2>2, <4>1 DEF LedgerInv
    <3>. QED BY <3>1, <3>2
  <2>. QED BY <2>3, <2>4 DEF LedgerInv, AppendFields
<1>. QED BY <1>1, <1>2

\* The first append reads the last entry.
LEMMA ReadLastKeepsLedger ==
  ASSUME LedgerInv, ReadLast
  PROVE  LedgerInv'
<1>1. /\ IsSeq(logging) /\ logging # <<>> /\ ledger' = ledger
      /\ logging' = [logging EXCEPT ![1].read = TRUE, ![1].after = Len(ledger)]
  BY DEF LedgerInv, ReadLast
<1>2. Len(logging) > 0 /\ Len(logging) \in Nat
  BY <1>1, Shifted DEF IsSeq
<1>3. 1 \in 1 .. Len(logging) /\ DOMAIN logging = 1 .. Len(logging)
  BY <1>1, <1>2 DEF IsSeq
<1>4. /\ DOMAIN logging[1] = AppendFields
      /\ logging'[1] = [logging[1] EXCEPT !.read = TRUE, !.after = Len(ledger)]
      /\ \A i \in 1 .. Len(logging) : i # 1 => logging'[i] = logging[i]
  BY <1>1, <1>3 DEF LedgerInv
<1>5. logging' = [i \in 1 .. Len(logging) |-> logging'[i]]
  BY <1>1, <1>3
<1>6. IsSeq(logging') /\ Len(logging') = Len(logging)
  BY <1>2, <1>5, FunctionIsSeq
<1>7. DOMAIN logging'[1] = AppendFields /\ logging'[1].after = Len(ledger)
  BY <1>4 DEF AppendFields
<1>8. \A i \in 1 .. Len(logging') :
        /\ DOMAIN logging'[i] = AppendFields
        /\ logging'[i].read = FALSE \/ (i = 1 /\ logging'[i].after = Len(ledger'))
  BY <1>1, <1>4, <1>6, <1>7 DEF LedgerInv
<1>9. IsSeq(ledger)' /\ verifyLedger' /\ IsSeq(logging)'
  BY <1>1, <1>6 DEF LedgerInv, IsSeq, verifyLedger
<1>. QED BY <1>8, <1>9 DEF LedgerInv, AppendFields

\* The entry added is numbered after the one it read, and links to it: nothing was added in between.
LEMMA AddEntryKeepsLedger ==
  ASSUME LedgerInv, AddEntry
  PROVE  LedgerInv'
<1>. DEFINE n == logging[1].after
            e == [seq |-> n + 1, kind |-> logging[1].kind, p |-> logging[1].p,
                  prev |-> IF n = 0 THEN <<>> ELSE Hash(ledger[n])]
<1>1. IsSeq(logging) /\ IsSeq(ledger) /\ verifyLedger /\ logging # <<>> /\ Head(logging).read
      /\ logging' = Tail(logging)
  BY DEF LedgerInv, AddEntry
<1>2. /\ IsSeq(Tail(logging)) /\ Len(Tail(logging)) = Len(logging) - 1 /\ Len(logging) > 0
      /\ Head(logging) = logging[1] /\ Len(logging) \in Nat
      /\ \A i \in 1 .. Len(logging) - 1 : Tail(logging)[i] = logging[i + 1]
  BY <1>1, Shifted DEF IsSeq
<1>3. n = Len(ledger) /\ n \in Nat
  BY <1>1, <1>2 DEF LedgerInv, IsSeq
<1>4. ledger' = Append(ledger, e)
  BY <1>2 DEF AddEntry
<1>5. /\ e.seq = n + 1 /\ e.prev = IF n = 0 THEN <<>> ELSE Hash(ledger[n])
  OBVIOUS
<1>. HIDE DEF e
<1>6. /\ IsSeq(ledger') /\ Len(ledger') = n + 1
      /\ \A i \in 1 .. n : ledger'[i] = ledger[i]
      /\ ledger'[n + 1] = e
  BY <1>1, <1>3, <1>4, Appended
<1>. HIDE DEF n
<1>7. ASSUME NEW i \in 1 .. Len(ledger')
      PROVE  /\ ledger'[i].seq = i
             /\ ledger'[i].prev = IF i = 1 THEN <<>> ELSE Hash(ledger'[i - 1])
  <2>1. CASE i \in 1 .. n
    <3>1. i = 1 \/ i - 1 \in 1 .. n
      BY <1>3, <2>1
    <3>. QED BY <1>1, <1>3, <1>6, <2>1, <3>1 DEF verifyLedger
  <2>2. CASE i = n + 1
    <3>1. (n = 0 <=> i = 1) /\ i - 1 = n /\ (n # 0 => n \in 1 .. n)
      BY <1>3, <2>2
    <3>. QED BY <1>5, <1>6, <2>2, <3>1
  <2>. QED BY <1>3, <1>6, <2>1, <2>2
<1>8. verifyLedger' /\ IsSeq(ledger)' /\ IsSeq(logging)'
  BY <1>1, <1>2, <1>6, <1>7 DEF verifyLedger, IsSeq, Hash
<1>9. ASSUME NEW i \in 1 .. Len(logging')
      PROVE  DOMAIN logging'[i] = AppendFields /\ logging'[i].read = FALSE
  <2>1. i + 1 \in 1 .. Len(logging) /\ i + 1 # 1 /\ logging'[i] = logging[i + 1]
    BY <1>1, <1>2
  <2>. QED BY <2>1 DEF LedgerInv
<1>. QED BY <1>8, <1>9 DEF LedgerInv, AppendFields

-----------------------------------------------------------------------------
(* What most steps leave alone *)

\* What a proposal is about never changes, and none is forgotten.
Fixed(p) == inbox'[p].kind = inbox[p].kind /\ inbox'[p].target = inbox[p].target /\ inbox'[p].d = inbox[p].d
OnlyGrows == Proposed \subseteq Proposed' /\ \A p \in Proposed : Fixed(p)

\* What can be undone can be undone after a step that leaves the case alone.
LEMMA UndoableKept ==
  ASSUME NEW p, NEW b, NEW c, Fixed(p), UNCHANGED case, Undoable(p, b, c)
  PROVE  Undoable(p, b, c)'
BY DEF Undoable, Fixed, case

\* The last write stays the one that can be undone.
LEMMA LatestKept ==
  ASSUME Shapes, Accepting, Latest, OnlyGrows, UNCHANGED <<case, latest, wrote>>, crossed \subseteq crossed',
         latest.read # 0 => UNCHANGED accept,
         latest.p # 0 /\ latest.p \notin crossed' => Recorded(latest.p)' = Recorded(latest.p)
  PROVE  Latest'
<1>1. ASSUME latest.read # 0
      PROVE  /\ latest.p = 0 /\ accept'.pc = "write" /\ latest.read = accept'.p /\ latest.case = <<case'>>
             /\ accept'.before = <<ReadFor(accept.p, case)'>> /\ (accept'.p \in wrote' => accept'.p \in crossed')
  <2>1. Fixed(accept.p) /\ UNCHANGED <<accept, case>> /\ wrote' = wrote
    BY <1>1 DEF Latest, Accepting, OnlyGrows
  <2>2. ReadFor(accept.p, case)' = ReadFor(accept.p, case)
    BY <2>1 DEF ReadFor, Fixed
  <2>. QED BY <1>1, <2>1, <2>2 DEF Latest
<1>2. ASSUME latest.p # 0, latest.p \notin crossed'
      PROVE  /\ latest.p \in wrote' /\ Single(latest.case) /\ Single(Recorded(latest.p)')
             /\ Undoable(latest.p, Recorded(latest.p)[1], latest.case[1])'
             /\ latest.case[1] = <<latest.case[1][1], latest.case[1][2], latest.case[1][3], latest.case[1][4]>>
             /\ FindingsOf(latest.case[1][1]) /\ ReviewsOf(latest.case[1][2])
  <2>. DEFINE p == latest.p
              b == Recorded(latest.p)[1]
              c == latest.case[1]
  <2>1. /\ p \in wrote /\ Single(latest.case) /\ Single(Recorded(p)) /\ Undoable(p, b, c)
        /\ c = <<c[1], c[2], c[3], c[4]>> /\ FindingsOf(c[1]) /\ ReviewsOf(c[2])
    BY <1>2 DEF Latest
  <2>2. Fixed(p)
    BY <2>1 DEF Shapes, OnlyGrows
  <2>3. Recorded(p)' = Recorded(p)
    BY <1>2
  <2>4. UNCHANGED <<p, b, c>>
    BY <2>3
  <2>5. ASSUME NEW q, NEW r, NEW k, Fixed(q), Undoable(q, r, k)
        PROVE  Undoable(q, r, k)'
    BY <2>5, UndoableKept
  <2>. HIDE DEF p, b, c
  <2>6. Undoable(p, b, c)'
    <3>1. PICK x, y, z : x = p /\ y = b /\ z = c
      OBVIOUS
    <3>2. Undoable(x, y, z)
      BY <2>1, <3>1
    <3>3. Undoable(x, y, z)'
      BY <2>2, <2>5, <3>1, <3>2
    <3>4. x = p' /\ y = b' /\ z = c'
      BY <2>4, <3>1
    <3>. QED BY <3>3, <3>4
  <2>. QED BY <2>1, <2>3, <2>6 DEF p, b, c
<1>. QED BY <1>1, <1>2 DEF Latest

-----------------------------------------------------------------------------
(* The proposals *)

\* A step that only adds pending proposals, and supersedes or rejects some that are pending.
LEMMA PendingOnly ==
  ASSUME CaseInv, IsSeq(inbox'), OnlyGrows,
         UNCHANGED <<fnd, review, summary, created, accept, undo, page, latest, wrote, crossed>>,
         \A p \in Proposed' : DOMAIN inbox'[p] = ProposalFields,
         \A p \in Proposed' \ Proposed : inbox'[p].applied = <<>>,
         \A p \in Proposed : /\ inbox'[p].applied = inbox[p].applied
                             /\ \/ inbox'[p].status = inbox[p].status
                                \/ inbox[p].status = "pending" /\ inbox'[p].status # "accepted"
  PROVE  CaseInv'
<1>1. Shapes /\ Snapshots /\ Accepting /\ Alone /\ WrittenIsAccepted /\ Latest
  BY DEF CaseInv
<1>2. Shapes'
  BY <1>1 DEF Shapes, OnlyGrows, Proposed
<1>3. Snapshots'
  <2>1. \A p \in Proposed : Fixed(p)
    BY DEF OnlyGrows
  <2>2. ASSUME NEW p \in Proposed', inbox'[p].applied # <<>>
        PROVE  Holds(p, inbox[p].applied)'
    BY <1>1, <2>1, <2>2 DEF Snapshots, Holds, Fixed
  <2>3. accept.pc \in {"write", "settle"} => Holds(accept.p, accept.before)'
    BY <1>1, <2>1 DEF Snapshots, Holds, Fixed, Accepting
  <2>4. undo.pc = "revert" => Holds(undo.p, undo.before)'
    BY <1>1, <2>1 DEF Snapshots, Holds, Fixed, Accepting
  <2>. QED BY <1>1, <2>2, <2>3, <2>4 DEF Snapshots
<1>4. Accepting'
  BY <1>1 DEF Accepting, OnlyGrows
<1>5. Alone'
  <2>1. accept.p \in Proposed' \ crossed => accept.p \in Proposed
    BY <1>1 DEF Accepting, Proposed
  <2>. QED BY <1>1, <2>1 DEF Alone, Accepting
<1>6. WrittenIsAccepted'
  <2>1. \A p \in wrote \ crossed : accept.p # p => inbox[p].status = "accepted" /\ inbox[p].applied # <<>>
    BY <1>1 DEF WrittenIsAccepted
  <2>. QED BY <1>1, <2>1 DEF WrittenIsAccepted, Shapes
<1>7. Latest'
  <2>1. latest.p # 0 /\ latest.p \notin crossed => latest.p \in Proposed
    BY <1>1 DEF Latest, Shapes
  <2>2. ASSUME latest.p # 0, latest.p \notin crossed'
        PROVE  Recorded(latest.p)' = Recorded(latest.p)
    BY <2>1, <2>2 DEF Recorded
  <2>. QED BY <1>1, <2>2, LatestKept DEF case
<1>. QED BY <1>2, <1>3, <1>4, <1>5, <1>6, <1>7 DEF CaseInv

\* A new proposal takes the place of the pending one on its target.
LEMMA ProposeKeeps ==
  ASSUME InboxInv, NEW o, propose(o)
  PROVE  InboxInv'
<1>. DEFINE n == Len(inbox)
            old == [i \in 1 .. n |-> IF inbox[i].status = "pending" /\ SameTarget(inbox[i], o)
                                     THEN [inbox[i] EXCEPT !.status = "superseded"] ELSE inbox[i]]
            new == Proposal(o)
<1>1. /\ IsSeq(inbox) /\ n \in Nat /\ \A p \in 1 .. n : DOMAIN inbox[p] = ProposalFields
      /\ CaseInv /\ LedgerInv
  BY DEF InboxInv, CaseInv, Shapes, IsSeq, Proposed
<1>2. /\ inbox' = Append(old, new) /\ logging' = Log("proposal", {n + 1}) /\ ledger' = ledger
      /\ UNCHANGED <<fnd, review, summary, created, accept, undo, page, latest, wrote, crossed>>
  BY DEF propose
<1>3. \A i \in 1 .. n : /\ DOMAIN old[i] = ProposalFields /\ old[i].kind = inbox[i].kind
                        /\ old[i].target = inbox[i].target /\ old[i].d = inbox[i].d
                        /\ old[i].applied = inbox[i].applied
                        /\ \/ old[i].status = inbox[i].status
                           \/ inbox[i].status = "pending" /\ old[i].status # "accepted"
  BY <1>1 DEF ProposalFields
<1>4. DOMAIN new = ProposalFields /\ new.applied = <<>>
  BY DEF Proposal, ProposalFields
<1>5. old = [i \in 1 .. n |-> old[i]]
  OBVIOUS
<1>. HIDE DEF old, new
<1>6. IsSeq(old) /\ Len(old) = n
  BY <1>1, <1>5, FunctionIsSeq
<1>7. /\ IsSeq(inbox') /\ Len(inbox') = n + 1 /\ inbox'[n + 1] = new
      /\ \A i \in 1 .. n : inbox'[i] = old[i]
  BY <1>2, <1>6, Appended
<1>8. Proposed' = 1 .. n + 1 /\ Proposed = 1 .. n /\ Proposed' = Proposed \cup {n + 1}
  BY <1>1, <1>7 DEF Proposed
<1>9. OnlyGrows
  BY <1>3, <1>7, <1>8 DEF OnlyGrows, Fixed
<1>10. CaseInv'
  BY <1>1, <1>2, <1>3, <1>4, <1>7, <1>8, <1>9, PendingOnly
<1>11. LedgerInv'
  BY <1>1, <1>2, FS_Singleton, LoggedKeepsLedger
<1>. QED BY <1>10, <1>11 DEF InboxInv

\* Rejecting proposals touches pending ones only.
LEMMA RejectKeeps ==
  ASSUME InboxInv, NEW ids, rejectProposals(ids)
  PROVE  InboxInv'
<1>. DEFINE n == Len(inbox)
            done == ids \cap Pending
<1>1. /\ IsSeq(inbox) /\ n \in Nat /\ \A p \in 1 .. n : DOMAIN inbox[p] = ProposalFields
      /\ CaseInv /\ LedgerInv
  BY DEF InboxInv, CaseInv, Shapes, IsSeq, Proposed
<1>2. /\ inbox' = [i \in 1 .. n |-> IF i \in done THEN [inbox[i] EXCEPT !.status = "rejected"] ELSE inbox[i]]
      /\ logging' = Log("rejected", done) /\ ledger' = ledger
      /\ UNCHANGED <<fnd, review, summary, created, accept, undo, page, latest, wrote, crossed>>
  BY DEF rejectProposals
<1>3. \A i \in done : i \in 1 .. n /\ inbox[i].status = "pending"
  BY DEF Pending
<1>. HIDE DEF done
<1>4. \A i \in 1 .. n : /\ DOMAIN inbox'[i] = ProposalFields /\ inbox'[i].kind = inbox[i].kind
                        /\ inbox'[i].target = inbox[i].target /\ inbox'[i].d = inbox[i].d
                        /\ inbox'[i].applied = inbox[i].applied
                        /\ \/ inbox'[i].status = inbox[i].status
                           \/ inbox[i].status = "pending" /\ inbox'[i].status # "accepted"
  BY <1>1, <1>2, <1>3 DEF ProposalFields
<1>5. inbox' = [i \in 1 .. n |-> inbox'[i]]
  BY <1>2
<1>6. IsSeq(inbox') /\ Len(inbox') = n
  BY <1>1, <1>5, FunctionIsSeq
<1>7. Proposed' = 1 .. n /\ Proposed = 1 .. n
  BY <1>6 DEF Proposed
<1>8. OnlyGrows
  BY <1>4, <1>7 DEF OnlyGrows, Fixed
<1>9. CaseInv'
  BY <1>1, <1>2, <1>4, <1>6, <1>7, <1>8, PendingOnly
<1>10. LedgerInv'
  <2>1. IsFiniteSet(done)
    <3>1. IsFiniteSet(1 .. n)
      BY <1>1, FS_Interval
    <3>2. done \subseteq 1 .. n
      BY <1>3
    <3>. QED BY <3>1, <3>2, FS_Subset
  <2>. QED BY <1>1, <1>2, <2>1, LoggedKeepsLedger
<1>. QED BY <1>9, <1>10 DEF InboxInv

-----------------------------------------------------------------------------
(* Accepting *)

\* Where an acceptance goes after a proposal: to the next one, or it ends.
LEMMA NextShape ==
  ASSUME accept.todo \subseteq Proposed
  PROVE  /\ DOMAIN NextOf(accept) = TaskFields /\ NextOf(accept).p = 0
         /\ NextOf(accept).todo \subseteq Proposed
         /\ \/ NextOf(accept).pc = "off"
            \/ NextOf(accept).pc = "check" /\ NextOf(accept).todo # {}
BY DEF NextOf, NoTask, TaskFields

\* What is being accepted is named; nothing is written.
LEMMA AcceptProposalsKeeps ==
  ASSUME InboxInv, NEW ids \in SUBSET Proposed, acceptProposals(ids)
  PROVE  InboxInv'
<1>1. Shapes /\ Snapshots /\ Accepting /\ Alone /\ WrittenIsAccepted /\ Latest /\ LedgerInv
  BY DEF InboxInv, CaseInv
<1>2. /\ accept.pc = "off" /\ ids # {} /\ accept' = [NoTask EXCEPT !.pc = "check", !.todo = ids]
      /\ UNCHANGED <<fnd, review, summary, created, inbox, undo, page, ledger, logging, latest, wrote, crossed>>
  BY DEF acceptProposals
<1>3. /\ DOMAIN accept' = TaskFields /\ accept'.pc = "check" /\ accept'.todo = ids /\ accept'.p = 0
      /\ accept.p = 0
  BY <1>1, <1>2 DEF NoTask, TaskFields, Accepting
<1>4. 0 \notin Proposed /\ Proposed' = Proposed
  BY <1>2 DEF Proposed
<1>5. OnlyGrows
  BY <1>2 DEF OnlyGrows, Fixed, Proposed
<1>6. Shapes' /\ Accepting' /\ Alone'
  BY <1>1, <1>2, <1>3, <1>4 DEF Shapes, Accepting, Alone
<1>7. Snapshots'
  BY <1>1, <1>2, <1>3, <1>4 DEF Snapshots, Holds
<1>8. WrittenIsAccepted'
  BY <1>1, <1>2, <1>3, <1>4 DEF WrittenIsAccepted, Shapes
<1>9. Latest'
  <2>1. latest.read = 0
    BY <1>1, <1>2 DEF Latest
  <2>2. ASSUME latest.p # 0
        PROVE  Recorded(latest.p)' = Recorded(latest.p)
    BY <1>2, <1>3, <2>2 DEF Recorded
  <2>. QED BY <1>1, <1>2, <1>5, <2>1, <2>2, LatestKept DEF case
<1>10. LedgerInv'
  BY <1>1, <1>2 DEF LedgerInv, IsSeq, verifyLedger, AppendFields
<1>. QED BY <1>6, <1>7, <1>8, <1>9, <1>10 DEF InboxInv, CaseInv

\* The snapshot of a case whose findings have their fields has them too.
LEMMA BeforeIsWhole ==
  ASSUME NEW of, FindingsOf(of), NEW item, NEW rs
  PROVE  Whole(Before(item, of, rs))
<1>1. DOMAIN Before(item, of, rs).findings \subseteq Fnd
  BY DEF Before, Members
<1>2. \A f \in DOMAIN Before(item, of, rs).findings : Before(item, of, rs).findings[f] = of[f]
  BY DEF Before
<1>. QED BY <1>1, <1>2 DEF Whole, FindingsOf

\* The oldest proposal still to be accepted is looked at: when it goes on, what it finds is read.
LEMMA AcceptCheckKeeps ==
  ASSUME InboxInv, AcceptCheck
  PROVE  InboxInv'
<1>0. PICK p : p = Min(accept.todo)
  OBVIOUS
<1>. DEFINE item == IF inbox[p].kind = "decision" THEN Found(inbox[p].target, fnd) ELSE {"none"}
            goes == inbox[p].status = "pending" /\ item # {}
            before == CASE inbox[p].kind = "decision" -> Before(CHOOSE x \in item : TRUE, fnd, review)
                        [] inbox[p].kind = "summary" -> summary
                        [] OTHER -> "none"
<1>1. Shapes /\ Snapshots /\ Accepting /\ Alone /\ WrittenIsAccepted /\ Latest /\ LedgerInv
  BY DEF InboxInv, CaseInv
<1>2. /\ accept.pc = "check"
      /\ accept' = IF goes THEN [accept EXCEPT !.pc = "write", !.p = p, !.before = <<before>>] ELSE NextOf(accept)
      /\ latest' = IF goes THEN [p |-> 0, read |-> p, case |-> <<case>>] ELSE latest
      /\ crossed' = crossed \cup ({p} \cap {page.p})
      /\ UNCHANGED <<fnd, review, summary, created, inbox, undo, page, ledger, logging, wrote>>
  BY <1>0 DEF AcceptCheck
<1>3. before = ReadFor(p, case)
  BY DEF ReadFor, case
<1>4. p \in Proposed /\ 0 \notin Proposed /\ accept.p = 0 /\ accept.todo \subseteq Proposed
  <2>1. accept.todo \subseteq Nat /\ accept.todo # {} /\ accept.todo \subseteq Proposed /\ accept.p = 0
    BY <1>1, <1>2 DEF Accepting, Proposed
  <2>2. Min(accept.todo) \in accept.todo
    BY <2>1, LeastIn
  <2>. QED BY <1>0, <2>1, <2>2 DEF Proposed
<1>5. inbox[p].kind = "decision" => Whole(before)
  <2>1. \A x : Whole(Before(x, fnd, review))
    BY <1>1, BeforeIsWhole DEF Shapes
  <2>. QED BY <2>1
<1>. HIDE DEF before
<1>6. LedgerInv' /\ OnlyGrows /\ Proposed' = Proposed
  BY <1>1, <1>2 DEF LedgerInv, IsSeq, verifyLedger, AppendFields, OnlyGrows, Fixed, Proposed
<1>7. CASE ~goes
  <2>1. /\ DOMAIN accept' = TaskFields /\ accept'.p = 0 /\ accept'.todo \subseteq Proposed
        /\ accept'.pc = "off" \/ (accept'.pc = "check" /\ accept'.todo # {})
    BY <1>2, <1>4, <1>7, NextShape
  <2>2. latest' = latest /\ crossed \subseteq crossed' /\ latest.read = 0
    BY <1>1, <1>2, <1>7 DEF Latest
  <2>3. Shapes' /\ Accepting'
    BY <1>1, <1>2, <1>4, <1>6, <2>1, <2>2 DEF Shapes, Accepting
  <2>4. Alone'
    BY <1>1, <1>2, <1>4, <1>6, <2>1, <2>2 DEF Alone, Accepting
  <2>5. Snapshots'
    BY <1>1, <1>2, <1>4, <1>6, <2>1 DEF Snapshots, Holds
  <2>6. WrittenIsAccepted'
    BY <1>1, <1>2, <1>4, <2>1, <2>2 DEF WrittenIsAccepted, Shapes
  <2>7. Latest'
    <3>1. ASSUME latest.p # 0
          PROVE  Recorded(latest.p)' = Recorded(latest.p)
      BY <1>2, <1>4, <2>1, <2>2, <3>1 DEF Recorded
    <3>. QED BY <1>1, <1>2, <1>6, <2>2, <3>1, LatestKept DEF case
  <2>. QED BY <1>6, <2>3, <2>4, <2>5, <2>6, <2>7 DEF InboxInv, CaseInv
<1>8. CASE goes
  <2>1. /\ DOMAIN accept' = TaskFields /\ accept'.p = p /\ accept'.todo = accept.todo /\ accept'.pc = "write"
        /\ accept'.before = <<before>>
    BY <1>1, <1>2, <1>8 DEF Shapes, TaskFields
  <2>2. /\ DOMAIN latest' = LatestFields /\ latest'.p = 0 /\ latest'.read = p /\ latest'.case = <<case>>
    BY <1>2, <1>8 DEF LatestFields
  <2>3. inbox[p].status = "pending" /\ crossed \subseteq crossed' /\ (page.p = p => p \in crossed')
    BY <1>2, <1>8
  <2>4. p \in wrote => p \in crossed'
    BY <1>1, <1>4, <2>3 DEF WrittenIsAccepted
  <2>5. Shapes' /\ Accepting'
    BY <1>1, <1>2, <1>4, <1>6, <2>1, <2>2 DEF Shapes, Accepting
  <2>6. Alone'
    BY <1>1, <1>2, <1>4, <1>6, <2>1, <2>3 DEF Alone, Accepting
  <2>7. Snapshots'
    <3>1. Single(accept'.before) /\ (inbox[p].kind = "decision" => Whole(accept'.before[1]))
      BY <1>5, <2>1 DEF Single
    <3>. QED BY <1>1, <1>2, <1>4, <1>6, <2>1, <3>1 DEF Snapshots, Holds
  <2>8. WrittenIsAccepted'
    BY <1>1, <1>2, <1>4, <2>1, <2>3, <2>4 DEF WrittenIsAccepted, Shapes
  <2>9. Latest'
    <3>1. UNCHANGED case /\ p # 0
      BY <1>2, <1>4 DEF case
    <3>2. ReadFor(p, case)' = ReadFor(p, case)
      BY <1>2, <3>1 DEF ReadFor
    <3>3. accept'.before = <<ReadFor(accept.p, case)'>>
      <4>1. ReadFor(accept.p, case)' = ReadFor(p, case)'
        BY <2>1
      <4>. QED BY <1>3, <2>1, <3>2, <4>1
    <3>. QED BY <2>1, <2>2, <2>4, <3>1, <3>3, <1>2 DEF Latest
  <2>. QED BY <1>6, <2>5, <2>6, <2>7, <2>8, <2>9 DEF InboxInv, CaseInv
<1>. QED BY <1>7, <1>8

\* A decision keeps the findings' fields, touches the members of its item only, and the notes only when it
\* wrote one.
LEMMA DecisionWrites ==
  ASSUME FindingsOf(fnd), ReviewsOf(review), NEW b, NEW d, applyDecision(b, d)
  PROVE  /\ FindingsOf(fnd') /\ ReviewsOf(review')
         /\ \A f \in Fnd : f \notin DOMAIN b.findings => fnd'[f] = fnd[f]
         /\ ~WroteNote(b, d) => \A f \in Fnd : fnd'[f].note = fnd[f].note
         /\ \A x \in Chain : x # b.item => review'[x] = review[x]
<1>1. CASE b.item \in Chain
  <2>. DEFINE unlinked == d.unlink \cap DOMAIN b.findings
              status == verdictStatus(InWordsOf(b.item, d.decision))
              settled == [f \in Fnd |-> IF f \in DOMAIN b.findings \ unlinked
                                     THEN [fnd[f] EXCEPT !.status = status, !.by = "ai"] ELSE fnd[f]]
  <2>1. DecideChain(b, d)
    BY <1>1 DEF applyDecision
  <2>2. fnd' = [f \in Fnd |-> IF f \in unlinked THEN [settled[f] EXCEPT !.unlinked = TRUE] ELSE settled[f]]
    BY <2>1 DEF DecideChain, SetOn
  <2>. HIDE DEF status
  <2>3. ASSUME NEW f \in Fnd
        PROVE  /\ settled[f] = [x \in FindingFields |-> settled[f][x]] /\ settled[f].note = fnd[f].note
               /\ f \notin DOMAIN b.findings => settled[f] = fnd[f]
    <3>1. fnd[f] = [x \in FindingFields |-> fnd[f][x]]
      BY DEF FindingsOf
    <3>. QED BY <3>1 DEF FindingFields
  <2>. HIDE DEF settled
  <2>4. ASSUME NEW f \in Fnd
        PROVE  /\ fnd'[f] = [x \in FindingFields |-> fnd'[f][x]] /\ fnd'[f].note = fnd[f].note
               /\ f \notin DOMAIN b.findings => fnd'[f] = fnd[f]
    BY <2>2, <2>3 DEF FindingFields
  <2>5. ReviewsOf(review') /\ \A x \in Chain : x # b.item => review'[x] = review[x]
    <3>1. PICK r : review' = [review EXCEPT ![b.item] = r]
      BY <2>1 DEF DecideChain
    <3>. QED BY <3>1 DEF ReviewsOf
  <2>6. fnd' = [f \in Fnd |-> fnd'[f]]
    BY <2>2
  <2>. QED BY <2>4, <2>5, <2>6 DEF FindingsOf
<1>2. CASE b.item \notin Chain
  <2>1. DecideIncident(b, d) /\ (WroteNote(b, d) <=> d.note /\ b.findings[Lead(b)].note # "analyst")
    BY <1>2 DEF applyDecision, WroteNote
  <2>2. review' = review /\ fnd' = [f \in Fnd |-> fnd'[f]]
    BY <2>1 DEF DecideIncident
  <2>3. ASSUME NEW f \in Fnd
        PROVE  /\ fnd'[f] = [x \in FindingFields |-> fnd'[f][x]]
               /\ ~WroteNote(b, d) => fnd'[f].note = fnd[f].note
               /\ f \notin DOMAIN b.findings => fnd'[f] = fnd[f]
    <3>. DEFINE status == InWordsOf(b.item, d.decision)
                writes == d.note /\ b.findings[Lead(b)].note # "analyst" /\ f = Lead(b)
    <3>1. fnd'[f] = IF f \notin DOMAIN b.findings THEN fnd[f] ELSE
                    [fnd[f] EXCEPT !.status = status, !.by = "ai",
                                   !.excluded = IF d.include = "none" THEN @ ELSE d.include = "no",
                                   !.note = IF writes THEN "ai" ELSE @]
      BY <2>1 DEF DecideIncident
    <3>2. fnd[f] = [x \in FindingFields |-> fnd[f][x]]
      BY DEF FindingsOf
    <3>3. writes => WroteNote(b, d)
      BY <2>1
    <3>. HIDE DEF status, writes
    <3>. QED BY <3>1, <3>2, <3>3 DEF FindingFields
  <2>. QED BY <2>2, <2>3 DEF FindingsOf, ReviewsOf
<1>. QED BY <1>1, <1>2

\* What was read for a proposal right before it was written undoes it.
LEMMA WriteCanBeUndone ==
  ASSUME FindingsOf(fnd), ReviewsOf(review), NEW p, NEW c, c = case, NEW r, r = ReadFor(p, c), p \notin created,
         UNCHANGED inbox,
         \/ inbox[p].kind = "decision" /\ applyDecision(r, inbox[p].d) /\ UNCHANGED <<summary, created>>
         \/ inbox[p].kind # "decision" /\ inbox[p].kind = "summary" /\ UNCHANGED <<fnd, review, created>>
         \/ /\ inbox[p].kind # "decision" /\ inbox[p].kind # "summary"
            /\ created' = created \cup {p} /\ UNCHANGED <<fnd, review, summary>>
  PROVE  Undoable(p, r, c)'
<1>1. c[1] = fnd /\ c[2] = review /\ c[3] = summary /\ c[4] = created
  BY DEF case
<1>2. CASE inbox[p].kind = "decision"
  <2>. DEFINE item == CHOOSE x \in Found(inbox[p].target, fnd) : TRUE
              d == inbox[p].d
  <2>1. r = Before(item, fnd, review) /\ applyDecision(r, d) /\ UNCHANGED <<summary, created>>
    BY <1>1, <1>2 DEF ReadFor
  <2>. HIDE DEF item, d
  <2>2. /\ r.item = item /\ DOMAIN r.findings \subseteq Fnd /\ \A f \in DOMAIN r.findings : r.findings[f] = fnd[f]
        /\ item \in Chain => r.review = review[item]
    BY <2>1 DEF Before, Members
  <2>3. /\ \A f \in Fnd : f \notin DOMAIN r.findings => fnd'[f] = fnd[f]
        /\ ~WroteNote(r, d) => \A f \in Fnd : fnd'[f].note = fnd[f].note
        /\ \A x \in Chain : x # r.item => review'[x] = review[x]
    BY <2>1, DecisionWrites
  <2>4. \A f \in Fnd : IF f \in DOMAIN r.findings
                       THEN r.findings[f] = c[1][f] /\ (WroteNote(r, d) \/ fnd'[f].note = c[1][f].note)
                       ELSE fnd'[f] = c[1][f]
    BY <1>1, <2>2, <2>3
  <2>5. \A x \in Chain : IF x = r.item THEN r.review = c[2][x] ELSE review'[x] = c[2][x]
    BY <1>1, <2>2, <2>3
  <2>6. summary' = c[3] /\ created' = c[4] /\ inbox'[p].kind = "decision" /\ inbox'[p].d = d
    BY <1>1, <1>2, <2>1 DEF d
  <2>. QED BY <2>4, <2>5, <2>6 DEF Undoable
<1>3. CASE inbox[p].kind = "summary"
  <2>1. r = c[3]
    BY <1>1, <1>3 DEF ReadFor
  <2>. QED BY <1>1, <1>3, <2>1 DEF Undoable
<1>4. CASE inbox[p].kind # "decision" /\ inbox[p].kind # "summary"
  <2>1. created' \ {p} = created
    BY <1>4
  <2>. QED BY <1>1, <1>4, <2>1 DEF Undoable
<1>. QED BY <1>2, <1>3, <1>4

\* A proposal is written: what it can be undone with is what was read for it, when nothing was written since.
LEMMA ApplyOneKeeps ==
  ASSUME InboxInv, applyOne
  PROVE  InboxInv'
<1>0. PICK p : p = accept.p
  OBVIOUS
<1>. DEFINE kind == inbox[p].kind
            d == inbox[p].d
<1>1. Shapes /\ Snapshots /\ Accepting /\ Alone /\ WrittenIsAccepted /\ Latest /\ LedgerInv
  BY DEF InboxInv, CaseInv
<1>2. /\ accept.pc = "write" /\ accept' = [accept EXCEPT !.pc = "settle"] /\ wrote' = wrote \cup {p}
      /\ latest' = IF latest.read = p THEN [latest EXCEPT !.p = p, !.read = 0] ELSE Nothing
      /\ UNCHANGED <<inbox, undo, page, ledger, logging, crossed>>
      /\ \/ kind = "decision" /\ applyDecision(accept.before[1], d) /\ UNCHANGED <<summary, created>>
         \/ kind # "decision" /\ kind = "summary" /\ summary' = "ai" /\ UNCHANGED <<fnd, review, created>>
         \/ /\ kind # "decision" /\ kind # "summary"
            /\ created' = created \cup {p} /\ UNCHANGED <<fnd, review, summary>>
  BY <1>0 DEF applyOne
<1>3. /\ p \in Proposed /\ p # 0 /\ DOMAIN accept' = TaskFields /\ accept'.pc = "settle" /\ accept'.p = p
      /\ accept'.before = accept.before /\ accept'.todo = accept.todo
  BY <1>0, <1>1, <1>2 DEF Accepting, Shapes, TaskFields, Proposed
<1>4. LedgerInv' /\ OnlyGrows /\ Proposed' = Proposed
  BY <1>1, <1>2 DEF LedgerInv, IsSeq, verifyLedger, AppendFields, OnlyGrows, Fixed, Proposed
<1>5. FindingsOf(fnd)' /\ ReviewsOf(review)' /\ created' \subseteq wrote'
  <2>1. FindingsOf(fnd) /\ ReviewsOf(review) /\ created \subseteq wrote
    BY <1>1 DEF Shapes
  <2>2. CASE kind = "decision"
    <3>1. applyDecision(accept.before[1], d) /\ created' = created
      BY <1>2, <2>2
    <3>2. FindingsOf(fnd') /\ ReviewsOf(review')
      BY <2>1, <3>1, DecisionWrites
    <3>. QED BY <1>2, <2>1, <3>1, <3>2 DEF FindingsOf, ReviewsOf
  <2>3. CASE kind # "decision"
    BY <1>2, <2>1, <2>3 DEF FindingsOf, ReviewsOf
  <2>. QED BY <2>2, <2>3
<1>6. latest'.read = 0 /\ DOMAIN latest' = LatestFields /\ (latest.read # p => latest'.p = 0)
  BY <1>1, <1>2 DEF Shapes, LatestFields, Nothing
<1>7. Shapes' /\ Accepting' /\ Alone'
  BY <1>0, <1>1, <1>2, <1>3, <1>4, <1>5, <1>6 DEF Shapes, Accepting, Alone
<1>8. Snapshots'
  BY <1>0, <1>1, <1>2, <1>3, <1>4 DEF Snapshots, Holds
<1>9. WrittenIsAccepted'
  BY <1>0, <1>1, <1>2, <1>3 DEF WrittenIsAccepted
<1>10. ASSUME latest.read = p, p \notin crossed
       PROVE  /\ latest'.p = p /\ Single(latest'.case) /\ latest'.case[1] = case /\ Recorded(p)' = accept.before
              /\ accept.before = <<ReadFor(p, case)>> /\ Single(accept.before) /\ p \notin created
  <2>1. latest'.p = p /\ latest'.case = latest.case /\ Recorded(p)' = accept.before
    BY <1>1, <1>2, <1>3, <1>10 DEF Shapes, LatestFields, Recorded
  <2>2. latest.case = <<case>> /\ accept.before = <<ReadFor(p, case)>> /\ p \notin wrote
    BY <1>0, <1>1, <1>3, <1>10 DEF Latest
  <2>. QED BY <1>1, <2>1, <2>2 DEF Single, Shapes
<1>11. Latest'
  <2>1. ASSUME latest'.p # 0, latest'.p \notin crossed
        PROVE  /\ latest'.p \in wrote' /\ Single(latest'.case) /\ Single(Recorded(latest.p)')
               /\ Undoable(latest.p, Recorded(latest.p)[1], latest.case[1])'
               /\ FindingsOf(latest'.case[1][1]) /\ ReviewsOf(latest'.case[1][2])
               /\ latest'.case[1] = <<latest'.case[1][1], latest'.case[1][2], latest'.case[1][3],
                                      latest'.case[1][4]>>
    <3>0. PICK c, r : c = case /\ r = ReadFor(p, c)
      OBVIOUS
    <3>1. latest.read = p /\ latest'.p = p /\ p \notin crossed
      BY <1>2, <1>6, <1>10, <2>1
    <3>2. /\ Single(latest'.case) /\ latest'.case[1] = c /\ Recorded(p)' = <<r>> /\ Single(<<r>>)
          /\ accept.before[1] = r /\ p \notin created
      BY <1>10, <3>0, <3>1
    <3>3. FindingsOf(fnd) /\ ReviewsOf(review)
      BY <1>1 DEF Shapes
    <3>4. Undoable(p, r, c)'
      BY <1>2, <3>0, <3>2, <3>3, WriteCanBeUndone
    <3>5. Recorded(latest.p)' = <<r>> /\ Recorded(latest.p)'[1] = r
      BY <3>1, <3>2
    <3>6. Undoable(latest.p, Recorded(latest.p)[1], latest.case[1])'
      BY <3>1, <3>2, <3>4, <3>5
    <3>7. c = <<c[1], c[2], c[3], c[4]>> /\ c[1] = fnd /\ c[2] = review
      BY <3>0 DEF case
    <3>. QED BY <1>2, <3>1, <3>2, <3>3, <3>5, <3>6, <3>7
  <2>. QED BY <1>2, <1>6, <2>1 DEF Latest
<1>. QED BY <1>4, <1>7, <1>8, <1>9, <1>11 DEF InboxInv, CaseInv

\* The proposal written is accepted, and keeps what was read for it; the next one is taken.
LEMMA AcceptSettleKeeps ==
  ASSUME InboxInv, AcceptSettle
  PROVE  InboxInv'
<1>0. PICK p : p = accept.p
  OBVIOUS
<1>1. Shapes /\ Snapshots /\ Accepting /\ Alone /\ WrittenIsAccepted /\ Latest /\ LedgerInv
  BY DEF InboxInv, CaseInv
<1>2. /\ accept.pc = "settle" /\ accept' = NextOf(accept) /\ logging' = Log("accepted", {p})
      /\ inbox' = [inbox EXCEPT ![p].status = "accepted", ![p].applied = accept.before, ![p].undone = FALSE]
      /\ UNCHANGED <<fnd, review, summary, created, undo, page, ledger, latest, wrote, crossed>>
  BY <1>0 DEF AcceptSettle
<1>3. /\ p \in Proposed /\ p # 0 /\ p \in wrote /\ Single(accept.before) /\ Holds(p, accept.before)
      /\ accept.todo \subseteq Proposed
  BY <1>0, <1>1, <1>2 DEF Accepting, Snapshots, Proposed
<1>4. /\ DOMAIN accept' = TaskFields /\ accept'.p = 0 /\ accept'.todo \subseteq Proposed
      /\ accept'.pc = "off" \/ (accept'.pc = "check" /\ accept'.todo # {})
  BY <1>2, <1>3, NextShape
<1>5. IsSeq(inbox) /\ DOMAIN inbox = Proposed /\ DOMAIN inbox[p] = ProposalFields
  BY <1>1, <1>3 DEF Shapes, IsSeq, Proposed
<1>6. /\ \A q \in Proposed : q # p => inbox'[q] = inbox[q]
      /\ DOMAIN inbox'[p] = ProposalFields /\ inbox'[p].status = "accepted" /\ inbox'[p].applied = accept.before
      /\ inbox'[p].kind = inbox[p].kind /\ inbox'[p].target = inbox[p].target /\ inbox'[p].d = inbox[p].d
  BY <1>2, <1>3, <1>5 DEF ProposalFields
<1>7. IsSeq(inbox') /\ Proposed' = Proposed
  <2>1. inbox' = [q \in 1 .. Len(inbox) |-> inbox'[q]] /\ Len(inbox) \in Nat
    BY <1>2, <1>5 DEF Proposed, IsSeq
  <2>. QED BY <2>1, FunctionIsSeq DEF Proposed
<1>8. OnlyGrows
  BY <1>6, <1>7 DEF OnlyGrows, Fixed
<1>9. LedgerInv'
  BY <1>1, <1>2, FS_Singleton, LoggedKeepsLedger
<1>10. Shapes' /\ Accepting'
  BY <1>1, <1>2, <1>3, <1>4, <1>6, <1>7 DEF Shapes, Accepting
<1>11. Alone'
  <2>1. ASSUME undo.pc = "revert", undo.p \notin crossed
        PROVE  inbox'[undo.p].status = "accepted" /\ undo.before = inbox'[undo.p].applied
    <3>1. undo.p \in Proposed /\ p # undo.p
      BY <1>0, <1>1, <2>1 DEF Alone, Accepting
    <3>. QED BY <1>1, <1>6, <2>1, <3>1 DEF Alone
  <2>2. accept'.p = 0 /\ 0 \notin Proposed' /\ undo' = undo /\ crossed' = crossed
        /\ (undo.pc = "revert" => undo.p # 0)
    BY <1>1, <1>2, <1>4 DEF Proposed, Accepting
  <2>. QED BY <2>1, <2>2 DEF Alone
<1>12. Snapshots'
  <2>1. ASSUME NEW q \in Proposed, inbox'[q].applied # <<>>
        PROVE  inbox'[q].kind = "decision" => Single(inbox'[q].applied) /\ Whole(inbox'[q].applied[1])
    BY <1>1, <1>3, <1>6, <2>1 DEF Snapshots, Holds
  <2>2. undo.pc = "revert" => inbox'[undo.p].kind = inbox[undo.p].kind
    BY <1>1, <1>6 DEF Accepting
  <2>. QED BY <1>1, <1>2, <1>4, <1>7, <2>1, <2>2 DEF Snapshots, Holds
<1>13. WrittenIsAccepted'
  <2>1. accept.before # <<>>
    BY <1>3 DEF Single
  <2>2. \A q \in wrote : q \in Proposed
    BY <1>1 DEF Shapes
  <2>. QED BY <1>0, <1>1, <1>2, <1>6, <2>1, <2>2 DEF WrittenIsAccepted
<1>14. Latest'
  <2>1. latest.read = 0
    BY <1>1, <1>2 DEF Latest
  <2>2. ASSUME latest.p # 0, latest.p \notin crossed'
        PROVE  Recorded(latest.p)' = Recorded(latest.p)
    <3>1. latest.p \in Proposed
      BY <1>1, <1>2, <2>2 DEF Latest, Shapes
    <3>2. Recorded(latest.p)' = inbox'[latest.p].applied
      BY <1>2, <1>4, <2>2 DEF Recorded
    <3>3. CASE latest.p = p
      BY <1>0, <1>6, <3>2, <3>3 DEF Recorded
    <3>4. CASE latest.p # p
      BY <1>0, <1>6, <3>1, <3>2, <3>4 DEF Recorded
    <3>. QED BY <3>3, <3>4
  <2>. QED BY <1>1, <1>2, <1>8, <2>1, <2>2, LatestKept DEF case
<1>. QED BY <1>9, <1>10, <1>11, <1>12, <1>13, <1>14 DEF InboxInv, CaseInv

-----------------------------------------------------------------------------
(* Undoing *)

\* What an accepted proposal recorded is taken up: it is not the one being accepted, unless the Review page
\* settled it.
LEMMA UndoProposalKeeps ==
  ASSUME InboxInv, NEW p \in Proposed, undoProposal(p)
  PROVE  InboxInv'
<1>1. Shapes /\ Snapshots /\ Accepting /\ Alone /\ WrittenIsAccepted /\ Latest /\ LedgerInv
  BY DEF InboxInv, CaseInv
<1>2. /\ undo.pc = "off" /\ inbox[p].status = "accepted" /\ inbox[p].applied # <<>>
      /\ undo' = [NoTask EXCEPT !.pc = "revert", !.p = p, !.before = inbox[p].applied]
      /\ UNCHANGED <<fnd, review, summary, created, inbox, accept, page, ledger, logging, latest, wrote, crossed>>
  BY DEF undoProposal
<1>3. /\ DOMAIN undo' = TaskFields /\ undo'.pc = "revert" /\ undo'.p = p /\ undo'.before = inbox[p].applied
  BY <1>2 DEF NoTask, TaskFields
<1>4. LedgerInv' /\ OnlyGrows /\ Proposed' = Proposed
  BY <1>1, <1>2 DEF LedgerInv, IsSeq, verifyLedger, AppendFields, OnlyGrows, Fixed, Proposed
<1>5. Shapes' /\ Accepting' /\ Alone'
  BY <1>1, <1>2, <1>3, <1>4 DEF Shapes, Accepting, Alone
<1>6. Snapshots' /\ WrittenIsAccepted'
  BY <1>1, <1>2, <1>3, <1>4 DEF Snapshots, Holds, WrittenIsAccepted
<1>7. Latest'
  <2>1. Recorded(latest.p)' = Recorded(latest.p)
    BY <1>2 DEF Recorded
  <2>. QED BY <1>1, <1>2, <1>4, <2>1, LatestKept DEF case
<1>. QED BY <1>4, <1>5, <1>6, <1>7 DEF InboxInv, CaseInv

\* The undo ends: the proposal is marked.
LEMMA UndoSettleKeeps ==
  ASSUME InboxInv, UndoSettle
  PROVE  InboxInv'
<1>0. PICK p : p = undo.p
  OBVIOUS
<1>1. Shapes /\ Snapshots /\ Accepting /\ Alone /\ WrittenIsAccepted /\ Latest /\ LedgerInv
  BY DEF InboxInv, CaseInv
<1>2. /\ undo.pc = "settle" /\ undo' = NoTask /\ logging' = Log("undone", {p})
      /\ inbox' = [inbox EXCEPT ![p].undone = TRUE]
      /\ UNCHANGED <<fnd, review, summary, created, accept, page, ledger, latest, wrote, crossed>>
  BY <1>0 DEF UndoSettle
<1>3. /\ p \in Proposed /\ DOMAIN undo' = TaskFields /\ undo'.pc = "off"
  BY <1>0, <1>1, <1>2 DEF Accepting, NoTask, TaskFields
<1>4. IsSeq(inbox) /\ DOMAIN inbox = Proposed /\ DOMAIN inbox[p] = ProposalFields
  BY <1>1, <1>3 DEF Shapes, IsSeq, Proposed
<1>5. \A q \in Proposed :
        /\ DOMAIN inbox'[q] = ProposalFields /\ inbox'[q].status = inbox[q].status
        /\ inbox'[q].applied = inbox[q].applied /\ inbox'[q].kind = inbox[q].kind
        /\ inbox'[q].target = inbox[q].target /\ inbox'[q].d = inbox[q].d
  BY <1>1, <1>2, <1>3, <1>4 DEF Shapes, ProposalFields
<1>6. IsSeq(inbox') /\ Proposed' = Proposed
  <2>1. inbox' = [q \in 1 .. Len(inbox) |-> inbox'[q]] /\ Len(inbox) \in Nat
    BY <1>2, <1>4 DEF Proposed, IsSeq
  <2>. QED BY <2>1, FunctionIsSeq DEF Proposed
<1>7. OnlyGrows
  BY <1>5, <1>6 DEF OnlyGrows, Fixed
<1>8. LedgerInv'
  BY <1>1, <1>2, FS_Singleton, LoggedKeepsLedger
<1>9. Shapes' /\ Accepting'
  BY <1>1, <1>2, <1>3, <1>5, <1>6 DEF Shapes, Accepting
<1>10. Alone' /\ WrittenIsAccepted'
  BY <1>1, <1>2, <1>3, <1>5, <1>6 DEF Alone, Accepting, WrittenIsAccepted, Shapes
<1>11. Snapshots'
  BY <1>1, <1>2, <1>3, <1>5, <1>6 DEF Snapshots, Holds, Accepting
<1>12. Latest'
  <2>1. ASSUME latest.p # 0, latest.p \notin crossed'
        PROVE  Recorded(latest.p)' = Recorded(latest.p)
    <3>1. latest.p \in Proposed
      BY <1>1, <1>2, <2>1 DEF Latest, Shapes
    <3>. QED BY <1>2, <1>5, <3>1 DEF Recorded
  <2>. QED BY <1>1, <1>2, <1>7, <2>1, LatestKept DEF case
<1>. QED BY <1>8, <1>9, <1>10, <1>11, <1>12 DEF InboxInv, CaseInv

\* A decision taken back puts whole findings and a review in the place of what is there.
LEMMA EntryUndone ==
  ASSUME FindingsOf(fnd), ReviewsOf(review), NEW b, Whole(b), NEW d, undoEntry(b, d)
  PROVE  FindingsOf(fnd') /\ ReviewsOf(review')
<1>. DEFINE wrote1 == WroteNote(b, d)
<1>1. /\ fnd' = [f \in Fnd |-> IF f \notin DOMAIN b.findings THEN fnd[f] ELSE
                    [b.findings[f] EXCEPT !.note = IF wrote1 THEN @ ELSE fnd[f].note]]
      /\ review' = IF b.item \in Chain THEN [review EXCEPT ![b.item] = b.review] ELSE review
  BY DEF undoEntry
<1>. HIDE DEF wrote1
<1>2. ASSUME NEW f \in Fnd
      PROVE  fnd'[f] = [x \in FindingFields |-> fnd'[f][x]]
  <2>1. CASE f \notin DOMAIN b.findings
    BY <1>1, <2>1 DEF FindingsOf
  <2>2. CASE f \in DOMAIN b.findings
    <3>1. b.findings[f] = [x \in FindingFields |-> b.findings[f][x]]
      BY <2>2 DEF Whole
    <3>2. fnd'[f] = [b.findings[f] EXCEPT !.note = IF wrote1 THEN @ ELSE fnd[f].note]
      BY <1>1, <2>2
    <3>. QED BY <3>1, <3>2 DEF FindingFields
  <2>. QED BY <2>1, <2>2
<1>3. fnd' = [f \in Fnd |-> fnd'[f]]
  BY <1>1
<1>4. ReviewsOf(review')
  BY <1>1 DEF ReviewsOf
<1>. QED BY <1>2, <1>3, <1>4 DEF FindingsOf

\* What was written is taken back: nothing can be undone with what was read before.
LEMMA RevertKeeps ==
  ASSUME InboxInv, Revert
  PROVE  InboxInv'
<1>0. PICK p : p = undo.p
  OBVIOUS
<1>. DEFINE kind == inbox[p].kind
            d == inbox[p].d
<1>1. Shapes /\ Snapshots /\ Accepting /\ Alone /\ WrittenIsAccepted /\ Latest /\ LedgerInv
  BY DEF InboxInv, CaseInv
<1>2. /\ undo.pc = "revert" /\ undo' = [undo EXCEPT !.pc = "settle"] /\ latest' = Nothing
      /\ UNCHANGED <<inbox, accept, page, ledger, logging, wrote, crossed>>
      /\ \/ kind = "decision" /\ undoEntry(undo.before[1], d) /\ UNCHANGED <<summary, created>>
         \/ kind # "decision" /\ kind = "summary" /\ UNCHANGED <<fnd, review, created>>
         \/ /\ kind # "decision" /\ kind # "summary"
            /\ created' = created \ {p} /\ UNCHANGED <<fnd, review, summary>>
  BY <1>0 DEF Revert
<1>3. DOMAIN undo' = TaskFields /\ undo'.pc = "settle" /\ undo'.p = p /\ p \in Proposed
  BY <1>0, <1>1, <1>2 DEF Shapes, TaskFields, Accepting
<1>4. LedgerInv' /\ Proposed' = Proposed
  BY <1>1, <1>2 DEF LedgerInv, IsSeq, verifyLedger, AppendFields, Proposed
<1>5. FindingsOf(fnd)' /\ ReviewsOf(review)' /\ created' \subseteq wrote'
  <2>1. FindingsOf(fnd) /\ ReviewsOf(review) /\ created \subseteq wrote
    BY <1>1 DEF Shapes
  <2>2. CASE kind = "decision"
    <3>1. undoEntry(undo.before[1], d) /\ created' = created /\ Whole(undo.before[1])
      BY <1>0, <1>1, <1>2, <2>2 DEF Snapshots, Holds
    <3>2. FindingsOf(fnd') /\ ReviewsOf(review')
      BY <2>1, <3>1, EntryUndone
    <3>. QED BY <1>2, <2>1, <3>1, <3>2 DEF FindingsOf, ReviewsOf
  <2>3. CASE kind # "decision"
    BY <1>2, <2>1, <2>3 DEF FindingsOf, ReviewsOf
  <2>. QED BY <2>2, <2>3
<1>6. latest'.read = 0 /\ latest'.p = 0 /\ DOMAIN latest' = LatestFields
  BY <1>2 DEF LatestFields, Nothing
<1>7. Shapes' /\ Accepting' /\ Alone'
  BY <1>1, <1>2, <1>3, <1>4, <1>5, <1>6 DEF Shapes, Accepting, Alone
<1>8. Snapshots' /\ WrittenIsAccepted' /\ Latest'
  BY <1>1, <1>2, <1>3, <1>4, <1>6 DEF Snapshots, Holds, WrittenIsAccepted, Latest
<1>. QED BY <1>4, <1>7, <1>8 DEF InboxInv, CaseInv

-----------------------------------------------------------------------------
(* The Review page *)

\* What the page may be after a click: closed, or idle with the findings it shows.
PageRests ==
  /\ DOMAIN page' = PageFields /\ page'.p \in {0, page.p}
  /\ page'.pc = "closed" \/ (page'.pc = "idle" /\ FindingsOf(page'.fnd))

\* Either way a page that is shown or forgotten after a click rests.
LEMMA ShownRests ==
  ASSUME NEW q, page' = Shown(q), DOMAIN q = PageFields, q.p \in {0, page.p}, q.pc = "idle", FindingsOf(q.fnd)
  PROVE  PageRests
<1>1. page' = q \/ page' = Closed
  BY DEF Shown
<1>2. DOMAIN Closed = PageFields /\ Closed.p = 0 /\ Closed.pc = "closed"
  BY DEF Closed, PageFields
<1>. QED BY <1>1, <1>2 DEF PageRests

\* What the analyst writes on the Review page takes the place of the last write.
LEMMA AnalystWrites ==
  ASSUME InboxInv, FindingsOf(fnd'), ReviewsOf(review'), latest' = Nothing, PageRests,
         UNCHANGED <<summary, created, inbox, accept, undo, ledger, logging, wrote, crossed>>
  PROVE  InboxInv'
<1>1. Shapes /\ Snapshots /\ Accepting /\ Alone /\ WrittenIsAccepted /\ Latest /\ LedgerInv
  BY DEF InboxInv, CaseInv
<1>2. LedgerInv' /\ Proposed' = Proposed /\ 0 \notin Proposed
  BY <1>1 DEF LedgerInv, IsSeq, verifyLedger, AppendFields, Proposed
<1>3. latest'.read = 0 /\ latest'.p = 0 /\ DOMAIN latest' = LatestFields
  BY DEF LatestFields, Nothing
<1>4. FindingsOf(fnd)' /\ ReviewsOf(review)' /\ FindingsOf(page'.fnd) = FindingsOf(page.fnd)'
  BY DEF FindingsOf, ReviewsOf
<1>5. Shapes' /\ Accepting' /\ Alone'
  BY <1>1, <1>2, <1>3, <1>4 DEF Shapes, Accepting, Alone, PageRests
<1>6. Snapshots' /\ WrittenIsAccepted' /\ Latest'
  BY <1>1, <1>2, <1>3, <1>4 DEF Snapshots, Holds, WrittenIsAccepted, Latest, PageRests
<1>. QED BY <1>2, <1>5, <1>6 DEF InboxInv, CaseInv

\* The analyst gives an incident's findings a status.
LEMMA SetStatusKeeps ==
  ASSUME InboxInv, NEW item, NEW s, setStatus(item, s)
  PROVE  InboxInv'
<1>1. Shapes
  BY DEF InboxInv, CaseInv
<1>2. /\ page.pc = "idle" /\ latest' = Nothing /\ review' = review
      /\ fnd' = [f \in Fnd |-> IF f \in Members(item, page.fnd)
                                THEN [fnd[f] EXCEPT !.status = s, !.by = "analyst"] ELSE fnd[f]]
      /\ UNCHANGED <<summary, created, inbox, accept, undo, ledger, logging, wrote, crossed>>
      /\ page' = Shown([page EXCEPT !.fnd = fnd', !.seen = Suggested])
  BY DEF setStatus, SetOn, Unlogged
<1>3. FindingsOf(fnd') /\ ReviewsOf(review')
  <2>1. ASSUME NEW f \in Fnd
        PROVE  fnd'[f] = [x \in FindingFields |-> fnd'[f][x]]
    BY <1>1, <1>2 DEF Shapes, FindingsOf, FindingFields
  <2>2. fnd' = [f \in Fnd |-> fnd'[f]]
    BY <1>2
  <2>. QED BY <1>1, <1>2, <2>1, <2>2 DEF FindingsOf, Shapes
<1>4. PageRests
  BY <1>1, <1>2, <1>3, ShownRests DEF Shapes, PageFields
<1>. QED BY <1>2, <1>3, <1>4, AnalystWrites

\* The analyst's verdict on a chain.
LEMMA ChainPatchKeeps ==
  ASSUME InboxInv, NEW c, NEW verdict, chainPatch(c, verdict)
  PROVE  InboxInv'
<1>. DEFINE status == verdictStatus(verdict)
<1>1. Shapes
  BY DEF InboxInv, CaseInv
<1>2. /\ page.pc = "idle" /\ latest' = Nothing
      /\ fnd' = [f \in Fnd |-> IF f \in Members(c, page.fnd)
                                THEN [fnd[f] EXCEPT !.status = status, !.by = "analyst"] ELSE fnd[f]]
      /\ review' = [review EXCEPT ![c].verdict = verdict, ![c].by = "analyst"]
      /\ UNCHANGED <<summary, created, inbox, accept, undo, ledger, logging, wrote, crossed>>
      /\ page' = Shown([page EXCEPT !.fnd = fnd', !.review = review', !.seen = Suggested])
  BY DEF chainPatch, applyChainVerdict, SetOn, Unlogged
<1>. HIDE DEF status
<1>3. FindingsOf(fnd')
  <2>1. ASSUME NEW f \in Fnd
        PROVE  fnd'[f] = [x \in FindingFields |-> fnd'[f][x]]
    BY <1>1, <1>2 DEF Shapes, FindingsOf, FindingFields
  <2>2. fnd' = [f \in Fnd |-> fnd'[f]]
    BY <1>2
  <2>. QED BY <2>1, <2>2 DEF FindingsOf
<1>4. ReviewsOf(review')
  BY <1>1, <1>2 DEF ReviewsOf, Shapes
<1>5. PageRests
  BY <1>1, <1>2, <1>3, ShownRests DEF Shapes, PageFields
<1>. QED BY <1>2, <1>3, <1>4, <1>5, AnalystWrites

\* The analyst unlinks a finding from its chain, or links it again.
LEMMA SetChainUnlinkedKeeps ==
  ASSUME InboxInv, NEW g, NEW on, setChainUnlinked(g, on)
  PROVE  InboxInv'
<1>1. Shapes
  BY DEF InboxInv, CaseInv
<1>2. /\ page.pc = "idle" /\ latest' = Nothing /\ review' = review /\ fnd' = [fnd EXCEPT ![g].unlinked = on]
      /\ UNCHANGED <<summary, created, inbox, accept, undo, ledger, logging, wrote, crossed>>
      /\ page' = Shown([page EXCEPT !.fnd = fnd', !.seen = Suggested])
  BY DEF setChainUnlinked, Unlogged
<1>3. FindingsOf(fnd') /\ ReviewsOf(review')
  <2>1. ASSUME NEW f \in Fnd
        PROVE  fnd'[f] = [x \in FindingFields |-> fnd'[f][x]]
    BY <1>1, <1>2 DEF Shapes, FindingsOf, FindingFields
  <2>2. fnd' = [f \in Fnd |-> fnd'[f]]
    BY <1>1, <1>2 DEF Shapes, FindingsOf
  <2>. QED BY <1>1, <1>2, <2>1, <2>2 DEF FindingsOf, Shapes
<1>4. PageRests
  BY <1>1, <1>2, <1>3, ShownRests DEF Shapes, PageFields
<1>. QED BY <1>2, <1>3, <1>4, AnalystWrites

\* A step of the page alone.
LEMMA PageOnly ==
  ASSUME InboxInv, UNCHANGED <<fnd, review, summary, created, inbox, accept, undo, ledger, logging, latest, wrote,
                               crossed>>,
         DOMAIN page' = PageFields, page'.p \in {0, page.p},
         page'.pc # "closed" => FindingsOf(page'.fnd),
         page'.pc \in {"list", "settle"} => Single(page'.before) /\ Whole(page'.before[1])
  PROVE  InboxInv'
<1>1. Shapes /\ Snapshots /\ Accepting /\ Alone /\ WrittenIsAccepted /\ Latest /\ LedgerInv
  BY DEF InboxInv, CaseInv
<1>2. LedgerInv' /\ OnlyGrows /\ Proposed' = Proposed /\ 0 \notin Proposed
  BY <1>1 DEF LedgerInv, IsSeq, verifyLedger, AppendFields, OnlyGrows, Fixed, Proposed
<1>3. FindingsOf(page'.fnd) = FindingsOf(page.fnd)' /\ Whole(page'.before[1]) = Whole(page.before[1])'
      /\ Single(page'.before) = Single(page.before)'
  BY DEF FindingsOf, Whole, Single
<1>4. Shapes' /\ Accepting' /\ Alone'
  BY <1>1, <1>2 DEF Shapes, Accepting, Alone
<1>5. Snapshots' /\ WrittenIsAccepted'
  BY <1>1, <1>2, <1>3 DEF Snapshots, Holds, WrittenIsAccepted
<1>6. Latest'
  <2>1. Recorded(latest.p)' = Recorded(latest.p)
    BY DEF Recorded
  <2>. QED BY <1>1, <1>2, <2>1, LatestKept DEF case
<1>. QED BY <1>2, <1>4, <1>5, <1>6 DEF InboxInv, CaseInv

\* The page is opened.
LEMMA OpenPageKeeps ==
  ASSUME InboxInv, OpenPage
  PROVE  InboxInv'
<1>1. Shapes
  BY DEF InboxInv, CaseInv
<1>2. /\ page' = [Closed EXCEPT !.pc = "idle", !.fnd = fnd, !.review = review, !.seen = Suggested]
      /\ UNCHANGED <<fnd, review, summary, created, inbox, accept, undo, ledger, logging, latest, wrote, crossed>>
  BY DEF OpenPage, Unlogged
<1>3. DOMAIN page' = PageFields /\ page'.p = 0 /\ page'.pc = "idle" /\ page'.fnd = fnd
  BY <1>2 DEF Closed, PageFields
<1>4. FindingsOf(page'.fnd)
  BY <1>1, <1>3 DEF Shapes
<1>. QED BY <1>2, <1>3, <1>4, PageOnly

\* The page lists the pending proposals on the suggestion's target.
LEMMA ListPendingKeeps ==
  ASSUME InboxInv, ListPending
  PROVE  InboxInv'
<1>1. Shapes /\ Snapshots
  BY DEF InboxInv, CaseInv
<1>. DEFINE among == {i \in Suggested : inbox[i].target = inbox[page.p].target}
<1>2. /\ page.pc = "list" /\ page' = [page EXCEPT !.pc = "settle", !.pending = among]
      /\ UNCHANGED <<fnd, review, summary, created, inbox, accept, undo, ledger, logging, latest, wrote, crossed>>
  BY DEF ListPending, Unlogged
<1>. HIDE DEF among
<1>3. /\ DOMAIN page' = PageFields /\ page'.p = page.p /\ page'.pc = "settle" /\ page'.fnd = page.fnd
      /\ page'.before = page.before
  BY <1>1, <1>2 DEF Shapes, PageFields
<1>4. FindingsOf(page'.fnd) /\ Single(page'.before) /\ Whole(page'.before[1])
  BY <1>1, <1>2, <1>3 DEF Snapshots
<1>. QED BY <1>2, <1>3, <1>4, PageOnly

\* A suggestion is applied to what the page shows: the acceptance of the same proposal is crossed.
LEMMA ApplySuggestionKeeps ==
  ASSUME InboxInv, NEW p \in Proposed, applySuggestion(p)
  PROVE  InboxInv'
<1>0. PICK b : b = Before(CHOOSE x \in Found(inbox[p].target, page.fnd) : TRUE, page.fnd, page.review)
  OBVIOUS
<1>1. Shapes /\ Snapshots /\ Accepting /\ Alone /\ WrittenIsAccepted /\ Latest /\ LedgerInv
  BY DEF InboxInv, CaseInv
<1>2. /\ page.pc = "idle" /\ applyDecision(b, inbox[p].d)
      /\ page' = [page EXCEPT !.pc = "list", !.p = p, !.before = <<b>>]
      /\ latest' = Nothing /\ crossed' = crossed \cup ({p} \cap {accept.p})
      /\ UNCHANGED <<summary, created, inbox, accept, undo, ledger, logging, wrote>>
  BY <1>0 DEF applySuggestion
<1>3. /\ DOMAIN page' = PageFields /\ page'.pc = "list" /\ page'.p = p /\ page'.before = <<b>>
      /\ page'.fnd = page.fnd
  BY <1>1, <1>2 DEF Shapes, PageFields
<1>4. Whole(b) /\ FindingsOf(page.fnd)
  <2>1. FindingsOf(page.fnd)
    BY <1>1, <1>2 DEF Snapshots
  <2>. QED BY <1>0, <2>1, BeforeIsWhole
<1>5. FindingsOf(fnd') /\ ReviewsOf(review')
  BY <1>1, <1>2, DecisionWrites DEF Shapes
<1>6. LedgerInv' /\ Proposed' = Proposed /\ crossed \subseteq crossed' /\ (accept.p = p => p \in crossed')
  BY <1>1, <1>2 DEF LedgerInv, IsSeq, verifyLedger, AppendFields, Proposed
<1>7. latest'.read = 0 /\ latest'.p = 0 /\ DOMAIN latest' = LatestFields
  BY <1>2 DEF LatestFields, Nothing
<1>8. FindingsOf(fnd)' /\ ReviewsOf(review)'
  BY <1>5 DEF FindingsOf, ReviewsOf
<1>9. Shapes' /\ Accepting' /\ Alone'
  BY <1>1, <1>2, <1>3, <1>6, <1>7, <1>8 DEF Shapes, Accepting, Alone
<1>10. Snapshots'
  <2>1. Single(<<b>>) /\ <<b>>[1] = b
    BY DEF Single
  <2>. QED BY <1>1, <1>2, <1>3, <1>4, <1>6, <2>1 DEF Snapshots, Holds
<1>11. WrittenIsAccepted' /\ Latest'
  BY <1>1, <1>2, <1>6, <1>7 DEF WrittenIsAccepted, Latest
<1>. QED BY <1>6, <1>9, <1>10, <1>11 DEF InboxInv, CaseInv

\* The proposals listed are settled: one that was settled meanwhile is crossed.
LEMMA SettleSuggestionKeeps ==
  ASSUME InboxInv, SettleSuggestion
  PROVE  InboxInv'
<1>. DEFINE seen == {i \in Suggested : inbox'[i].status = "pending"}
            shown == [Closed EXCEPT !.pc = "idle", !.fnd = fnd, !.review = review, !.seen = seen]
<1>1. Shapes /\ Snapshots /\ Accepting /\ Alone /\ WrittenIsAccepted /\ Latest /\ LedgerInv
  BY DEF InboxInv, CaseInv
<1>2. /\ page.pc = "settle" /\ page' = Shown(shown)
      /\ logging' = logging \/ logging' = Log("accepted", {page.p})
      /\ crossed' = crossed \cup (page.pending \ Pending)
      /\ UNCHANGED <<fnd, review, summary, created, accept, undo, ledger, latest, wrote>>
  BY DEF SettleSuggestion
<1>0. inbox' = [i \in 1 .. Len(inbox) |-> IF i \notin page.pending THEN inbox[i]
                    ELSE IF i = page.p THEN [inbox[i] EXCEPT !.status = "accepted", !.applied = page.before]
                    ELSE [inbox[i] EXCEPT !.status = "superseded"]]
  BY DEF SettleSuggestion
<1>. HIDE DEF seen
<1>3. PageRests
  <2>1. DOMAIN shown = PageFields /\ shown.p = 0 /\ shown.pc = "idle" /\ shown.fnd = fnd
    BY DEF Closed, PageFields
  <2>. HIDE DEF shown
  <2>. QED BY <1>1, <1>2, <2>1, ShownRests DEF Shapes
<1>. HIDE DEF shown
<1>4. /\ IsSeq(inbox) /\ Len(inbox) \in Nat /\ \A q \in Proposed : DOMAIN inbox[q] = ProposalFields
      /\ Single(page.before) /\ Whole(page.before[1]) /\ Proposed = 1 .. Len(inbox)
  BY <1>1, <1>2 DEF Shapes, Snapshots, IsSeq, Proposed
<1>5. \A q \in Proposed :
        /\ DOMAIN inbox'[q] = ProposalFields /\ inbox'[q].kind = inbox[q].kind
        /\ inbox'[q].target = inbox[q].target /\ inbox'[q].d = inbox[q].d
        /\ q \notin page.pending => inbox'[q] = inbox[q]
        /\ inbox'[q].applied = inbox[q].applied \/ inbox'[q].applied = page.before
        /\ q # page.p /\ q \in page.pending => inbox'[q].status = "superseded"
  BY <1>0, <1>4 DEF ProposalFields
<1>6. IsSeq(inbox') /\ Proposed' = Proposed
  <2>1. inbox' = [q \in 1 .. Len(inbox) |-> inbox'[q]]
    BY <1>0
  <2>. QED BY <1>4, <2>1, FunctionIsSeq DEF Proposed
<1>7. OnlyGrows
  BY <1>5, <1>6 DEF OnlyGrows, Fixed
<1>8. LedgerInv'
  BY <1>1, <1>2, FS_Singleton, LoggedKeepsLedger
<1>9. \A q \in Proposed \ crossed' : inbox[q].status = "accepted" => inbox'[q] = inbox[q]
  BY <1>2, <1>5 DEF Pending
<1>10. crossed \subseteq crossed' /\ 0 \notin Proposed
  BY <1>2 DEF Proposed
<1>11. Shapes' /\ Accepting'
  BY <1>1, <1>2, <1>3, <1>5, <1>6 DEF Shapes, Accepting, PageRests
<1>12. Alone'
  <2>1. ASSUME accept.p \in Proposed, accept.p \notin crossed'
        PROVE  inbox'[accept.p].status # "accepted" /\ page'.p # accept.p
    BY <1>1, <1>3, <1>5, <1>10, <2>1 DEF Alone, PageRests
  <2>2. ASSUME undo.pc = "revert", undo.p \notin crossed'
        PROVE  /\ accept.p # undo.p /\ inbox'[undo.p].status = "accepted"
               /\ undo.before = inbox'[undo.p].applied
    BY <1>1, <1>9, <1>10, <2>2 DEF Alone, Accepting
  <2>. QED BY <1>2, <1>6, <2>1, <2>2 DEF Alone
<1>13. Snapshots'
  <2>1. ASSUME NEW q \in Proposed, inbox'[q].applied # <<>>
        PROVE  inbox'[q].kind = "decision" => Single(inbox'[q].applied) /\ Whole(inbox'[q].applied[1])
    BY <1>1, <1>4, <1>5, <2>1 DEF Snapshots, Holds
  <2>2. undo.pc = "revert" => inbox'[undo.p].kind = inbox[undo.p].kind
    BY <1>1, <1>5 DEF Accepting
  <2>3. accept.pc \in {"write", "settle"} => inbox'[accept.p].kind = inbox[accept.p].kind
    BY <1>1, <1>5 DEF Accepting
  <2>4. page'.pc # "closed" => FindingsOf(page.fnd)'
    BY <1>3 DEF PageRests, FindingsOf
  <2>5. page'.pc \notin {"list", "settle"}
    BY <1>3 DEF PageRests
  <2>. QED BY <1>1, <1>2, <1>6, <2>1, <2>2, <2>3, <2>4, <2>5 DEF Snapshots, Holds
<1>14. WrittenIsAccepted'
  <2>1. \A q \in wrote : q \in Proposed
    BY <1>1 DEF Shapes
  <2>. QED BY <1>1, <1>2, <1>9, <1>10, <2>1 DEF WrittenIsAccepted
<1>15. Latest'
  <2>1. ASSUME latest.p # 0, latest.p \notin crossed'
        PROVE  Recorded(latest.p)' = Recorded(latest.p)
    <3>1. latest.p \in Proposed /\ latest.p \in wrote /\ latest.p \notin crossed
      BY <1>1, <1>10, <2>1 DEF Latest, Shapes
    <3>2. CASE accept.p = latest.p
      BY <1>2, <3>2 DEF Recorded
    <3>3. CASE accept.p # latest.p
      <4>1. inbox'[latest.p] = inbox[latest.p]
        BY <1>1, <1>9, <2>1, <3>1, <3>3 DEF WrittenIsAccepted
      <4>. QED BY <1>2, <3>3, <4>1 DEF Recorded
    <3>. QED BY <3>2, <3>3
  <2>. QED BY <1>1, <1>2, <1>7, <1>10, <2>1, LatestKept DEF case
<1>. QED BY <1>8, <1>11, <1>12, <1>13, <1>14, <1>15 DEF InboxInv, CaseInv

-----------------------------------------------------------------------------
(* The invariant *)

\* The ledger's steps leave the case and the proposals alone.
LEMMA LedgerOnly ==
  ASSUME InboxInv, ReadLast \/ AddEntry
  PROVE  InboxInv'
<1>1. Shapes /\ Snapshots /\ Accepting /\ Alone /\ WrittenIsAccepted /\ Latest /\ LedgerInv
  BY DEF InboxInv, CaseInv
<1>2. UNCHANGED <<fnd, review, summary, created, inbox, accept, undo, page, latest, wrote, crossed>>
  BY DEF ReadLast, AddEntry
<1>3. LedgerInv'
  BY <1>1, ReadLastKeepsLedger, AddEntryKeepsLedger
<1>4. OnlyGrows /\ Proposed' = Proposed
  BY <1>2 DEF OnlyGrows, Fixed, Proposed
<1>5. Shapes' /\ Snapshots' /\ Accepting' /\ Alone' /\ WrittenIsAccepted'
  BY <1>1, <1>2, <1>4 DEF Shapes, Snapshots, Holds, Accepting, Alone, WrittenIsAccepted
<1>6. Latest'
  <2>1. Recorded(latest.p)' = Recorded(latest.p)
    BY <1>2 DEF Recorded
  <2>. QED BY <1>1, <1>2, <1>4, <2>1, LatestKept DEF case
<1>. QED BY <1>3, <1>5, <1>6 DEF InboxInv, CaseInv

\* Nothing is proposed, written or recorded in a new case.
LEMMA InboxStarts ==
  ASSUME InboxInit
  PROVE  InboxInv
<1>1. /\ fnd = [f \in Fnd |-> NewFinding] /\ review = [c \in Chain |-> NoReview] /\ created = {}
      /\ inbox = <<>> /\ accept = NoTask /\ undo = NoTask /\ page = Closed
      /\ ledger = <<>> /\ logging = <<>> /\ latest = Nothing /\ wrote = {} /\ crossed = {}
  BY DEF InboxInit
<1>2. Len(inbox) = 0 /\ Len(ledger) = 0 /\ Len(logging) = 0 /\ Proposed = {}
  BY <1>1 DEF Proposed
<1>3. IsSeq(inbox) /\ IsSeq(ledger) /\ IsSeq(logging)
  <2>1. << >> \in Seq({})
    OBVIOUS
  <2>. QED BY <1>1, <2>1, IsOne
<1>4. /\ DOMAIN accept = TaskFields /\ accept.pc = "off" /\ accept.p = 0 /\ accept.todo = {}
      /\ DOMAIN undo = TaskFields /\ undo.pc = "off"
      /\ DOMAIN page = PageFields /\ page.pc = "closed"
      /\ DOMAIN latest = LatestFields /\ latest.p = 0 /\ latest.read = 0
  BY <1>1 DEF NoTask, Closed, Nothing, TaskFields, PageFields, LatestFields
<1>5. FindingsOf(fnd) /\ ReviewsOf(review)
  BY <1>1 DEF FindingsOf, ReviewsOf, NewFinding, FindingFields
<1>6. LedgerInv
  BY <1>2, <1>3 DEF LedgerInv, verifyLedger
<1>7. Shapes /\ Snapshots /\ Accepting /\ Alone
  BY <1>1, <1>2, <1>3, <1>4, <1>5 DEF Shapes, Snapshots, Accepting, Alone
<1>8. WrittenIsAccepted /\ Latest
  BY <1>1, <1>4 DEF WrittenIsAccepted, Latest
<1>. QED BY <1>6, <1>7, <1>8 DEF InboxInv, CaseInv

\* Every step keeps the invariant.
LEMMA InboxStep ==
  ASSUME InboxInv, [InboxNext]_inboxVars
  PROVE  InboxInv'
<1>1. CASE UNCHANGED inboxVars
  <2>1. UNCHANGED <<fnd, review, summary, created, inbox, accept, undo, page, ledger, logging, latest, wrote, crossed>>
    BY <1>1 DEF inboxVars
  <2>2. Shapes /\ Snapshots /\ Accepting /\ Alone /\ WrittenIsAccepted /\ Latest /\ LedgerInv
    BY DEF InboxInv, CaseInv
  <2>3. OnlyGrows /\ Proposed' = Proposed
    BY <2>1 DEF OnlyGrows, Fixed, Proposed
  <2>4. Shapes' /\ Snapshots' /\ Accepting' /\ Alone' /\ WrittenIsAccepted' /\ LedgerInv'
    BY <2>1, <2>2, <2>3 DEF Shapes, Snapshots, Holds, Accepting, Alone, WrittenIsAccepted, LedgerInv, IsSeq,
                            verifyLedger, AppendFields
  <2>5. Latest'
    <3>1. Recorded(latest.p)' = Recorded(latest.p)
      BY <2>1 DEF Recorded
    <3>. QED BY <2>1, <2>2, <2>3, <3>1, LatestKept DEF case
  <2>. QED BY <2>4, <2>5 DEF InboxInv, CaseInv
<1>2. Pending \subseteq Proposed /\ Clean \subseteq Proposed
  BY DEF Pending, Clean, Proposed
<1>3. CASE \E o \in Offers : propose(o)
  BY <1>3, ProposeKeeps
<1>4. CASE acceptProposals(Clean)
  BY <1>2, <1>4, AcceptProposalsKeeps
<1>5. CASE \E p \in Pending : acceptProposals({p}) \/ rejectProposals({p})
  <2>1. PICK p \in Pending : acceptProposals({p}) \/ rejectProposals({p})
    BY <1>5
  <2>2. {p} \in SUBSET Proposed
    BY <1>2
  <2>. QED BY <2>1, <2>2, AcceptProposalsKeeps, RejectKeeps
<1>6. CASE rejectProposals(Pending)
  BY <1>6, RejectKeeps
<1>7. CASE AcceptCheck \/ applyOne \/ AcceptSettle
  BY <1>7, AcceptCheckKeeps, ApplyOneKeeps, AcceptSettleKeeps
<1>8. CASE \E p \in 1 .. Len(inbox) : undoProposal(p) \/ applySuggestion(p)
  BY <1>8, UndoProposalKeeps, ApplySuggestionKeeps DEF Proposed
<1>9. CASE Revert \/ UndoSettle
  BY <1>9, RevertKeeps, UndoSettleKeeps
<1>10. CASE OpenPage \/ ListPending \/ SettleSuggestion
  BY <1>10, OpenPageKeeps, ListPendingKeeps, SettleSuggestionKeeps
<1>11. CASE \E item \in Entity, s \in {"escalated"} : setStatus(item, s)
  BY <1>11, SetStatusKeeps
<1>12. CASE \E c \in Chain, v \in {"confirmed"} : chainPatch(c, v)
  BY <1>12, ChainPatchKeeps
<1>13. CASE \E f \in Fnd, on \in BOOLEAN : setChainUnlinked(f, on)
  BY <1>13, SetChainUnlinkedKeeps
<1>14. CASE ReadLast \/ AddEntry
  BY <1>14, LedgerOnly
<1>. QED BY <1>1, <1>3, <1>4, <1>5, <1>6, <1>7, <1>8, <1>9, <1>10, <1>11, <1>12, <1>13, <1>14 DEF InboxNext

\* The inductive invariant of the inbox holds: what a proposal recorded stays what undoes it.
THEOREM InboxInvariant == InboxSpec => []InboxInv
<1>. QED BY InboxStarts, InboxStep, PTL DEF InboxSpec

-----------------------------------------------------------------------------
(* The properties *)

\* Whatever appends are under way, the ledger of a case nobody touched verifies: its entries are numbered
\* without a gap, and each one links to the one before it (ai/ledger.ts).
THEOREM LedgerVerifies == InboxSpec => []LedgerIntact
<1>1. InboxInv => LedgerIntact
  BY DEF InboxInv, LedgerInv, LedgerIntact
<1>. QED BY <1>1, InboxInvariant, PTL

\* A proposal written from the inbox ends accepted, with what undoes it, whatever is rejected, superseded or
\* proposed meanwhile, unless the Review page settled it (ai/inbox.ts).
THEOREM WrittenProposalsAreAccepted == InboxSpec => []WrittenIsAccepted
<1>1. InboxInv => WrittenIsAccepted
  BY DEF InboxInv, CaseInv
<1>. QED BY <1>1, InboxInvariant, PTL

\* Taking back the last write makes the case the one it was read in.
LEMMA RevertRestores ==
  ASSUME InboxInv, Revert, latest.p = undo.p, undo.p \notin crossed
  PROVE  case' = latest.case[1]
<1>0. PICK p, b, c : p = undo.p /\ b = undo.before[1] /\ c = latest.case[1]
  OBVIOUS
<1>1. Accepting /\ Alone /\ Latest /\ FindingsOf(fnd) /\ ReviewsOf(review)
  BY DEF InboxInv, CaseInv, Shapes
<1>2. undo.pc = "revert" /\ p \in Proposed /\ p # 0 /\ p = latest.p /\ p \notin crossed
  BY <1>0, <1>1 DEF Revert, Accepting, Proposed
<1>3. Recorded(p) = undo.before
  BY <1>0, <1>1, <1>2 DEF Alone, Recorded
<1>4. /\ Undoable(p, b, c) /\ c = <<c[1], c[2], c[3], c[4]>> /\ FindingsOf(c[1]) /\ ReviewsOf(c[2])
  BY <1>0, <1>1, <1>2, <1>3 DEF Latest
<1>5. CASE inbox[p].kind = "decision"
  <2>. DEFINE noted == WroteNote(b, inbox[p].d)
  <2>1. undoEntry(b, inbox[p].d) /\ UNCHANGED <<summary, created>>
    BY <1>0, <1>5 DEF Revert
  <2>2. /\ fnd' = [f \in Fnd |-> IF f \notin DOMAIN b.findings THEN fnd[f] ELSE
                       [b.findings[f] EXCEPT !.note = IF noted THEN @ ELSE fnd[f].note]]
        /\ review' = IF b.item \in Chain THEN [review EXCEPT ![b.item] = b.review] ELSE review
    BY <2>1 DEF undoEntry
  <2>3. /\ \A f \in Fnd : IF f \in DOMAIN b.findings
                          THEN b.findings[f] = c[1][f] /\ (noted \/ fnd[f].note = c[1][f].note)
                          ELSE fnd[f] = c[1][f]
        /\ \A x \in Chain : IF x = b.item THEN b.review = c[2][x] ELSE review[x] = c[2][x]
        /\ summary = c[3] /\ created = c[4]
    BY <1>4, <1>5 DEF Undoable
  <2>. HIDE DEF noted
  <2>4. ASSUME NEW f \in Fnd
        PROVE  fnd'[f] = c[1][f]
    <3>1. CASE f \notin DOMAIN b.findings
      BY <2>2, <2>3, <3>1
    <3>2. CASE f \in DOMAIN b.findings
      <4>1. fnd'[f] = [b.findings[f] EXCEPT !.note = IF noted THEN @ ELSE fnd[f].note]
        BY <2>2, <3>2
      <4>2. b.findings[f] = [x \in FindingFields |-> b.findings[f][x]] /\ b.findings[f] = c[1][f]
        BY <1>4, <2>3, <3>2 DEF FindingsOf
      <4>3. noted \/ fnd[f].note = b.findings[f].note
        BY <2>3, <3>2
      <4>. QED BY <4>1, <4>2, <4>3 DEF FindingFields
    <3>. QED BY <3>1, <3>2
  <2>5. fnd' = c[1]
    <3>1. fnd' = [f \in Fnd |-> fnd'[f]] /\ c[1] = [f \in Fnd |-> c[1][f]]
      BY <1>4, <2>2 DEF FindingsOf
    <3>. QED BY <2>4, <3>1
  <2>6. review' = c[2]
    <3>1. review = [x \in Chain |-> review[x]] /\ c[2] = [x \in Chain |-> c[2][x]]
      BY <1>1, <1>4 DEF ReviewsOf
    <3>. QED BY <2>2, <2>3, <3>1
  <2>. QED BY <1>0, <1>4, <2>1, <2>3, <2>5, <2>6 DEF case
<1>6. CASE inbox[p].kind # "decision" /\ inbox[p].kind = "summary"
  <2>1. summary' = b /\ UNCHANGED <<fnd, review, created>>
    BY <1>0, <1>6 DEF Revert
  <2>. QED BY <1>0, <1>4, <1>6, <2>1 DEF Undoable, case
<1>7. CASE inbox[p].kind # "decision" /\ inbox[p].kind # "summary"
  <2>1. created' = created \ {p} /\ UNCHANGED <<fnd, review, summary>>
    BY <1>0, <1>7 DEF Revert
  <2>. QED BY <1>0, <1>4, <1>7, <2>1 DEF Undoable, case
<1>. QED BY <1>5, <1>6, <1>7

\* Undoing a proposal accepted in the inbox, when nothing was written to the case since, puts back its findings,
\* chain reviews, summary, notes and rules: all of the case the acceptance had read.
THEOREM UndoPutsBack == InboxSpec => UndoRestores
<1>1. InboxInv => [(Revert /\ latest.p = undo.p /\ undo.p \notin crossed) => case' = latest.case[1]]_inboxVars
  BY RevertRestores
<1>. QED BY <1>1, InboxInvariant, PTL DEF UndoRestores

-----------------------------------------------------------------------------
(* Sets in an order *)

OrderedBy(S, before) ==
  /\ \A x \in S : <<x, x>> \notin before
  /\ \A x, y \in S : x # y => <<x, y>> \in before \/ <<y, x>> \in before
  /\ \A x, y, z \in S : <<x, y>> \in before /\ <<y, z>> \in before => <<x, z>> \in before

\* A set of numbers that is not empty has a least one.
LEMMA LeastNumber ==
  ASSUME NEW N \in SUBSET Nat, N # {}
  PROVE  \E n \in N : \A m \in N : n <= m
<1>. DEFINE R == {p \in Nat \X Nat : p[1] < p[2]}
<1>1. IsWellFoundedOn(R, Nat)
  BY NatLessThanWellFounded DEF OpToRel
<1>2. \A m, n \in Nat : m < n => <<m, n>> \in R
  OBVIOUS
<1>. HIDE DEF R
<1>3. PICK n \in N : \A m \in N : <<m, n>> \notin R
  BY <1>1, WFMin, Zenon
<1>4. \A m \in N : m \in Nat /\ n \in Nat /\ ~(m < n)
  BY <1>2, <1>3
<1>5. \A m \in N : n <= m
  BY <1>4, SMT
<1>. QED BY <1>5

\* A finite set in a strict order has a first element.
LEMMA FirstExists ==
  ASSUME NEW S, IsFiniteSet(S), S # {}, NEW before, OrderedBy(S, before)
  PROVE  \E x \in S : \A y \in S \ {x} : <<x, y>> \in before
<1>. DEFINE ahead(x) == {y \in S : <<y, x>> \in before}
            places == {Cardinality(ahead(x)) : x \in S}
<1>1. \A x \in S : IsFiniteSet(ahead(x)) /\ Cardinality(ahead(x)) \in Nat
  <2>. SUFFICES ASSUME NEW x \in S PROVE IsFiniteSet(ahead(x)) /\ Cardinality(ahead(x)) \in Nat
    OBVIOUS
  <2>1. ahead(x) \in SUBSET S
    OBVIOUS
  <2>. HIDE DEF ahead
  <2>2. IsFiniteSet(ahead(x))
    BY <2>1, FS_Subset
  <2>. QED BY <2>2, FS_CardinalityType
<1>2. places \in SUBSET Nat /\ places # {}
  BY <1>1
<1>3. PICK n \in places : \A m \in places : n <= m
  BY <1>2, LeastNumber
<1>4. PICK x \in S : n = Cardinality(ahead(x))
  BY <1>3
<1>5. ASSUME NEW y \in S \ {x} PROVE <<x, y>> \in before
  <2>. SUFFICES ASSUME <<y, x>> \in before PROVE FALSE
    BY DEF OrderedBy
  <2>1. ahead(y) \subseteq ahead(x) /\ y \in ahead(x) /\ y \notin ahead(y)
    BY DEF OrderedBy
  <2>2. n <= Cardinality(ahead(y))
    BY <1>3
  <2>. HIDE DEF ahead, places
  <2>3. Cardinality(ahead(y)) <= Cardinality(ahead(x))
      /\ (Cardinality(ahead(x)) = Cardinality(ahead(y)) => ahead(x) = ahead(y))
    BY <2>1, <1>1, FS_Subset
  <2>. QED BY <1>1, <1>4, <2>1, <2>2, <2>3
<1>. QED BY <1>5

\* Finitely many integers have a least one ...
LEMMA LeastInteger ==
  ASSUME NEW S \in SUBSET Int, IsFiniteSet(S), S # {}
  PROVE  Min(S) \in S /\ \A x \in S : Min(S) <= x
<1>. DEFINE up == {p \in S \X S : p[1] < p[2]}
<1>1. OrderedBy(S, up)
  BY DEF OrderedBy
<1>2. \A x, y \in S : <<x, y>> \in up => x <= y
  OBVIOUS
<1>. HIDE DEF up
<1>3. PICK least \in S : \A y \in S \ {least} : <<least, y>> \in up
  BY <1>1, FirstExists
<1>4. ASSUME NEW y \in S PROVE least <= y
  <2>1. CASE y = least
    BY <2>1
  <2>2. CASE y # least
    BY <2>2, <1>2, <1>3
  <2>. QED BY <2>1, <2>2
<1>. QED BY <1>4 DEF Min

\* ... and a greatest one.
LEMMA GreatestInteger ==
  ASSUME NEW S \in SUBSET Int, IsFiniteSet(S), S # {}
  PROVE  Max(S) \in S /\ \A x \in S : x <= Max(S)
<1>. DEFINE down == {p \in S \X S : p[1] > p[2]}
<1>1. OrderedBy(S, down)
  BY DEF OrderedBy
<1>2. \A x, y \in S : <<x, y>> \in down => x >= y
  OBVIOUS
<1>. HIDE DEF down
<1>3. PICK most \in S : \A y \in S \ {most} : <<most, y>> \in down
  BY <1>1, FirstExists
<1>4. ASSUME NEW y \in S PROVE most >= y
  <2>1. CASE y = most
    BY <2>1
  <2>2. CASE y # most
    BY <2>2, <1>2, <1>3
  <2>. QED BY <2>1, <2>2
<1>. QED BY <1>4 DEF Max

\* The image of a finite set is finite.
LEMMA ImageFinite ==
  ASSUME NEW S, IsFiniteSet(S), NEW f, DOMAIN f = S
  PROVE  IsFiniteSet({f[x] : x \in S})
<1>. DEFINE T == {f[x] : x \in S}
            g == [x \in S |-> f[x]]
<1>1. g \in Surjection(S, T)
  BY DEF Surjection
<1>. QED BY <1>1, FS_Surjection
-----------------------------------------------------------------------------
(* The findings of the case and the chain each belongs to *)

InTable == found \subseteq DOMAIN Facts

\* A finding is what its rule says and what was decided on it, under its row's id.
LEMMA FieldsOf ==
  ASSUME InTable, NEW f \in fs
  PROVE  /\ f.id \in found /\ f = finding(f.id) /\ f.id \in Int /\ f.id \in DOMAIN Facts
         /\ f.ts \in Int /\ f.tsEnd \in Int /\ Ends(f) \in Int
         /\ f.status = decided[f.id].status
<1>1. PICK i \in found : f = finding(i)
  BY DEF fs
<1>2. i \in DOMAIN Facts /\ i \in Int
  BY FactsAssumption DEF InTable
<1>3. f.id = Facts[i].id /\ f.ts = Facts[i].ts /\ f.tsEnd = Facts[i].tsEnd /\ f.status = decided[i].status
  BY <1>1 DEF finding
<1>4. f.id = i /\ f.ts \in Int /\ f.tsEnd \in Int
  BY <1>2, <1>3, FactsAssumption
<1>. QED BY <1>1, <1>2, <1>3, <1>4 DEF Ends

\* Two findings of one id are one.
LEMMA OneById ==
  ASSUME InTable, NEW f \in fs, NEW g \in fs, f.id = g.id
  PROVE  f = g
BY FieldsOf

\* The table holds finitely many findings.
LEMMA FindingsFinite ==
  ASSUME InTable
  PROVE  IsFiniteSet(fs)
<1>1. found \in SUBSET DOMAIN Facts /\ IsFiniteSet(DOMAIN Facts)
  BY FactsAssumption DEF InTable
<1>2. IsFiniteSet(found)
  BY <1>1, FS_Subset
<1>. DEFINE row == [i \in found |-> finding(i)]
<1>3. fs = {row[i] : i \in found}
  BY DEF fs
<1>. HIDE DEF row
<1>4. DOMAIN row = found
  BY DEF row
<1>. QED BY <1>2, <1>3, <1>4, ImageFinite

\* A finding is of one chain that may take it, or of none and then none may.
LEMMA Membership ==
  ASSUME NEW chains \in SUBSET ChainSet, NEW f
  PROVE  \/ chainMembership(f, chains) = {} /\ Takers(f, chains) = {}
         \/ \E c \in Takers(f, chains) : c \in chains /\ chainMembership(f, chains) = {c.id}
<1>. DEFINE takers == Takers(f, chains)
            before == {p \in takers \X takers : HigherScore(p[1], p[2])}
<1>1. takers \subseteq chains
  BY DEF Takers
<1>. HIDE DEF takers
<1>2. CASE takers = {}
  BY <1>2 DEF chainMembership, TheBest, takers
<1>3. CASE takers # {}
  <2>1. takers \in SUBSET ChainSet /\ IsFiniteSet(takers)
    <3>1. takers \in SUBSET ChainSet
      BY <1>1
    <3>. QED BY <3>1, ChainsAssumption, FS_Subset
  <2>2. \A c, d \in takers : c # d => c.pos # d.pos
    BY <2>1, ChainsAssumption
  <2>3. \A c \in takers : c.pos \in Int /\ c.score \in Int
    BY <2>1, ChainsAssumption
  <2>4. OrderedBy(takers, before)
    BY <2>2, <2>3 DEF OrderedBy, HigherScore
  <2>5. \A c, d \in takers : <<c, d>> \in before => HigherScore(c, d)
    OBVIOUS
  <2>. HIDE DEF before
  <2>6. PICK best \in takers : \A d \in takers \ {best} : <<best, d>> \in before
    BY <1>3, <2>1, <2>4, FirstExists
  <2>7. \A d \in takers \ {best} : HigherScore(best, d)
    BY <2>5, <2>6
  <2>8. Ranked(takers, HigherScore) \in takers
    BY <2>7 DEF Ranked
  <2>9. chainMembership(f, chains) = {Ranked(takers, HigherScore).id}
    BY <1>3 DEF chainMembership, TheBest, takers
  <2>. QED BY <1>1, <2>8, <2>9 DEF takers
<1>. QED BY <1>2, <1>3

\* A finding of a chain is of that one only.
LEMMA OneChain ==
  ASSUME NEW chains \in SUBSET ChainSet, NEW f,
         NEW c \in chains, NEW d \in chains, c.id \in chainMembership(f, chains), d.id \in chainMembership(f, chains)
  PROVE  c = d
<1>1. c.id = d.id
  BY Membership
<1>. QED BY <1>1, ChainsAssumption

-----------------------------------------------------------------------------
(* The incidents of some findings, one by one *)

Free(of, chains) == {f \in of : chainMembership(f, chains) = {}}
Accounts(of) == {f.user : f \in {g \in of : g.source = "events" /\ primaryEntity(g) = "user"}}
Linked(c, of, chains) == {f \in of : c.id \in chainMembership(f, chains)}
OfChain(c, of, chains, reviews) == ChainIncident(c, Linked(c, of, chains), chainSeverity(c, reviews[c.id]))
OfMail(refs, free) == finish(<<"mail", refs>>, "mail", {f \in {g \in free : OneMail(g)} : f.refs = refs})
OfRest(f) == finish(<<"group", f.id>>, "group", {f})

ItemsOf(key, free, accounts) == {f \in {g \in free : HasEntity(g)} : EntityKey(f, accounts) = key}
Untimed(items) == {f \in items : f.ts = NoTime}
Timed(items) == items \ Untimed(items)
InCluster(n, timed) == {f \in timed : NumberOf(f, Openers(timed)) = n}
OfCluster(key, n, timed) == finish(Named(key, n), "entity", InCluster(n, timed))
OfUntimed(key, items) == finish(Named(key, 0), "entity", Untimed(items))

\* What an incident made of some members says of them.
LEMMA FinishSays ==
  ASSUME NEW key, NEW kind, NEW members
  PROVE  /\ finish(key, kind, members).key = key /\ finish(key, kind, members).kind = kind
         /\ finish(key, kind, members).findings = members
         /\ finish(key, kind, members).status = deriveStatus(members)
BY DEF finish, Incident

\* Members that all have a time give it the least of their times and the latest of their ends.
LEMMA FinishTimes ==
  ASSUME NEW key, NEW kind, NEW members, members # {}, \A f \in members : f.ts # NoTime
  PROVE  /\ finish(key, kind, members).ts = Min({f.ts : f \in members})
         /\ finish(key, kind, members).tsEnd = Max({Ends(f) : f \in members})
<1>1. {f.ts : f \in members} \ {NoTime} = {f.ts : f \in members} /\ {f.ts : f \in members} # {}
  OBVIOUS
<1>. QED BY <1>1 DEF finish, Incident

\* The chain's severity and row are put over its incident and leave the rest.
LEMMA ChainSays ==
  ASSUME NEW c, NEW of, NEW chains, NEW reviews
  PROVE  /\ OfChain(c, of, chains, reviews).key = <<"chain", c.id>>
         /\ OfChain(c, of, chains, reviews).kind = "chain"
         /\ OfChain(c, of, chains, reviews).findings = Linked(c, of, chains)
<1>. DEFINE members == Linked(c, of, chains)
            inc == finish(<<"chain", c.id>>, "chain", members)
            severity == chainSeverity(c, reviews[c.id])
            worse == [inc EXCEPT !.severity = severity]
            own == {f \in members : f.rule = "chain"}
            lead == IF own = {} THEN worse.lead ELSE Ranked(own, Sooner)
            led == [worse EXCEPT !.lead = lead]
<1>1. inc.key = <<"chain", c.id>> /\ inc.kind = "chain" /\ inc.findings = members
  BY FinishSays
<1>2. {"key", "kind", "findings"} \subseteq DOMAIN inc
  BY DEF finish, Incident
<1>3. OfChain(c, of, chains, reviews) = led
  BY DEF OfChain, ChainIncident, LedBy
<1>. HIDE DEF inc, severity, lead
<1>4. {"key", "kind", "findings"} \subseteq DOMAIN worse
      /\ worse.key = inc.key /\ worse.kind = inc.kind /\ worse.findings = inc.findings
  BY <1>2
<1>. HIDE DEF worse
<1>5. led.key = worse.key /\ led.kind = worse.kind /\ led.findings = worse.findings
  BY <1>4
<1>. QED BY <1>1, <1>3, <1>4, <1>5

\* Each incident is that of a chain, of a mail, of a cluster of an entity's findings or of those without
\* a time, or of a finding that is nothing of that.
ChainOne(i, of, chains, reviews) ==
  \E c \in chains : Linked(c, of, chains) # {} /\ i = OfChain(c, of, chains, reviews)
MailOne(i, free) == \E f \in free : OneMail(f) /\ i = OfMail(f.refs, free)
EntityOne(i, key, items) ==
  \/ \E n \in 1 .. Cardinality(Openers(Timed(items))) : i = OfCluster(key, n, Timed(items))
  \/ Untimed(items) # {} /\ i = OfUntimed(key, items)
EntitysOne(i, free, accounts) ==
  \E f \in free : HasEntity(f) /\ EntityOne(i, EntityKey(f, accounts), ItemsOf(EntityKey(f, accounts), free, accounts))
RestOne(i, free) == \E f \in free : ~OneMail(f) /\ ~HasEntity(f) /\ i = OfRest(f)

\* The incidents of the entities are those of their clusters and of their findings without a time.
LEMMA EntityOnes ==
  ASSUME NEW free, NEW accounts, NEW i
  PROVE  i \in ByEntity({f \in free : HasEntity(f)}, accounts) <=> EntitysOne(i, free, accounts)
<1>. DEFINE items == {f \in free : HasEntity(f)}
            keyOf == [f \in items |-> EntityKey(f, accounts)]
<1>1. Range(keyOf) = {EntityKey(f, accounts) : f \in items}
  BY DEF Range
<1>2. \A key : {f \in items : keyOf[f] = key} = ItemsOf(key, free, accounts)
  BY DEF ItemsOf
<1>3. ByEntity(items, accounts) = UNION {EntityIncidents(key, {f \in items : keyOf[f] = key}) : key \in Range(keyOf)}
  BY DEF ByEntity
<1>4. \A key, some : i \in EntityIncidents(key, some) <=> EntityOne(i, key, some)
  <2>. SUFFICES ASSUME NEW key, NEW some PROVE i \in EntityIncidents(key, some) <=> EntityOne(i, key, some)
    OBVIOUS
  <2>. DEFINE clusters == Clusters(Timed(some))
  <2>1. DOMAIN clusters = 1 .. Cardinality(Openers(Timed(some)))
        /\ \A n \in DOMAIN clusters : clusters[n] = InCluster(n, Timed(some))
    BY DEF Clusters, InCluster
  <2>2. EntityIncidents(key, some) = Numbered(key, clusters)
                                       \cup (IF Untimed(some) = {} THEN {} ELSE {OfUntimed(key, some)})
    BY DEF EntityIncidents, Timed, Untimed, OfUntimed
  <2>. HIDE DEF clusters
  <2>3. i \in Numbered(key, clusters) <=> \E n \in DOMAIN clusters : i = OfCluster(key, n, Timed(some))
    BY <2>1 DEF Numbered, OfCluster
  <2>. QED BY <2>1, <2>2, <2>3 DEF EntityOne
<1>. DEFINE those(key) == EntityIncidents(key, {f \in items : keyOf[f] = key})
<1>5. ByEntity(items, accounts) = UNION {those(key) : key \in Range(keyOf)}
  BY <1>3
<1>6. \A key : i \in those(key) <=> EntityOne(i, key, ItemsOf(key, free, accounts))
  BY <1>2, <1>4
<1>. HIDE DEF keyOf, items, those
<1>7. i \in ByEntity(items, accounts) <=> \E f \in items : i \in those(EntityKey(f, accounts))
  BY <1>1, <1>5
<1>8. i \in ByEntity(items, accounts) <=>
        \E f \in items : EntityOne(i, EntityKey(f, accounts), ItemsOf(EntityKey(f, accounts), free, accounts))
  BY <1>6, <1>7
<1>. QED BY <1>8 DEF EntitysOne, items

\* The incidents of some findings are these and no others.
LEMMA IncidentOnes ==
  ASSUME NEW of, NEW chains, NEW reviews, NEW i
  PROVE  i \in IncidentsOf(of, chains, reviews) <=>
           \/ ChainOne(i, of, chains, reviews)
           \/ MailOne(i, Free(of, chains))
           \/ EntitysOne(i, Free(of, chains), Accounts(of))
           \/ RestOne(i, Free(of, chains))
<1>. DEFINE free == Free(of, chains)
            chainOf == [f \in of |-> chainMembership(f, chains)]
            byChain == {OfChain(c, of, chains, reviews) : c \in {d \in chains : \E f \in of : d.id \in chainOf[f]}}
            byMail == ByMail({f \in free : OneMail(f)})
            byEntity == ByEntity({f \in free : HasEntity(f)}, Accounts(of))
            rest == {finish(<<"group", f.id>>, "group", {f}) : f \in {g \in free : ~OneMail(g) /\ ~HasEntity(g)}}
<1>1. \A c : {f \in of : c.id \in chainOf[f]} = Linked(c, of, chains)
  BY DEF Linked
<1>2. {f \in of : chainOf[f] = {}} = free
  BY DEF Free
<1>3. IncidentsOf(of, chains, reviews) =
        {ChainIncident(c, {f \in of : c.id \in chainOf[f]}, chainSeverity(c, reviews[c.id])) :
            c \in {d \in chains : \E f \in of : d.id \in chainOf[f]}}
          \cup FreeIncidents({f \in of : chainOf[f] = {}}, Accounts(of))
  BY DEF IncidentsOf, buildIncidents, Accounts
<1>4. FreeIncidents(free, Accounts(of)) = byMail \cup byEntity \cup rest
  BY DEF FreeIncidents
<1>5. i \in byChain <=> ChainOne(i, of, chains, reviews)
  BY DEF ChainOne, Linked
<1>6. i \in byMail <=> MailOne(i, free)
  BY DEF ByMail, MailOne, OfMail
<1>7. i \in byEntity <=> EntitysOne(i, free, Accounts(of))
  BY EntityOnes
<1>8. i \in rest <=> RestOne(i, free)
  BY DEF RestOne, OfRest
<1>9. {ChainIncident(c, {f \in of : c.id \in chainOf[f]}, chainSeverity(c, reviews[c.id])) :
            c \in {d \in chains : \E f \in of : d.id \in chainOf[f]}} = byChain
  BY <1>1 DEF OfChain
<1>. HIDE DEF free, chainOf, byChain, byMail, byEntity, rest
<1>10. IncidentsOf(of, chains, reviews) = byChain \cup (byMail \cup byEntity \cup rest)
  BY <1>2, <1>3, <1>4, <1>9
<1>. QED BY <1>5, <1>6, <1>7, <1>8, <1>10 DEF free

-----------------------------------------------------------------------------
(* The clusters of findings with a time *)

InTimes(timed) ==
  /\ IsFiniteSet(timed)
  /\ \A f \in timed : f.id \in Int /\ f.ts \in Int /\ Ends(f) \in Int
  /\ \A f, g \in timed : f.id = g.id => f = g

\* Findings with a time are in one order.
LEMMA TimeOrder ==
  ASSUME NEW timed, InTimes(timed)
  PROVE  OrderedBy(timed, {p \in timed \X timed : ByTime(p[1], p[2])})
<1>. DEFINE before == {p \in timed \X timed : ByTime(p[1], p[2])}
<1>1. \A f, g \in timed : <<f, g>> \in before <=> ByTime(f, g)
  OBVIOUS
<1>2. \A f, g \in timed : f # g => f.id # g.id
  BY DEF InTimes
<1>3. \A f \in timed : f.id \in Int /\ f.ts \in Int
  BY DEF InTimes
<1>. HIDE DEF before
<1>. QED BY <1>1, <1>2, <1>3 DEF OrderedBy, ByTime, before

\* The same order, in facts.
LEMMA TimeFacts ==
  ASSUME NEW timed, InTimes(timed)
  PROVE  /\ \A f \in timed : ~ByTime(f, f)
         /\ \A f, g \in timed : f # g => ByTime(f, g) \/ ByTime(g, f)
         /\ \A f, g, h \in timed : ByTime(f, g) /\ ByTime(g, h) => ByTime(f, h)
         /\ \A f, g \in timed : ByTime(f, g) => f.ts <= g.ts /\ ~ByTime(g, f)
<1>2. \A f, g \in timed : f # g => f.id # g.id
  BY DEF InTimes
<1>3. \A f \in timed : f.id \in Int /\ f.ts \in Int
  BY DEF InTimes
<1>. QED BY <1>2, <1>3 DEF ByTime

\* Some findings have an earliest one.
LEMMA Earliest ==
  ASSUME NEW timed, InTimes(timed), timed # {}
  PROVE  \E f \in timed : \A g \in timed \ {f} : ByTime(f, g)
<1>. DEFINE before == {p \in timed \X timed : ByTime(p[1], p[2])}
<1>1. \A f, g \in timed : <<f, g>> \in before => ByTime(f, g)
  OBVIOUS
<1>2. OrderedBy(timed, before)
  BY TimeOrder
<1>. HIDE DEF before
<1>3. PICK f \in timed : \A g \in timed \ {f} : <<f, g>> \in before
  BY <1>2, FirstExists DEF InTimes
<1>. QED BY <1>1, <1>3

\* The findings up to one are counted by a number between 0 and how many there are.
LEMMA NumberIs ==
  ASSUME NEW timed, InTimes(timed), NEW openers \in SUBSET timed, NEW f
  PROVE  /\ IsFiniteSet(openers) /\ Cardinality(openers) \in Nat
         /\ NumberOf(f, openers) \in Nat /\ NumberOf(f, openers) <= Cardinality(openers)
         /\ (\E s \in openers : s = f \/ ByTime(s, f)) => NumberOf(f, openers) > 0
<1>. DEFINE upTo == {g \in openers : g = f \/ ByTime(g, f)}
<1>1. IsFiniteSet(openers)
  BY FS_Subset DEF InTimes
<1>2. upTo \in SUBSET openers
  OBVIOUS
<1>3. NumberOf(f, openers) = Cardinality(upTo)
  BY DEF NumberOf
<1>4. \A s \in openers : s = f \/ ByTime(s, f) => upTo # {}
  OBVIOUS
<1>. HIDE DEF upTo
<1>5. IsFiniteSet(upTo) /\ Cardinality(upTo) <= Cardinality(openers)
  BY <1>1, <1>2, FS_Subset
<1>6. Cardinality(openers) \in Nat /\ Cardinality(upTo) \in Nat
  BY <1>1, <1>5, FS_CardinalityType
<1>7. upTo # {} => Cardinality(upTo) > 0
  BY <1>5, <1>6, FS_EmptySet
<1>. QED BY <1>1, <1>3, <1>4, <1>5, <1>6, <1>7 DEF upTo

\* A later finding that an opener lies between has a higher number.
LEMMA NumberGrows ==
  ASSUME NEW timed, InTimes(timed), NEW openers \in SUBSET timed,
         NEW f \in timed, NEW g \in timed, f = g \/ ByTime(f, g)
  PROVE  /\ NumberOf(f, openers) <= NumberOf(g, openers)
         /\ NumberOf(f, openers) < NumberOf(g, openers) <=> \E s \in openers : ByTime(f, s) /\ (s = g \/ ByTime(s, g))
<1>. DEFINE upF == {s \in openers : s = f \/ ByTime(s, f)}
            upG == {s \in openers : s = g \/ ByTime(s, g)}
<1>1. NumberOf(f, openers) = Cardinality(upF) /\ NumberOf(g, openers) = Cardinality(upG)
  BY DEF NumberOf
<1>2. upF \subseteq upG
  BY TimeFacts
<1>3. upF # upG <=> \E s \in openers : ByTime(f, s) /\ (s = g \/ ByTime(s, g))
  BY TimeFacts
<1>4. IsFiniteSet(upF) /\ IsFiniteSet(upG)
  <2>1. upF \in SUBSET timed /\ upG \in SUBSET timed
    OBVIOUS
  <2>. HIDE DEF upF, upG
  <2>. QED BY <2>1, FS_Subset DEF InTimes
<1>. HIDE DEF upF, upG
<1>5. Cardinality(upF) \in Nat /\ Cardinality(upG) \in Nat
  BY <1>4, FS_CardinalityType
<1>6. Cardinality(upF) <= Cardinality(upG) /\ (Cardinality(upG) = Cardinality(upF) => upF = upG)
  BY <1>2, <1>4, FS_Subset
<1>. QED BY <1>1, <1>3, <1>5, <1>6

\* Every finding with a time is in a cluster.
LEMMA Clustered ==
  ASSUME NEW timed, InTimes(timed), NEW f \in timed
  PROVE  NumberOf(f, Openers(timed)) \in 1 .. Cardinality(Openers(timed))
<1>. DEFINE sooner == {g \in timed : g = f \/ ByTime(g, f)}
<1>1. sooner \in SUBSET timed /\ sooner # {}
  OBVIOUS
<1>2. IsFiniteSet(sooner)
  BY <1>1, FS_Subset DEF InTimes
<1>3. InTimes(sooner)
  BY <1>1, <1>2 DEF InTimes
<1>4. PICK first \in sooner : \A g \in sooner \ {first} : ByTime(first, g)
  BY <1>1, <1>3, Earliest
<1>5. \A g \in timed : ~ByTime(g, first)
  BY <1>4, TimeFacts
<1>6. first \in Openers(timed)
  BY <1>5 DEF Openers
<1>7. Openers(timed) \in SUBSET timed
  BY DEF Openers
<1>8. \E s \in Openers(timed) : s = f \/ ByTime(s, f)
  BY <1>4, <1>6
<1>. HIDE DEF sooner
<1>. QED BY <1>7, <1>8, NumberIs

\* No cluster is empty.
LEMMA NoneEmpty ==
  ASSUME NEW timed, InTimes(timed), NEW n \in 1 .. Cardinality(Openers(timed))
  PROVE  InCluster(n, timed) # {}
<1>. DEFINE openers == Openers(timed)
            number == [s \in openers |-> NumberOf(s, openers)]
<1>1. openers \in SUBSET timed
  BY DEF Openers
<1>. HIDE DEF openers
<1>2. IsFiniteSet(openers) /\ Cardinality(openers) \in Nat
  BY <1>1, NumberIs
<1>3. ASSUME NEW s \in openers PROVE NumberOf(s, openers) \in 1 .. Cardinality(openers)
  BY <1>1, <1>2, NumberIs
<1>4. \A s, t \in openers : ByTime(s, t) => NumberOf(s, openers) # NumberOf(t, openers)
  <2>. SUFFICES ASSUME NEW s \in openers, NEW t \in openers, ByTime(s, t)
                PROVE  NumberOf(s, openers) # NumberOf(t, openers)
    OBVIOUS
  <2>1. NumberOf(s, openers) < NumberOf(t, openers)
    BY <1>1, NumberGrows
  <2>. QED BY <1>3, <2>1
<1>5. \A s, t \in openers : NumberOf(s, openers) = NumberOf(t, openers) => s = t
  BY <1>1, <1>4, TimeFacts
<1>6. number \in Injection(openers, 1 .. Cardinality(openers))
  BY <1>3, <1>5 DEF Injection, IsInjective
<1>7. IsFiniteSet(1 .. Cardinality(openers)) /\ Cardinality(1 .. Cardinality(openers)) = Cardinality(openers)
  BY <1>2, FS_Interval
<1>8. number \in Surjection(openers, 1 .. Cardinality(openers))
  BY <1>6, <1>7, FS_Injection
<1>9. PICK s \in openers : number[s] = n
  BY <1>8 DEF Surjection, openers
<1>10. s \in timed /\ NumberOf(s, openers) = n
  BY <1>1, <1>9
<1>. QED BY <1>10 DEF InCluster, openers

\* Two clusters of an entity lie further apart than the gap.
LEMMA Apart ==
  ASSUME NEW timed, InTimes(timed), NEW n, NEW m, NEW f \in InCluster(n, timed), NEW g \in InCluster(m, timed), n < m
  PROVE  Ends(f) + Gap < g.ts
<1>1. f \in timed /\ g \in timed /\ NumberOf(f, Openers(timed)) = n /\ NumberOf(g, Openers(timed)) = m
  BY DEF InCluster
<1>2. Openers(timed) \in SUBSET timed
  BY DEF Openers
<1>3. n \in Int /\ m \in Int
  BY <1>1, <1>2, NumberIs
<1>4. ByTime(f, g)
  <2>1. CASE f = g
    BY <2>1, <1>1, <1>3
  <2>2. CASE ByTime(g, f)
    <3>1. m <= n
      BY <1>1, <1>2, <2>2, NumberGrows
    <3>. QED BY <1>3, <3>1
  <2>. QED BY <1>1, <2>1, <2>2, TimeFacts
<1>5. PICK s \in Openers(timed) : ByTime(f, s) /\ (s = g \/ ByTime(s, g))
  BY <1>1, <1>2, <1>4, NumberGrows
<1>6. Ends(f) + Gap < s.ts
  BY <1>1, <1>5 DEF Openers
<1>7. s.ts <= g.ts
  BY <1>1, <1>2, <1>5, TimeFacts DEF InTimes
<1>. QED BY <1>1, <1>2, <1>6, <1>7, TimesAssumption DEF InTimes

-----------------------------------------------------------------------------
(* The one incident a finding is in *)

EntityHome(f, free, accounts) ==
  IF f.ts = NoTime THEN OfUntimed(EntityKey(f, accounts), ItemsOf(EntityKey(f, accounts), free, accounts))
  ELSE OfCluster(EntityKey(f, accounts), NumberOf(f, Openers(Timed(ItemsOf(EntityKey(f, accounts), free, accounts)))),
                 Timed(ItemsOf(EntityKey(f, accounts), free, accounts)))
FreeHome(f, free, accounts) ==
  IF OneMail(f) THEN OfMail(f.refs, free) ELSE IF HasEntity(f) THEN EntityHome(f, free, accounts) ELSE OfRest(f)
ChainOf(f, chains) == CHOOSE c \in chains : c.id \in chainMembership(f, chains)
Home(f, of, chains, reviews) ==
  IF chainMembership(f, chains) # {} THEN OfChain(ChainOf(f, chains), of, chains, reviews)
  ELSE FreeHome(f, Free(of, chains), Accounts(of))

\* The findings of an entity with a time are in an order.
LEMMA ItemsInTimes ==
  ASSUME InTable, NEW free \in SUBSET fs, NEW accounts, NEW key
  PROVE  InTimes(Timed(ItemsOf(key, free, accounts)))
<1>. DEFINE timed == Timed(ItemsOf(key, free, accounts))
<1>1. timed \in SUBSET fs
  BY DEF Timed, ItemsOf
<1>. HIDE DEF timed
<1>2. IsFiniteSet(timed)
  BY <1>1, FindingsFinite, FS_Subset
<1>3. \A f \in timed : f.id \in Int /\ f.ts \in Int /\ Ends(f) \in Int
  BY <1>1, FieldsOf
<1>4. \A f, g \in timed : f.id = g.id => f = g
  BY <1>1, OneById
<1>. QED BY <1>2, <1>3, <1>4 DEF InTimes, timed

\* An entity's findings with a time and those without.
LEMMA ItemsAre ==
  ASSUME NEW free, NEW accounts, NEW key, NEW f
  PROVE  /\ f \in ItemsOf(key, free, accounts) <=> f \in free /\ HasEntity(f) /\ EntityKey(f, accounts) = key
         /\ \A items : f \in Untimed(items) <=> f \in items /\ f.ts = NoTime
         /\ \A items : f \in Timed(items) <=> f \in items /\ f.ts # NoTime
         /\ \A n, timed : f \in InCluster(n, timed) <=> f \in timed /\ NumberOf(f, Openers(timed)) = n
BY DEF ItemsOf, Untimed, Timed, InCluster

\* A finding that has an entity is in an incident of that entity ...
LEMMA EntityHolds ==
  ASSUME InTable, NEW free \in SUBSET fs, NEW accounts, NEW f \in free, HasEntity(f)
  PROVE  EntitysOne(EntityHome(f, free, accounts), free, accounts) /\ f \in EntityHome(f, free, accounts).findings
<1>. DEFINE key == EntityKey(f, accounts)
            items == ItemsOf(key, free, accounts)
<1>1. f \in items
  BY ItemsAre
<1>. HIDE DEF items
<1>2. CASE f.ts = NoTime
  <2>1. f \in Untimed(items)
    BY <1>1, <1>2, ItemsAre
  <2>2. EntityHome(f, free, accounts) = OfUntimed(key, items)
    BY <1>2 DEF EntityHome, items
  <2>3. OfUntimed(key, items).findings = Untimed(items)
    BY FinishSays DEF OfUntimed
  <2>4. EntityOne(OfUntimed(key, items), key, items)
    BY <2>1 DEF EntityOne
  <2>. QED BY <2>1, <2>2, <2>3, <2>4 DEF EntitysOne, items
<1>3. CASE f.ts # NoTime
  <2>. DEFINE timed == Timed(items)
              n == NumberOf(f, Openers(timed))
  <2>1. f \in timed
    BY <1>1, <1>3, ItemsAre
  <2>2. InTimes(timed)
    BY ItemsInTimes DEF items
  <2>3. n \in 1 .. Cardinality(Openers(timed))
    BY <2>1, <2>2, Clustered
  <2>4. EntityHome(f, free, accounts) = OfCluster(key, n, timed)
    BY <1>3 DEF EntityHome, items
  <2>5. f \in InCluster(n, timed)
    BY <2>1, ItemsAre
  <2>6. OfCluster(key, n, timed).findings = InCluster(n, timed)
    BY FinishSays DEF OfCluster
  <2>7. EntityOne(OfCluster(key, n, timed), key, items)
    BY <2>3 DEF EntityOne
  <2>. QED BY <2>4, <2>5, <2>6, <2>7 DEF EntitysOne, items
<1>. QED BY <1>2, <1>3

\* ... and in no other of any entity's.
LEMMA EntityHoldsOnce ==
  ASSUME InTable, NEW free \in SUBSET fs, NEW accounts, NEW i, EntitysOne(i, free, accounts)
  PROVE  /\ i.findings # {} /\ i.findings \subseteq free
         /\ \A f \in i.findings : HasEntity(f) /\ i = EntityHome(f, free, accounts)
<1>1. PICK e \in free : HasEntity(e) /\ EntityOne(i, EntityKey(e, accounts), ItemsOf(EntityKey(e, accounts), free, accounts))
  BY DEF EntitysOne
<1>. DEFINE key == EntityKey(e, accounts)
            items == ItemsOf(key, free, accounts)
<1>2. \A f \in items : f \in free /\ HasEntity(f) /\ EntityKey(f, accounts) = key
  BY ItemsAre
<1>3. InTimes(Timed(items))
  BY ItemsInTimes
<1>. HIDE DEF key, items
<1>4. CASE Untimed(items) # {} /\ i = OfUntimed(key, items)
  <2>1. i.findings = Untimed(items)
    BY <1>4, FinishSays DEF OfUntimed
  <2>2. \A f \in Untimed(items) : f \in items /\ f.ts = NoTime
    BY ItemsAre
  <2>3. ASSUME NEW f \in i.findings PROVE HasEntity(f) /\ i = EntityHome(f, free, accounts)
    <3>1. f \in items /\ f.ts = NoTime
      BY <2>1, <2>2
    <3>2. EntityKey(f, accounts) = key /\ HasEntity(f)
      BY <1>2, <3>1
    <3>3. EntityHome(f, free, accounts) = OfUntimed(key, items)
      BY <3>1, <3>2 DEF EntityHome, items
    <3>. QED BY <1>4, <3>2, <3>3
  <2>. QED BY <1>2, <1>4, <2>1, <2>2, <2>3
<1>5. ASSUME NEW n \in 1 .. Cardinality(Openers(Timed(items))), i = OfCluster(key, n, Timed(items))
      PROVE  /\ i.findings # {} /\ i.findings \subseteq free
             /\ \A f \in i.findings : HasEntity(f) /\ i = EntityHome(f, free, accounts)
  <2>. DEFINE timed == Timed(items)
  <2>1. i.findings = InCluster(n, timed)
    BY <1>5, FinishSays DEF OfCluster
  <2>2. InCluster(n, timed) # {}
    BY <1>3, <1>5, NoneEmpty
  <2>3. \A f \in InCluster(n, timed) : f \in items /\ f.ts # NoTime /\ NumberOf(f, Openers(timed)) = n
    BY ItemsAre
  <2>4. ASSUME NEW f \in i.findings PROVE HasEntity(f) /\ i = EntityHome(f, free, accounts)
    <3>1. f \in items /\ f.ts # NoTime /\ NumberOf(f, Openers(timed)) = n
      BY <2>1, <2>3
    <3>2. EntityKey(f, accounts) = key /\ HasEntity(f)
      BY <1>2, <3>1
    <3>3. EntityHome(f, free, accounts) = OfCluster(key, n, timed)
      BY <3>1, <3>2 DEF EntityHome, items
    <3>. QED BY <1>5, <3>2, <3>3
  <2>. QED BY <1>2, <2>1, <2>2, <2>3, <2>4
<1>6. \/ Untimed(items) # {} /\ i = OfUntimed(key, items)
      \/ \E n \in 1 .. Cardinality(Openers(Timed(items))) : i = OfCluster(key, n, Timed(items))
  BY <1>1 DEF EntityOne, key, items
<1>. QED BY <1>4, <1>5, <1>6

\* A mail is not an event.
LEMMA MailIsNoEntity ==
  ASSUME NEW f
  PROVE  ~(OneMail(f) /\ HasEntity(f))
BY DEF OneMail, HasEntity

\* Every finding is in an incident, that of its home ...
LEMMA HomeHolds ==
  ASSUME InTable, NEW of \in SUBSET fs, NEW chains \in SUBSET ChainSet, NEW reviews, NEW f \in of
  PROVE  Home(f, of, chains, reviews) \in IncidentsOf(of, chains, reviews) /\ f \in Home(f, of, chains, reviews).findings
<1>. DEFINE i == Home(f, of, chains, reviews)
            free == Free(of, chains)
            accounts == Accounts(of)
<1>1. CASE chainMembership(f, chains) # {}
  <2>. DEFINE c == ChainOf(f, chains)
  <2>1. c \in chains /\ c.id \in chainMembership(f, chains)
    BY <1>1, Membership DEF ChainOf
  <2>2. f \in Linked(c, of, chains)
    BY <2>1 DEF Linked
  <2>3. i = OfChain(c, of, chains, reviews)
    BY <1>1 DEF Home
  <2>. HIDE DEF c, i
  <2>4. ChainOne(i, of, chains, reviews)
    BY <2>1, <2>2, <2>3 DEF ChainOne
  <2>5. i.findings = Linked(c, of, chains)
    BY <2>3, ChainSays
  <2>. QED BY <2>2, <2>4, <2>5, IncidentOnes DEF i
<1>2. CASE chainMembership(f, chains) = {}
  <2>1. f \in free /\ free \in SUBSET fs
    BY <1>2 DEF Free
  <2>2. i = FreeHome(f, free, accounts)
    BY <1>2 DEF Home
  <2>. HIDE DEF i, free, accounts
  <2>3. CASE OneMail(f)
    <3>1. i = OfMail(f.refs, free)
      BY <2>2, <2>3 DEF FreeHome
    <3>2. MailOne(i, free)
      BY <2>1, <2>3, <3>1 DEF MailOne
    <3>3. i.findings = {g \in {h \in free : OneMail(h)} : g.refs = f.refs}
      BY <3>1, FinishSays DEF OfMail
    <3>. QED BY <2>1, <2>3, <3>2, <3>3, IncidentOnes DEF i, free
  <2>4. CASE ~OneMail(f) /\ HasEntity(f)
    <3>1. i = EntityHome(f, free, accounts)
      BY <2>2, <2>4 DEF FreeHome
    <3>2. EntitysOne(i, free, accounts) /\ f \in i.findings
      BY <2>1, <2>4, <3>1, EntityHolds
    <3>. QED BY <3>2, IncidentOnes DEF i, free, accounts
  <2>5. CASE ~OneMail(f) /\ ~HasEntity(f)
    <3>1. i = OfRest(f)
      BY <2>2, <2>5 DEF FreeHome
    <3>2. RestOne(i, free)
      BY <2>1, <2>5, <3>1 DEF RestOne
    <3>3. i.findings = {f}
      BY <3>1, FinishSays DEF OfRest
    <3>. QED BY <3>2, <3>3, IncidentOnes DEF i, free
  <2>. QED BY <2>3, <2>4, <2>5
<1>. QED BY <1>1, <1>2

\* ... and in no other.
LEMMA HoldsOnce ==
  ASSUME InTable, NEW of \in SUBSET fs, NEW chains \in SUBSET ChainSet, NEW reviews,
         NEW i \in IncidentsOf(of, chains, reviews)
  PROVE  i.findings # {} /\ i.findings \subseteq of /\ \A f \in i.findings : i = Home(f, of, chains, reviews)
<1>. DEFINE free == Free(of, chains)
            accounts == Accounts(of)
            Fine == i.findings # {} /\ i.findings \subseteq of /\ \A f \in i.findings : i = Home(f, of, chains, reviews)
<1>1. free \in SUBSET fs /\ free \subseteq of /\ \A f \in free : chainMembership(f, chains) = {}
  BY DEF Free
<1>2. \A f \in free : Home(f, of, chains, reviews) = FreeHome(f, free, accounts)
  BY <1>1 DEF Home
<1>. HIDE DEF free, accounts
<1>3. CASE ChainOne(i, of, chains, reviews)
  <2>1. PICK c \in chains : Linked(c, of, chains) # {} /\ i = OfChain(c, of, chains, reviews)
    BY <1>3 DEF ChainOne
  <2>2. i.findings = Linked(c, of, chains)
    BY <2>1, ChainSays
  <2>3. ASSUME NEW f \in i.findings PROVE i = Home(f, of, chains, reviews)
    <3>1. c.id \in chainMembership(f, chains)
      BY <2>2 DEF Linked
    <3>2. ChainOf(f, chains) \in chains /\ ChainOf(f, chains).id \in chainMembership(f, chains)
      BY <3>1 DEF ChainOf
    <3>3. ChainOf(f, chains) = c
      BY <3>1, <3>2, OneChain
    <3>. QED BY <2>1, <3>1, <3>3 DEF Home
  <2>4. Linked(c, of, chains) \subseteq of
    BY DEF Linked
  <2>. QED BY <2>1, <2>2, <2>3, <2>4
<1>4. CASE MailOne(i, free)
  <2>1. PICK e \in free : OneMail(e) /\ i = OfMail(e.refs, free)
    BY <1>4 DEF MailOne
  <2>2. i.findings = {g \in {h \in free : OneMail(h)} : g.refs = e.refs}
    BY <2>1, FinishSays DEF OfMail
  <2>3. ASSUME NEW f \in i.findings PROVE f \in free /\ i = FreeHome(f, free, accounts)
    BY <2>1, <2>2 DEF FreeHome
  <2>4. e \in i.findings
    BY <2>1, <2>2
  <2>. QED BY <1>1, <1>2, <2>3, <2>4
<1>5. CASE EntitysOne(i, free, accounts)
  <2>1. /\ i.findings # {} /\ i.findings \subseteq free
        /\ \A f \in i.findings : HasEntity(f) /\ i = EntityHome(f, free, accounts)
    BY <1>1, <1>5, EntityHoldsOnce
  <2>2. ASSUME NEW f \in i.findings PROVE f \in free /\ i = FreeHome(f, free, accounts)
    BY <2>1, MailIsNoEntity DEF FreeHome
  <2>. QED BY <1>1, <1>2, <2>1, <2>2
<1>6. CASE RestOne(i, free)
  <2>1. PICK e \in free : ~OneMail(e) /\ ~HasEntity(e) /\ i = OfRest(e)
    BY <1>6 DEF RestOne
  <2>2. i.findings = {e}
    BY <2>1, FinishSays DEF OfRest
  <2>3. i = FreeHome(e, free, accounts)
    BY <2>1 DEF FreeHome
  <2>. QED BY <1>1, <1>2, <2>1, <2>2, <2>3
<1>. QED BY <1>3, <1>4, <1>5, <1>6, IncidentOnes DEF free, accounts

-----------------------------------------------------------------------------
(* Every finding is decided once *)

\* The incident of a cluster begins with one of its findings and ends with one.
LEMMA ClusterTimes ==
  ASSUME NEW timed, InTimes(timed), \A f \in timed : f.ts # NoTime, NEW n, InCluster(n, timed) # {}, NEW key
  PROVE  /\ \E f \in InCluster(n, timed) : OfCluster(key, n, timed).ts = f.ts
         /\ \E f \in InCluster(n, timed) : OfCluster(key, n, timed).tsEnd = Ends(f)
<1>. DEFINE members == InCluster(n, timed)
            begin == [f \in members |-> f.ts]
            end == [f \in members |-> Ends(f)]
            begins == {begin[f] : f \in members}
            ends == {end[f] : f \in members}
<1>1. members \in SUBSET timed
  BY DEF InCluster
<1>2. IsFiniteSet(members)
  BY <1>1, FS_Subset DEF InTimes
<1>3. begins \in SUBSET Int /\ ends \in SUBSET Int /\ begins # {} /\ ends # {}
  BY <1>1 DEF InTimes
<1>4. begins = {f.ts : f \in members} /\ ends = {Ends(f) : f \in members}
  OBVIOUS
<1>. HIDE DEF members
<1>5. DOMAIN begin = members /\ DOMAIN end = members
  OBVIOUS
<1>. HIDE DEF begin, end
<1>6. IsFiniteSet(begins) /\ IsFiniteSet(ends)
  BY <1>2, <1>5, ImageFinite
<1>. HIDE DEF begins, ends
<1>7. Min(begins) \in begins /\ Max(ends) \in ends
  BY <1>3, <1>6, LeastInteger, GreatestInteger
<1>8. OfCluster(key, n, timed).ts = Min(begins) /\ OfCluster(key, n, timed).tsEnd = Max(ends)
  BY <1>1, <1>4, FinishTimes DEF OfCluster, members
<1>9. \E f \in members : Min(begins) = f.ts
  BY <1>4, <1>7
<1>10. \E f \in members : Max(ends) = Ends(f)
  BY <1>4, <1>7
<1>. QED BY <1>8, <1>9, <1>10 DEF members

\* An incident of an entity's findings with a time, by its name.
LEMMA EntityNamed ==
  ASSUME NEW free, NEW accounts, NEW i, EntitysOne(i, free, accounts)
  PROVE  \E f \in free : \E key \in {EntityKey(f, accounts)} :
           /\ i.key[1] = key[1] /\ i.key[2] = key[2]
           /\ i.key[3] > 0 => \E n \in 1 .. Cardinality(Openers(Timed(ItemsOf(key, free, accounts)))) :
                                i = OfCluster(key, n, Timed(ItemsOf(key, free, accounts)))
<1>1. PICK f \in free : EntityOne(i, EntityKey(f, accounts), ItemsOf(EntityKey(f, accounts), free, accounts))
  BY DEF EntitysOne
<1>. DEFINE key == EntityKey(f, accounts)
            items == ItemsOf(key, free, accounts)
<1>2. \A n : Named(key, n)[1] = key[1] /\ Named(key, n)[2] = key[2] /\ Named(key, n)[3] = n
  BY DEF Named
<1>. HIDE DEF key, items
<1>3. CASE Untimed(items) # {} /\ i = OfUntimed(key, items)
  <2>1. i.key = Named(key, 0)
    BY <1>3, FinishSays DEF OfUntimed
  <2>2. i.key[1] = key[1] /\ i.key[2] = key[2] /\ ~(i.key[3] > 0)
    BY <1>2, <2>1
  <2>. QED BY <2>2 DEF key, items
<1>4. ASSUME NEW n \in 1 .. Cardinality(Openers(Timed(items))), i = OfCluster(key, n, Timed(items))
      PROVE  i.key[1] = key[1] /\ i.key[2] = key[2]
  <2>1. i.key = Named(key, n)
    BY <1>4, FinishSays DEF OfCluster
  <2>. QED BY <1>2, <2>1
<1>5. \/ Untimed(items) # {} /\ i = OfUntimed(key, items)
      \/ \E n \in 1 .. Cardinality(Openers(Timed(items))) : i = OfCluster(key, n, Timed(items))
  BY <1>1 DEF EntityOne, key, items
<1>. QED BY <1>3, <1>4, <1>5 DEF key, items

\* Only an entity's incident is called one.
LEMMA OnlyEntities ==
  ASSUME NEW of, NEW chains, NEW reviews, NEW i \in IncidentsOf(of, chains, reviews), i.kind = "entity"
  PROVE  EntitysOne(i, Free(of, chains), Accounts(of))
<1>1. ~ChainOne(i, of, chains, reviews)
  BY ChainSays DEF ChainOne
<1>2. ASSUME NEW f, i = OfMail(f.refs, Free(of, chains)) PROVE FALSE
  BY <1>2, FinishSays DEF OfMail
<1>3. ASSUME NEW f, i = OfRest(f) PROVE FALSE
  BY <1>3, FinishSays DEF OfRest
<1>4. ~MailOne(i, Free(of, chains)) /\ ~RestOne(i, Free(of, chains))
  BY <1>2, <1>3 DEF MailOne, RestOne
<1>. QED BY <1>1, <1>4, IncidentOnes

\* Two timed incidents of one entity are further apart than the gap.
LEMMA EntitiesApart ==
  ASSUME InTable, NEW free \in SUBSET fs, NEW accounts, NEW i, NEW j, i # j,
         EntitysOne(i, free, accounts), EntitysOne(j, free, accounts),
         i.key[1] = j.key[1], i.key[2] = j.key[2], i.key[3] > 0, j.key[3] > 0
  PROVE  i.tsEnd + Gap < j.ts \/ j.tsEnd + Gap < i.ts
<1>1. PICK f \in free : \E key \in {EntityKey(f, accounts)} :
           /\ i.key[1] = key[1] /\ i.key[2] = key[2]
           /\ i.key[3] > 0 => \E n \in 1 .. Cardinality(Openers(Timed(ItemsOf(key, free, accounts)))) :
                                i = OfCluster(key, n, Timed(ItemsOf(key, free, accounts)))
  BY EntityNamed
<1>2. PICK g \in free : \E key \in {EntityKey(g, accounts)} :
           /\ j.key[1] = key[1] /\ j.key[2] = key[2]
           /\ j.key[3] > 0 => \E n \in 1 .. Cardinality(Openers(Timed(ItemsOf(key, free, accounts)))) :
                                j = OfCluster(key, n, Timed(ItemsOf(key, free, accounts)))
  BY EntityNamed
<1>. DEFINE key == EntityKey(f, accounts)
            timed == Timed(ItemsOf(key, free, accounts))
<1>3. EntityKey(g, accounts) = key
  <2>1. EntityKey(f, accounts)[1] = EntityKey(g, accounts)[1] /\ EntityKey(f, accounts)[2] = EntityKey(g, accounts)[2]
    BY <1>1, <1>2
  <2>2. \A e : EntityKey(e, accounts) = <<EntityKey(e, accounts)[1], EntityKey(e, accounts)[2]>>
    BY DEF EntityKey
  <2>. QED BY <2>1, <2>2
<1>. HIDE DEF key
<1>4. PICK n \in 1 .. Cardinality(Openers(timed)) : i = OfCluster(key, n, timed)
  BY <1>1 DEF key
<1>5. PICK m \in 1 .. Cardinality(Openers(timed)) : j = OfCluster(key, m, timed)
  BY <1>2, <1>3
<1>6. InTimes(timed)
  BY ItemsInTimes
<1>7. \A h \in timed : h.ts # NoTime
  BY ItemsAre
<1>. HIDE DEF timed
<1>8. InCluster(n, timed) # {} /\ InCluster(m, timed) # {}
  BY <1>6, NoneEmpty
<1>9. PICK iFirst \in InCluster(n, timed) : i.ts = iFirst.ts
  BY <1>4, <1>6, <1>7, <1>8, ClusterTimes
<1>10. PICK iLast \in InCluster(n, timed) : i.tsEnd = Ends(iLast)
  BY <1>4, <1>6, <1>7, <1>8, ClusterTimes
<1>11. PICK jFirst \in InCluster(m, timed) : j.ts = jFirst.ts
  BY <1>5, <1>6, <1>7, <1>8, ClusterTimes
<1>12. PICK jLast \in InCluster(m, timed) : j.tsEnd = Ends(jLast)
  BY <1>5, <1>6, <1>7, <1>8, ClusterTimes
<1>13. n # m
  BY <1>4, <1>5
<1>14. CASE n < m
  BY <1>6, <1>10, <1>11, <1>14, Apart
<1>15. CASE m < n
  BY <1>6, <1>9, <1>12, <1>15, Apart
<1>16. n \in Int /\ m \in Int
  OBVIOUS
<1>. QED BY <1>13, <1>14, <1>15, <1>16

\* The incidents of the case hold every finding, none twice, and an entity's are apart.
LEMMA Partitioned == InTable => EachFindingOnce
<1>. SUFFICES ASSUME InTable PROVE EachFindingOnce
  OBVIOUS
<1>. DEFINE incidents == IncidentsOf(fs, Chains, verdicts)
<1>1. fs \in SUBSET fs /\ Chains \in SUBSET ChainSet
  BY DEF Chains
<1>2. \A f \in fs : Home(f, fs, Chains, verdicts) \in incidents /\ f \in Home(f, fs, Chains, verdicts).findings
  BY <1>1, HomeHolds
<1>3. \A i \in incidents : i.findings \subseteq fs /\ \A f \in i.findings : i = Home(f, fs, Chains, verdicts)
  BY <1>1, HoldsOnce
<1>4. UNION {i.findings : i \in incidents} = fs
  BY <1>2, <1>3
<1>5. \A i, j \in incidents : i # j => i.findings \cap j.findings = {}
  BY <1>3
<1>6. ASSUME NEW i \in incidents, NEW j \in incidents, i # j, i.kind = "entity", j.kind = "entity",
             i.key[1] = j.key[1], i.key[2] = j.key[2], i.key[3] > 0, j.key[3] > 0
      PROVE  i.tsEnd + Gap < j.ts \/ j.tsEnd + Gap < i.ts
  <2>1. EntitysOne(i, Free(fs, Chains), Accounts(fs)) /\ EntitysOne(j, Free(fs, Chains), Accounts(fs))
    BY <1>6, OnlyEntities
  <2>2. Free(fs, Chains) \in SUBSET fs
    BY DEF Free
  <2>. QED BY <1>6, <2>1, <2>2, EntitiesApart
<1>. HIDE DEF incidents
<1>7. Partition(incidents)
  BY <1>4, <1>5, <1>6 DEF Partition
<1>. QED BY <1>7 DEF EachFindingOnce, incidents

-----------------------------------------------------------------------------
(* What the report prints and what is confirmed *)

\* Only a chain's incident is called one, and leads with the chain's key.
LEMMA OnlyChains ==
  ASSUME NEW of, NEW chains, NEW reviews, NEW i \in IncidentsOf(of, chains, reviews)
  PROVE  i.kind = "chain" <=> ChainOne(i, of, chains, reviews)
<1>1. ASSUME ChainOne(i, of, chains, reviews) PROVE i.kind = "chain"
  BY <1>1, ChainSays DEF ChainOne
<1>2. ASSUME NEW f, NEW free, i = OfMail(f.refs, free) PROVE i.kind # "chain"
  BY <1>2, FinishSays DEF OfMail
<1>3. ASSUME NEW f, i = OfRest(f) PROVE i.kind # "chain"
  BY <1>3, FinishSays DEF OfRest
<1>4. ASSUME NEW key, NEW n, NEW timed, i = OfCluster(key, n, timed) PROVE i.kind # "chain"
  BY <1>4, FinishSays DEF OfCluster
<1>5. ASSUME NEW key, NEW items, i = OfUntimed(key, items) PROVE i.kind # "chain"
  BY <1>5, FinishSays DEF OfUntimed
<1>6. ASSUME EntitysOne(i, Free(of, chains), Accounts(of)) PROVE i.kind # "chain"
  BY <1>4, <1>5, <1>6 DEF EntitysOne, EntityOne
<1>7. ASSUME MailOne(i, Free(of, chains)) PROVE i.kind # "chain"
  BY <1>2, <1>7 DEF MailOne
<1>8. ASSUME RestOne(i, Free(of, chains)) PROVE i.kind # "chain"
  BY <1>3, <1>8 DEF RestOne
<1>. QED BY <1>1, <1>6, <1>7, <1>8, IncidentOnes

\* An incident of no chain is made of findings of no chain, and has the status they give it.
LEMMA FreeOnes ==
  ASSUME InTable, NEW of \in SUBSET fs, NEW chains \in SUBSET ChainSet, NEW reviews,
         NEW i \in IncidentsOf(of, chains, reviews), i.kind # "chain"
  PROVE  i.findings \subseteq Free(of, chains) /\ i.status = deriveStatus(i.findings)
<1>. DEFINE free == Free(of, chains)
            accounts == Accounts(of)
<1>1. ~ChainOne(i, of, chains, reviews)
  BY OnlyChains
<1>2. CASE MailOne(i, free)
  <2>1. PICK e \in free : OneMail(e) /\ i = OfMail(e.refs, free)
    BY <1>2 DEF MailOne
  <2>2. i.findings = {g \in {h \in free : OneMail(h)} : g.refs = e.refs} /\ i.status = deriveStatus(i.findings)
    BY <2>1, FinishSays DEF OfMail
  <2>. HIDE DEF free
  <2>. QED BY <2>2 DEF free
<1>3. CASE EntitysOne(i, free, accounts)
  <2>1. free \in SUBSET fs
    BY DEF Free
  <2>. HIDE DEF free, accounts
  <2>2. i.findings \subseteq free
    BY <1>3, <2>1, EntityHoldsOnce
  <2>3. ASSUME NEW key, NEW n, NEW timed, i = OfCluster(key, n, timed) PROVE i.status = deriveStatus(i.findings)
    BY <2>3, FinishSays DEF OfCluster
  <2>4. ASSUME NEW key, NEW items, i = OfUntimed(key, items) PROVE i.status = deriveStatus(i.findings)
    BY <2>4, FinishSays DEF OfUntimed
  <2>5. i.status = deriveStatus(i.findings)
    BY <1>3, <2>3, <2>4 DEF EntitysOne, EntityOne
  <2>. QED BY <2>2, <2>5 DEF free
<1>4. CASE RestOne(i, free)
  <2>1. PICK e \in free : i = OfRest(e)
    BY <1>4 DEF RestOne
  <2>2. i.findings = {e} /\ i.status = deriveStatus(i.findings)
    BY <2>1, FinishSays DEF OfRest
  <2>. QED BY <2>1, <2>2
<1>. QED BY <1>1, <1>2, <1>3, <1>4, IncidentOnes

\* An incident is escalated when one of its findings is.
LEMMA EscalatedByOne ==
  ASSUME NEW members
  PROVE  deriveStatus(members) = "escalated" <=> \E f \in members : f.status = "escalated"
<1>. DEFINE statuses == {f.status : f \in members}
<1>1. "escalated" \in statuses <=> \E f \in members : f.status = "escalated"
  OBVIOUS
<1>2. deriveStatus(members) = StatusOf(statuses)
  BY DEF deriveStatus
<1>. HIDE DEF statuses
<1>3. StatusOf(statuses) = "escalated" <=> "escalated" \in statuses
  <2>1. CASE statuses = {"false_positive"}
    BY <2>1 DEF StatusOf
  <2>2. CASE statuses # {"false_positive"} /\ "escalated" \in statuses
    BY <2>2 DEF StatusOf
  <2>3. CASE statuses # {"false_positive"} /\ "escalated" \notin statuses
    BY <2>3 DEF StatusOf
  <2>. QED BY <2>1, <2>2, <2>3
<1>. QED BY <1>1, <1>2, <1>3

\* Finitely many findings make finitely many incidents.
LEMMA IncidentsFinite ==
  ASSUME InTable, NEW of \in SUBSET fs, NEW chains \in SUBSET ChainSet, NEW reviews
  PROVE  IsFiniteSet(IncidentsOf(of, chains, reviews))
<1>. DEFINE home == [f \in of |-> Home(f, of, chains, reviews)]
            incidents == IncidentsOf(of, chains, reviews)
            homes == {home[f] : f \in of}
<1>1. IsFiniteSet(of)
  BY FindingsFinite, FS_Subset
<1>2. IsFiniteSet(homes)
  <2>1. DOMAIN home = of
    OBVIOUS
  <2>. HIDE DEF home
  <2>. QED BY <1>1, <2>1, ImageFinite
<1>3. ASSUME NEW i \in incidents PROVE i \in homes
  <2>1. i.findings # {} /\ i.findings \subseteq of /\ \A f \in i.findings : i = Home(f, of, chains, reviews)
    BY HoldsOnce
  <2>. QED BY <2>1
<1>4. incidents \in SUBSET homes
  BY <1>3
<1>. HIDE DEF incidents, homes
<1>5. IsFiniteSet(incidents)
  BY <1>2, <1>4, FS_Subset
<1>. QED BY <1>5 DEF incidents

\* A finding of no chain makes an incident of none.
LEMMA FreeHomes ==
  ASSUME InTable, NEW of \in SUBSET fs, NEW chains \in SUBSET ChainSet, NEW reviews, NEW f \in Free(of, chains)
  PROVE  \E i \in IncidentsOf(of, chains, reviews) : i.kind # "chain" /\ f \in i.findings
<1>. DEFINE i == Home(f, of, chains, reviews)
<1>1. f \in of /\ chainMembership(f, chains) = {}
  BY DEF Free
<1>2. i \in IncidentsOf(of, chains, reviews) /\ f \in i.findings
  BY <1>1, HomeHolds
<1>. HIDE DEF i
<1>3. ASSUME NEW c \in chains, i = OfChain(c, of, chains, reviews) PROVE FALSE
  <2>1. i.findings = Linked(c, of, chains)
    BY <1>3, ChainSays
  <2>. QED BY <1>1, <1>2, <2>1 DEF Linked
<1>4. i.kind # "chain"
  BY <1>2, <1>3, OnlyChains DEF ChainOne
<1>. QED BY <1>2, <1>4

Printed(s) == selectForReport(fs, verdicts, s)
AllIncidents == IncidentsOf(fs, Chains, verdicts)
PrintedIncidents(s) == IncidentsOf(Printed(s).findings, Printed(s).chains, verdicts)

\* What the print settings choose.
LEMMA PrintedAre ==
  ASSUME NEW s
  PROVE  /\ Printed(s).chains \in SUBSET Chains /\ Printed(s).findings \in SUBSET fs
         /\ \A f \in Printed(s).findings :
               chainMembership(f, Chains) # {} => \E c \in Printed(s).chains : c.id \in chainMembership(f, Chains)
<1>. DEFINE chains == {c \in Chains : /\ s.chains /\ chainIncluded(verdicts[c.id])
                                       /\ AtLeast(chainSeverity(c, verdicts[c.id]), s.floor)}
<1>1. Printed(s) = [chains |-> chains, findings |-> {f \in fs : InReport(f, chains, s)}]
  BY DEF Printed, selectForReport, Selection
<1>2. chains \in SUBSET Chains
  OBVIOUS
<1>. HIDE DEF chains
<1>3. ASSUME NEW f, InReport(f, chains, s), chainMembership(f, Chains) # {}
      PROVE  \E c \in chains : c.id \in chainMembership(f, Chains)
  BY <1>3 DEF InReport
<1>. QED BY <1>1, <1>2, <1>3

\* What the report's data says, part by part.
LEMMA DataSays ==
  ASSUME NEW s
  PROVE  /\ ReportData(fs, verdicts, s).chains = Printed(s).chains
         /\ ReportData(fs, verdicts, s).findings = Printed(s).findings
         /\ ReportData(fs, verdicts, s).reviews = verdicts
         /\ ReportData(fs, verdicts, s).incidents = {i \in PrintedIncidents(s) : i.kind # "chain"}
         /\ ReportData(fs, verdicts, s).unprinted = unprintedConfirmed(AllIncidents, verdicts, Printed(s))
         /\ ReportData(fs, verdicts, s).stories = decidedStories(fs, s)
BY DEF ReportData, Page, Printed, AllIncidents, PrintedIncidents

Really ==
  \/ \E c \in Chains : verdicts[c.id].verdict = "confirmed"
  \/ \E i \in AllIncidents : i.kind # "chain" /\ i.status = "escalated"
  \/ \E st \in told : st.verdict = "confirmed"

Shows(d) == ConfirmedChains(d) # {} \/ Escalated(d) # {} \/ d.unprinted # {} \/ ConfirmedStories(d) # {}

\* A finding that no chain of the case takes, none of the printed ones takes; one that is printed with its
\* chain, one of the printed ones takes.
LEMMA TakenAsPrinted ==
  ASSUME NEW s, NEW f \in Printed(s).findings
  PROVE  chainMembership(f, Printed(s).chains) = {} <=> chainMembership(f, Chains) = {}
<1>. DEFINE chains == Printed(s).chains
<1>1. chains \in SUBSET Chains /\ Chains \in SUBSET ChainSet
  BY PrintedAre DEF Chains
<1>2. chainMembership(f, Chains) # {} => \E c \in chains : c.id \in chainMembership(f, Chains)
  BY PrintedAre
<1>. HIDE DEF chains
<1>3. \A c \in chains : c \in Takers(f, Chains) <=> c \in Takers(f, chains)
  BY <1>1 DEF Takers
<1>4. Takers(f, chains) \subseteq chains
  BY DEF Takers
<1>5. chains \in SUBSET ChainSet
  BY <1>1
<1>6. ASSUME chainMembership(f, Chains) = {} PROVE chainMembership(f, chains) = {}
  <2>1. Takers(f, Chains) = {}
    BY <1>1, <1>6, Membership
  <2>2. Takers(f, chains) = {}
    BY <1>3, <1>4, <2>1
  <2>. QED BY <1>5, <2>2, Membership
<1>7. ASSUME chainMembership(f, Chains) # {} PROVE chainMembership(f, chains) # {}
  <2>1. PICK c \in chains : c.id \in chainMembership(f, Chains)
    BY <1>2, <1>7
  <2>2. PICK t \in Takers(f, Chains) : t \in Chains /\ chainMembership(f, Chains) = {t.id}
    BY <1>1, <1>7, Membership
  <2>3. c = t
    BY <1>1, <2>1, <2>2, ChainsAssumption
  <2>4. Takers(f, chains) # {}
    BY <1>3, <2>1, <2>2, <2>3
  <2>. QED BY <1>5, <2>4, Membership
<1>. QED BY <1>6, <1>7 DEF chains

\* A chain has an incident: that of its own row at least.
LEMMA ChainHasOne ==
  ASSUME InTable, NEW c \in Chains
  PROVE  \E i \in AllIncidents : i.kind = "chain" /\ i.key = <<"chain", c.id>>
<1>. DEFINE i == OfChain(c, fs, Chains, verdicts)
<1>1. PICK n \in found : Facts[n].rule = "chain" /\ Facts[n].chain = c.id
  BY DEF Chains
<1>. DEFINE f == finding(n)
<1>2. f \in fs /\ f.rule = "chain" /\ f.chain = c.id
  BY <1>1 DEF fs, finding
<1>. HIDE DEF f
<1>3. c \in Takers(f, Chains)
  BY <1>2 DEF Takers
<1>4. \A d \in Takers(f, Chains) : d.id = c.id
  BY <1>2 DEF Takers
<1>5. chainMembership(f, Chains) = {c.id}
  <2>1. Chains \in SUBSET ChainSet
    BY DEF Chains
  <2>. QED BY <1>3, <1>4, <2>1, Membership
<1>6. Linked(c, fs, Chains) # {}
  BY <1>2, <1>5 DEF Linked
<1>7. ChainOne(i, fs, Chains, verdicts)
  BY <1>6 DEF ChainOne
<1>8. i \in AllIncidents
  BY <1>7, IncidentOnes DEF AllIncidents
<1>9. i.kind = "chain" /\ i.key = <<"chain", c.id>>
  BY ChainSays
<1>. QED BY <1>8, <1>9

\* What the report shows as confirmed is confirmed ...
LEMMA ShownIsConfirmed ==
  ASSUME InTable, NEW s, Shows(ReportData(fs, verdicts, s))
  PROVE  Really
<1>. DEFINE d == ReportData(fs, verdicts, s)
<1>0. Chains \in SUBSET ChainSet
  BY DEF Chains
<1>1. ASSUME NEW c \in ConfirmedChains(d) PROVE Really
  <2>1. c \in Chains /\ verdicts[c.id].verdict = "confirmed"
    BY DataSays, PrintedAre DEF ConfirmedChains
  <2>. QED BY <2>1 DEF Really
<1>2. ASSUME NEW i \in Escalated(d) PROVE Really
  <2>1. i \in PrintedIncidents(s) /\ i.kind # "chain" /\ i.status = "escalated"
    BY DataSays DEF Escalated
  <2>2. Printed(s).findings \in SUBSET fs /\ Printed(s).chains \in SUBSET ChainSet
    BY <1>0, PrintedAre
  <2>3. i.findings \subseteq Free(Printed(s).findings, Printed(s).chains) /\ i.status = deriveStatus(i.findings)
    BY <2>1, <2>2, FreeOnes DEF PrintedIncidents
  <2>4. PICK f \in i.findings : f.status = "escalated"
    BY <2>1, <2>3, EscalatedByOne
  <2>5. f \in Printed(s).findings /\ chainMembership(f, Printed(s).chains) = {}
    BY <2>3 DEF Free
  <2>6. f \in Free(fs, Chains)
    BY <2>2, <2>5, TakenAsPrinted DEF Free
  <2>7. PICK j \in AllIncidents : j.kind # "chain" /\ f \in j.findings
    BY <1>0, <2>6, FreeHomes DEF AllIncidents
  <2>8. j.status = deriveStatus(j.findings)
    BY <1>0, <2>7, FreeOnes DEF AllIncidents
  <2>9. j.status = "escalated"
    BY <2>4, <2>7, <2>8, EscalatedByOne
  <2>. QED BY <2>7, <2>9 DEF Really
<1>3. ASSUME NEW i \in d.unprinted PROVE Really
  <2>1. i \in AllIncidents /\ IF i.kind = "chain" THEN verdicts[i.key[2]].verdict = "confirmed" ELSE i.status = "escalated"
    BY DataSays DEF unprintedConfirmed
  <2>2. CASE i.kind = "chain"
    <3>1. PICK c \in Chains : i = OfChain(c, fs, Chains, verdicts)
      BY <2>1, <2>2, OnlyChains DEF ChainOne, AllIncidents
    <3>2. i.key[2] = c.id
      BY <3>1, ChainSays
    <3>. QED BY <2>1, <2>2, <3>2 DEF Really
  <2>3. CASE i.kind # "chain"
    BY <2>1, <2>3 DEF Really
  <2>. QED BY <2>2, <2>3
<1>4. ASSUME NEW x \in ConfirmedStories(d) PROVE Really
  <2>1. x \in decidedStories(fs, s) /\ x.verdict = "confirmed"
    BY DataSays DEF ConfirmedStories
  <2>2. PICK st \in told : x.verdict = st.verdict
    BY <2>1 DEF decidedStories
  <2>. QED BY <2>1, <2>2 DEF Really
<1>. QED BY <1>1, <1>2, <1>3, <1>4 DEF Shows

\* Findings decided as a whole have one status.
LEMMA OneStatus ==
  ASSUME InTable, Uniform, NEW i \in AllIncidents, i.kind # "chain", NEW f \in i.findings, NEW g \in i.findings
  PROVE  f.status = g.status
<1>. DEFINE statuses == {h.status : h \in i.findings}
<1>1. Cardinality(statuses) = 1
  BY DEF Uniform, AllIncidents
<1>2. IsFiniteSet(statuses)
  <2>. DEFINE status == [h \in i.findings |-> h.status]
  <2>1. DOMAIN status = i.findings /\ statuses = {status[h] : h \in i.findings}
    OBVIOUS
  <2>. HIDE DEF status, statuses
  <2>2. IsFiniteSet(i.findings)
    <3>1. Chains \in SUBSET ChainSet /\ fs \in SUBSET fs
      BY DEF Chains
    <3>2. i.findings \in SUBSET fs
      BY <3>1, HoldsOnce DEF AllIncidents
    <3>. QED BY <3>2, FindingsFinite, FS_Subset
  <2>. QED BY <2>1, <2>2, ImageFinite
<1>3. f.status \in statuses /\ g.status \in statuses
  OBVIOUS
<1>. HIDE DEF statuses
<1>4. PICK x : statuses = {x}
  BY <1>1, <1>2, FS_Singleton
<1>. QED BY <1>3, <1>4
\* ... and what is confirmed is shown, printed or not, when each incident is decided as a whole.
LEMMA ConfirmedIsShown ==
  ASSUME InTable, Uniform, NEW s, Really
  PROVE  Shows(ReportData(fs, verdicts, s))
<1>. DEFINE d == ReportData(fs, verdicts, s)
<1>0. Chains \in SUBSET ChainSet /\ Printed(s).chains \in SUBSET ChainSet
  BY PrintedAre DEF Chains
<1>1. ASSUME NEW c \in Chains, verdicts[c.id].verdict = "confirmed" PROVE Shows(d)
  <2>1. CASE c \in Printed(s).chains
    <3>1. c \in ConfirmedChains(d)
      BY <1>1, <2>1, DataSays DEF ConfirmedChains
    <3>. QED BY <3>1 DEF Shows
  <2>2. CASE c \notin Printed(s).chains
    <3>1. PICK i \in AllIncidents : i.kind = "chain" /\ i.key = <<"chain", c.id>>
      BY ChainHasOne
    <3>2. i.key[2] = c.id
      BY <3>1
    <3>3. c.id \notin {e.id : e \in Printed(s).chains}
      BY <1>0, <2>2, ChainsAssumption
    <3>4. i \in unprintedConfirmed(AllIncidents, verdicts, Printed(s))
      BY <1>1, <3>1, <3>2, <3>3 DEF unprintedConfirmed
    <3>5. i \in d.unprinted
      BY <3>4, DataSays
    <3>. QED BY <3>5 DEF Shows
  <2>. QED BY <2>1, <2>2
<1>2. ASSUME NEW i \in AllIncidents, i.kind # "chain", i.status = "escalated" PROVE Shows(d)
  <2>1. CASE i.findings \cap Printed(s).findings = {}
    <3>1. i \in unprintedConfirmed(AllIncidents, verdicts, Printed(s))
      BY <1>2, <2>1 DEF unprintedConfirmed
    <3>2. i \in d.unprinted
      BY <3>1, DataSays
    <3>. QED BY <3>2 DEF Shows
  <2>2. CASE i.findings \cap Printed(s).findings # {}
    <3>1. PICK f \in i.findings : f \in Printed(s).findings
      BY <2>2
    <3>2. i.findings \subseteq Free(fs, Chains) /\ i.status = deriveStatus(i.findings)
      BY <1>0, <1>2, FreeOnes DEF AllIncidents
    <3>3. PICK g \in i.findings : g.status = "escalated"
      BY <1>2, <3>2, EscalatedByOne
    <3>4. f.status = "escalated"
      BY <1>2, <3>1, <3>3, OneStatus
    <3>5. f \in Free(Printed(s).findings, Printed(s).chains)
      BY <3>1, <3>2, TakenAsPrinted DEF Free
    <3>6. Printed(s).findings \in SUBSET fs
      BY PrintedAre
    <3>7. PICK j \in PrintedIncidents(s) : j.kind # "chain" /\ f \in j.findings
      BY <1>0, <3>5, <3>6, FreeHomes DEF PrintedIncidents
    <3>8. j.status = "escalated"
      <4>1. j.status = deriveStatus(j.findings)
        BY <1>0, <3>6, <3>7, FreeOnes DEF PrintedIncidents
      <4>. QED BY <3>4, <3>7, <4>1, EscalatedByOne
    <3>9. j \in Escalated(d)
      BY <3>7, <3>8, DataSays DEF Escalated
    <3>. QED BY <3>9 DEF Shows
  <2>. QED BY <2>1, <2>2
<1>3. ASSUME NEW st \in told, st.verdict = "confirmed" PROVE Shows(d)
  <2>. DEFINE row(t) == [verdict |-> t.verdict, severity |-> t.severity,
                         findings |-> {f \in fs : f.id \in t.findings /\ f.status # "false_positive"},
                         printed |-> t.verdict \notin {"benign", "false_positive"} /\ AtLeast(t.severity, s.floor)]
  <2>a. decidedStories(fs, s) = {row(t) : t \in told} /\ row(st).verdict = st.verdict
    BY DEF decidedStories
  <2>. HIDE DEF row
  <2>1. \E x \in decidedStories(fs, s) : x.verdict = st.verdict
    BY <2>a
  <2>2. ConfirmedStories(d) # {}
    BY <1>3, <2>1, DataSays DEF ConfirmedStories
  <2>. QED BY <2>2 DEF Shows
<1>. QED BY <1>1, <1>2, <1>3 DEF Really

\* Two finite sets and a third count more than nothing when one of them is not empty.
LEMMA CountShows ==
  ASSUME NEW A, IsFiniteSet(A), NEW B, IsFiniteSet(B), NEW C, IsFiniteSet(C)
  PROVE  Cardinality(A) + Cardinality(B) + Cardinality(C) > 0 <=> A # {} \/ B # {} \/ C # {}
<1>1. Cardinality(A) \in Nat /\ Cardinality(B) \in Nat /\ Cardinality(C) \in Nat
  BY FS_CardinalityType
<1>2. (Cardinality(A) = 0 <=> A = {}) /\ (Cardinality(B) = 0 <=> B = {}) /\ (Cardinality(C) = 0 <=> C = {})
  BY FS_EmptySet
<1>. QED BY <1>1, <1>2

\* The verdict counts what the report shows as confirmed.
LEMMA VerdictCounts ==
  ASSUME InTable, told \subseteq StorySet, NEW s
  PROVE  VerdictUnder(s).confirmed > 0 <=> Shows(ReportData(fs, verdicts, s))
<1>. DEFINE d == ReportData(fs, verdicts, s)
            shown == Escalated(d) \cup d.unprinted
<1>0. Chains \in SUBSET ChainSet /\ fs \in SUBSET fs
  BY DEF Chains
<1>1. IsFiniteSet(ConfirmedChains(d))
  <2>1. ConfirmedChains(d) \in SUBSET ChainSet
    BY <1>0, DataSays, PrintedAre DEF ConfirmedChains
  <2>. QED BY <2>1, ChainsAssumption, FS_Subset
<1>2. IsFiniteSet(Escalated(d)) /\ IsFiniteSet(d.unprinted)
  <2>1. Escalated(d) \in SUBSET PrintedIncidents(s) /\ d.unprinted \in SUBSET AllIncidents
    BY DataSays DEF Escalated, unprintedConfirmed
  <2>2. Printed(s).findings \in SUBSET fs /\ Printed(s).chains \in SUBSET ChainSet
    BY <1>0, PrintedAre
  <2>3. IsFiniteSet(PrintedIncidents(s)) /\ IsFiniteSet(AllIncidents)
    BY <1>0, <2>2, IncidentsFinite DEF PrintedIncidents, AllIncidents
  <2>. QED BY <2>1, <2>3, FS_Subset
<1>3. IsFiniteSet(shown)
  BY <1>2, FS_Union
<1>4. IsFiniteSet(ConfirmedStories(d))
  <2>. DEFINE row == [t \in told |-> [verdict |-> t.verdict, severity |-> t.severity,
                       findings |-> {f \in fs : f.id \in t.findings /\ f.status # "false_positive"},
                       printed |-> t.verdict \notin {"benign", "false_positive"} /\ AtLeast(t.severity, s.floor)]]
  <2>1. decidedStories(fs, s) = {row[t] : t \in told}
    BY DEF decidedStories
  <2>2. DOMAIN row = told
    OBVIOUS
  <2>. HIDE DEF row
  <2>3. IsFiniteSet(told)
    BY ChoicesAssumption, FS_Subset
  <2>4. IsFiniteSet(decidedStories(fs, s))
    BY <2>1, <2>2, <2>3, ImageFinite
  <2>5. ConfirmedStories(d) \in SUBSET decidedStories(fs, s)
    BY DataSays DEF ConfirmedStories
  <2>. QED BY <2>4, <2>5, FS_Subset
<1>5. VerdictUnder(s).confirmed = Cardinality(ConfirmedChains(d)) + Cardinality(shown) + Cardinality(ConfirmedStories(d))
  BY DEF VerdictUnder, computeVerdict, Verdict
<1>6. shown # {} <=> Escalated(d) # {} \/ d.unprinted # {}
  OBVIOUS
<1>. HIDE DEF d, shown
<1>7. VerdictUnder(s).confirmed > 0 <=> ConfirmedChains(d) # {} \/ shown # {} \/ ConfirmedStories(d) # {}
  BY <1>1, <1>3, <1>4, <1>5, CountShows
<1>. QED BY <1>6, <1>7 DEF Shows, d

\* With every incident decided as a whole the verdict confirms what is confirmed, whatever is printed.
LEMMA SameVerdict ==
  ASSUME InTable, told \subseteq StorySet
  PROVE  ConfirmedStaysConfirmed
<1>. SUFFICES ASSUME Uniform PROVE Cardinality({VerdictUnder(s).confirmed > 0 : s \in Settings}) = 1
  BY DEF ConfirmedStaysConfirmed
<1>1. ASSUME NEW s PROVE (VerdictUnder(s).confirmed > 0) = Really
  <2>1. VerdictUnder(s).confirmed > 0 <=> Really
    BY VerdictCounts, ShownIsConfirmed, ConfirmedIsShown
  <2>2. Really \in BOOLEAN /\ (VerdictUnder(s).confirmed > 0) \in BOOLEAN
    BY DEF Really
  <2>. QED BY <2>1, <2>2
<1>2. Settings # {}
  BY ChoicesAssumption
<1>3. {VerdictUnder(s).confirmed > 0 : s \in Settings} = {Really}
  BY <1>1, <1>2
<1>. QED BY <1>3, FS_Singleton

-----------------------------------------------------------------------------
(* The cover *)

\* A printed finding that is escalated outside a chain has its tactic confirmed.
LEMMA TacticConfirmed ==
  ASSUME InTable, NEW s, NEW f \in Printed(s).findings, f.status = "escalated", chainMembership(f, Printed(s).chains) = {}
  PROVE  threatProfile(ReportData(fs, verdicts, s))[f.phase] = "confirmed"
<1>. DEFINE d == ReportData(fs, verdicts, s)
            printed == {g \in d.findings : g.status # "false_positive"}
            mine == {g \in printed : g.phase = f.phase}
            sure == UNION ({i.findings : i \in Escalated(d)} \cup {MembersIn(d, c) : c \in ConfirmedChains(d)}
                            \cup {st.findings : st \in ConfirmedStories(d)})
            chained == f.phase = "initial-access" /\ ConfirmedChains(d) # {}
<1>1. Printed(s).findings \in SUBSET fs /\ Printed(s).chains \in SUBSET ChainSet
  BY PrintedAre DEF Chains
<1>2. f \in Free(Printed(s).findings, Printed(s).chains)
  BY DEF Free
<1>3. PICK i \in PrintedIncidents(s) : i.kind # "chain" /\ f \in i.findings
  BY <1>1, <1>2, FreeHomes DEF PrintedIncidents
<1>4. i.status = deriveStatus(i.findings)
  BY <1>1, <1>3, FreeOnes DEF PrintedIncidents
<1>5. i.status = "escalated"
  BY <1>3, <1>4, EscalatedByOne
<1>6. i \in Escalated(d)
  BY <1>3, <1>5, DataSays DEF Escalated
<1>7. f \in mine
  BY DataSays
<1>8. f \in sure
  BY <1>3, <1>6
<1>9. f.phase \in {g.phase : g \in fs}
  BY <1>1
<1>10. threatProfile(d)[f.phase] = Badge(mine, sure, chained)
  BY <1>9 DEF threatProfile
<1>. HIDE DEF mine, sure, chained
<1>11. mine \cap sure # {}
  BY <1>7, <1>8
<1>12. Badge(mine, sure, chained) = "confirmed"
  BY <1>11 DEF Badge
<1>. QED BY <1>10, <1>12

\* When no incident and no chain is undecided, the report counts none.
LEMMA NothingUndecided ==
  ASSUME InTable, NEW s, UndecidedIncidents(AllIncidents, verdicts) = {}
  PROVE  ReportData(fs, verdicts, s).undecided = 0
<1>. DEFINE queue == reviewQueue(AllIncidents, Chains, verdicts)
            todo == {it \in queue : ~it.done}
<1>1. ReportData(fs, verdicts, s).undecided = Cardinality(todo)
  BY DEF ReportData, Page, Rail, AllIncidents
<1>2. ASSUME NEW c \in Chains PROVE verdicts[c.id].verdict # "none"
  <2>1. PICK i \in AllIncidents : i.kind = "chain" /\ i.key = <<"chain", c.id>>
    BY ChainHasOne
  <2>2. i.key[2] = c.id
    BY <2>1
  <2>3. i \notin UndecidedIncidents(AllIncidents, verdicts)
    OBVIOUS
  <2>. QED BY <2>1, <2>2, <2>3 DEF UndecidedIncidents
<1>3. ASSUME NEW i \in AllIncidents, i.kind # "chain" PROVE i.status # "new"
  BY <1>3 DEF UndecidedIncidents
<1>. DEFINE ofChain(c) == Item("chain", <<"chain", c.id>>, chainSeverity(c, verdicts[c.id]), verdicts[c.id].verdict # "none",
                               UNION {i.findings : i \in {j \in AllIncidents : j.key = <<"chain", c.id>>}})
            ofOther(i) == Item("incident", i.key, i.severity, i.status # "new", i.findings)
<1>4. queue = {ofChain(c) : c \in Chains} \cup {ofOther(i) : i \in {j \in AllIncidents : j.kind # "chain"}}
  BY DEF reviewQueue
<1>5. \A c : ofChain(c).done = (verdicts[c.id].verdict # "none")
  BY DEF Item
<1>6. \A i : ofOther(i).done = (i.status # "new")
  BY DEF Item
<1>. HIDE DEF ofChain, ofOther
<1>7. \A it \in queue : it.done
  BY <1>2, <1>3, <1>4, <1>5, <1>6
<1>8. todo = {}
  BY <1>7
<1>. QED BY <1>1, <1>8, FS_EmptySet

\* A report whose checks all pass is one to be trusted.
LEMMA AllPassIsHigh ==
  ASSUME InTable, NEW s, preflightChecks(fs, verdicts, ReportData(fs, verdicts, s)) = {}
  PROVE  computeConfidence(ReportData(fs, verdicts, s)) = "high"
<1>. DEFINE d == ReportData(fs, verdicts, s)
            undecided == UndecidedIncidents(AllIncidents, verdicts)
<1>1. preflightChecks(fs, verdicts, d) = {id \in Checks : Failing(id, d, fs, undecided)}
  BY DEF preflightChecks, AllIncidents
<1>. HIDE DEF undecided, d
<1>2. \A id \in Checks : ~Failing(id, d, fs, undecided)
  BY <1>1 DEF d
<1>3. ~Failing("rules", d, fs, undecided) /\ ~Failing("read", d, fs, undecided)
      /\ ~Failing("integrity", d, fs, undecided) /\ ~Failing("decided", d, fs, undecided)
  BY <1>2 DEF Checks
<1>4. lastRun.ran /\ ~lastRun.errors /\ evidenceAfter = {} /\ Incomplete = {} /\ Unverified = {} /\ undecided = {}
  BY <1>3 DEF Failing
<1>5. d.undecided = 0
  BY <1>4, NothingUndecided DEF undecided, d
<1>. DEFINE judged == {c \in d.chains : d.reviews[c.id].verdict # "none"}
            handled == {i \in d.incidents : i.status # "new"}
            done == Cardinality(judged) + Cardinality(handled)
<1>6. IsFiniteSet(judged) /\ IsFiniteSet(handled)
  <2>1. Printed(s).findings \in SUBSET fs /\ Printed(s).chains \in SUBSET ChainSet
    BY PrintedAre DEF Chains
  <2>2. judged \in SUBSET ChainSet /\ handled \in SUBSET PrintedIncidents(s)
    BY <2>1, DataSays DEF d
  <2>3. IsFiniteSet(PrintedIncidents(s))
    BY <2>1, IncidentsFinite DEF PrintedIncidents
  <2>. HIDE DEF judged, handled
  <2>. QED BY <2>2, <2>3, ChainsAssumption, FS_Subset
<1>7. computeConfidence(d) = Confidence(done, done + d.undecided,
                                        Incomplete = {} /\ lastRun.ran /\ evidenceAfter = {} /\ ~lastRun.errors)
  BY DEF computeConfidence
<1>. HIDE DEF judged, handled
<1>8. done \in Nat
  BY <1>6, FS_CardinalityType
<1>. HIDE DEF done
<1>9. 100 * done >= 95 * (done + d.undecided)
  BY <1>5, <1>8
<1>10. Confidence(done, done + d.undecided, Incomplete = {} /\ lastRun.ran /\ evidenceAfter = {} /\ ~lastRun.errors) = "high"
  BY <1>4, <1>9 DEF Confidence
<1>. QED BY <1>7, <1>10 DEF d

\* What the cover says agrees with the decisions and the checks.
LEMMA CoverHolds == InTable => CoverAgrees
<1>. SUFFICES ASSUME InTable PROVE CoverAgrees
  OBVIOUS
<1>. DEFINE d == ReportData(fs, verdicts, print)
<1>1. ASSUME NEW f \in d.findings, f.status = "escalated", chainMembership(f, d.chains) = {}
      PROVE  threatProfile(d)[f.phase] = "confirmed"
  BY <1>1, TacticConfirmed, DataSays
<1>2. preflightChecks(fs, verdicts, d) = {} => computeConfidence(d) = "high"
  BY AllPassIsHigh
<1>. HIDE DEF d
<1>3. CoverOf(d, threatProfile(d))
  BY <1>1, <1>2 DEF CoverOf
<1>. QED BY <1>3 DEF CoverAgrees, d

-----------------------------------------------------------------------------
(* What a mark takes from the scores *)

Marked(g) == [g EXCEPT !.status = "false_positive", !.by = "analyst", !.at = decisions + 1]
Dismissing(g) == (fs \ {g}) \cup {Marked(g)}

\* What a rule says of a finding, whatever was decided.
Same(x, y) ==
  /\ x.id = y.id /\ x.rule = y.rule /\ x.ts = y.ts /\ x.tsEnd = y.tsEnd /\ x.folded = y.folded /\ x.user = y.user
  /\ x.host = y.host /\ x.ip = y.ip /\ x.what = y.what /\ x.phase = y.phase
Alike(A, B) == (\A x \in A : \E y \in B : Same(x, y)) /\ (\A y \in B : \E x \in A : Same(x, y))

\* Marking a finding changes what was decided, not what its rule says.
LEMMA MarkedSays ==
  ASSUME InTable, NEW g \in fs
  PROVE  /\ Same(Marked(g), g)
         /\ Marked(g).status = "false_positive" /\ Marked(g).by = "analyst" /\ Marked(g).at = decisions + 1
<1>. DEFINE fp == "false_positive"
            analyst == "analyst"
            now == decisions + 1
            x == [g EXCEPT !.status = fp]
            y == [x EXCEPT !.by = analyst]
            z == [y EXCEPT !.at = now]
            fields == {"id", "rule", "ts", "tsEnd", "folded", "user", "host", "ip", "what", "phase"}
<1>1. Marked(g) = z
  BY DEF Marked
<1>2. fields \cup {"status", "by", "at"} \subseteq DOMAIN g
  <2>1. g = finding(g.id)
    BY FieldsOf
  <2>. QED BY <2>1 DEF finding
<1>. HIDE DEF fp, analyst, now
<1>3. x.status = fp /\ DOMAIN x = DOMAIN g /\ \A k \in fields : x[k] = g[k]
  BY <1>2
<1>. HIDE DEF x
<1>4. y.by = analyst /\ y.status = x.status /\ DOMAIN y = DOMAIN x /\ \A k \in fields : y[k] = x[k]
  BY <1>2, <1>3
<1>. HIDE DEF y
<1>5. z.at = now /\ z.by = y.by /\ z.status = y.status /\ \A k \in fields : z[k] = y[k]
  BY <1>2, <1>3, <1>4
<1>. HIDE DEF z
<1>6. \A k \in fields : z[k] = g[k]
  BY <1>3, <1>4, <1>5
<1>7. Same(z, g)
  BY <1>6 DEF Same
<1>. QED BY <1>1, <1>3, <1>4, <1>5, <1>7 DEF fp, analyst, now

\* The findings with one of them marked are those without it, and it.
LEMMA Counterparts ==
  ASSUME InTable, NEW g \in fs
  PROVE  /\ \A x \in Dismissing(g) : \E y \in fs : Same(x, y)
         /\ \A y \in fs : \E x \in Dismissing(g) : Same(x, y)
<1>1. Same(Marked(g), g)
  BY MarkedSays
<1>2. \A x : Same(x, x)
  BY DEF Same
<1>. QED BY <1>1, <1>2 DEF Dismissing

\* The findings of any rule but the chains', and those of one rule, say the same before and after.
LEMMA RuledAlike ==
  ASSUME InTable, NEW g \in fs
  PROVE  /\ Alike(Ruled(Dismissing(g)), Ruled(fs))
         /\ \A r : Alike({x \in Ruled(Dismissing(g)) : x.rule = r}, {x \in Ruled(fs) : x.rule = r})
<1>1. \A x, y : Same(x, y) => x.rule = y.rule
  BY DEF Same
<1>2. \A x : x \in Ruled(Dismissing(g)) <=> x \in Dismissing(g) /\ x.rule # "chain"
  BY DEF Ruled
<1>3. \A x : x \in Ruled(fs) <=> x \in fs /\ x.rule # "chain"
  BY DEF Ruled
<1>4. Alike(Ruled(Dismissing(g)), Ruled(fs))
  BY <1>1, <1>2, <1>3, Counterparts DEF Alike
<1>5. ASSUME NEW r PROVE Alike({x \in Ruled(Dismissing(g)) : x.rule = r}, {x \in Ruled(fs) : x.rule = r})
  BY <1>1, <1>4 DEF Alike
<1>. QED BY <1>4, <1>5

\* What counts places and persons counts the same.
LEMMA AlikeCount ==
  ASSUME NEW A, NEW B, Alike(A, B)
  PROVE  /\ HostsOf(A) = HostsOf(B) /\ UsersOf(A) = UsersOf(B)
         /\ UNION {StandsFor(x) : x \in A} = UNION {StandsFor(x) : x \in B}
<1>1. \A x, y : Same(x, y) => x.host = y.host /\ usersOf(x) = usersOf(y) /\ StandsFor(x) = StandsFor(y)
  BY DEF Same, usersOf, StandsFor
<1>2. \A h : (\E x \in A : h = x.host) <=> \E x \in B : h = x.host
  BY <1>1 DEF Alike
<1>3. \A h : (\E x \in A : h \in usersOf(x)) <=> \E x \in B : h \in usersOf(x)
  BY <1>1 DEF Alike
<1>4. \A p : (\E x \in A : p \in StandsFor(x)) <=> \E x \in B : p \in StandsFor(x)
  BY <1>1 DEF Alike
<1>7. HostsOf(A) = HostsOf(B)
  BY <1>2, Zenon DEF HostsOf
<1>5. UsersOf(A) = UsersOf(B)
  BY <1>3, Zenon DEF UsersOf
<1>6. UNION {StandsFor(x) : x \in A} = UNION {StandsFor(x) : x \in B}
  BY <1>4, Zenon
<1>. QED BY <1>5, <1>6, <1>7

\* A mark leaves the weight of the others.
LEMMA WeightStays ==
  ASSUME InTable, NEW g \in fs, NEW f
  PROVE  Weight(f, Dismissing(g)) = Weight(f, fs)
<1>. DEFINE A == Ruled(Dismissing(g))
            B == Ruled(fs)
            Ar == {x \in A : x.rule = f.rule}
            Br == {x \in B : x.rule = f.rule}
<1>1. Alike(A, B) /\ Alike(Ar, Br)
  BY RuledAlike
<1>. DEFINE rarity(hostsR, hosts, usersR, users) ==
              IF f.rule = "chain" THEN 100
              ELSE IF f.host # "" THEN RarityOf(Cardinality(hostsR), Cardinality(hosts))
              ELSE IF usersOf(f) # {} THEN RarityOf(Cardinality(usersR), Cardinality(users))
              ELSE 100
<1>2. RarityAmong(f, A) = rarity(HostsOf(Ar), HostsOf(A), UsersOf(Ar), UsersOf(A))
  BY Zenon DEF RarityAmong
<1>3. RarityAmong(f, B) = rarity(HostsOf(Br), HostsOf(B), UsersOf(Br), UsersOf(B))
  BY Zenon DEF RarityAmong
<1>. HIDE DEF rarity
<1>. HIDE DEF A, B, Ar, Br
<1>4. HostsOf(A) = HostsOf(B) /\ UsersOf(A) = UsersOf(B) /\ HostsOf(Ar) = HostsOf(Br) /\ UsersOf(Ar) = UsersOf(Br)
  BY <1>1, AlikeCount
<1>5. RarityAmong(f, A) = RarityAmong(f, B)
  BY <1>2, <1>3, <1>4
<1>6. Rarity(f, Dismissing(g)) = Rarity(f, fs)
  BY <1>5 DEF Rarity, A, B
<1>. QED BY <1>6 DEF Weight

\* It leaves how often the rule fired in one place.
LEMMA RepeatsStay ==
  ASSUME InTable, NEW g \in fs, NEW f
  PROVE  Repeats(f, Dismissing(g)) = Repeats(f, fs)
<1>. DEFINE A == {h \in Ruled(Dismissing(g)) : h.rule = f.rule /\ Where(h) = Where(f)}
            B == {h \in Ruled(fs) : h.rule = f.rule /\ Where(h) = Where(f)}
<1>1. Alike(Ruled(Dismissing(g)), Ruled(fs))
  BY RuledAlike
<1>2. \A x, y : Same(x, y) => x.rule = y.rule /\ Where(x) = Where(y)
  BY DEF Same, Where, usersOf
<1>3. Alike(A, B)
  BY <1>1, <1>2 DEF Alike
<1>. DEFINE repeats(places) == IF f.rule = "chain" \/ Where(f) = <<"", {}>> THEN 1
                               ELSE Lesser(Cardinality(places), Len(LogPercent))
<1>4. Repeats(f, Dismissing(g)) = repeats(UNION {StandsFor(x) : x \in A})
  BY Zenon DEF Repeats
<1>5. Repeats(f, fs) = repeats(UNION {StandsFor(x) : x \in B})
  BY Zenon DEF Repeats
<1>. HIDE DEF repeats
<1>. HIDE DEF A, B
<1>6. UNION {StandsFor(x) : x \in A} = UNION {StandsFor(x) : x \in B}
  BY <1>3, AlikeCount
<1>. QED BY <1>4, <1>5, <1>6

\* What the review's decisions are: at a time that is past, of a severity there is.
Past == \A f \in fs : f.at \in 0 .. decisions /\ f.over \in Range(ORDER) \cup {"none"}

\* A share of some points is a number of points, and so is a rarity.
LEMMA PercentIs ==
  ASSUME NEW x \in Nat, NEW p \in Nat
  PROVE  Percent(x, p) \in Nat
<1>1. x * p \in Nat
  OBVIOUS
<1>. QED BY <1>1 DEF Percent

\* How rare a place is weighs something or nothing.
LEMMA RarityIs ==
  ASSUME NEW seen \in Nat, NEW all \in Nat
  PROVE  RarityOf(seen, all) \in Nat
<1>1. CASE all < 3 \/ seen = 0
  BY <1>1 DEF RarityOf
<1>2. CASE all >= 3 /\ seen = 1
  BY <1>2 DEF RarityOf
<1>3. CASE all >= 3 /\ seen > 1 /\ 2 * seen >= all
  BY <1>3 DEF RarityOf
<1>4. CASE all >= 3 /\ seen > 1 /\ ~(2 * seen >= all)
  BY <1>4 DEF RarityOf
<1>. QED BY <1>1, <1>2, <1>3, <1>4

\* The hosts and the users of finitely many findings are finitely many.
LEMMA PlacesFinite ==
  ASSUME NEW A, IsFiniteSet(A)
  PROVE  Cardinality(HostsOf(A)) \in Nat /\ Cardinality(UsersOf(A)) \in Nat
<1>. DEFINE host == [f \in A |-> f.host]
            name == [f \in A |-> f.user.name]
            hosts == {host[f] : f \in A}
            names == {name[f] : f \in A}
<1>1. DOMAIN host = A /\ DOMAIN name = A
  OBVIOUS
<1>2. HostsOf(A) \in SUBSET hosts
  BY Zenon DEF HostsOf
<1>3. UsersOf(A) \in SUBSET names
  <2>1. \A f \in A : usersOf(f) \subseteq {name[f]}
    BY DEF usersOf, userKey
  <2>2. ASSUME NEW h \in UsersOf(A) PROVE h \in names
    <3>1. PICK f \in A : h \in usersOf(f)
      BY Zenon DEF UsersOf
    <3>. QED BY <2>1, <3>1
  <2>. QED BY <2>2
<1>. HIDE DEF host, name
<1>4. IsFiniteSet(hosts) /\ IsFiniteSet(names)
  BY <1>1, ImageFinite
<1>. HIDE DEF hosts, names
<1>5. IsFiniteSet(HostsOf(A)) /\ IsFiniteSet(UsersOf(A))
  BY <1>2, <1>3, <1>4, FS_Subset
<1>. QED BY <1>5, FS_CardinalityType

\* A weight is a number of points, none of them owed.
LEMMA WeightIs ==
  ASSUME InTable, Past, NEW f \in fs
  PROVE  Weight(f, fs) \in Nat
<1>. DEFINE i == f.id
            points == SeverityPoints[effectiveSeverity(f)]
            conf == ConfidencePercent[f.conf]
            trust == IF f.rule = "chain" THEN 100 ELSE Trust[f.rule]
<1>1. i \in DOMAIN Facts /\ f = finding(i)
  BY FieldsOf
<1>2. f.sev = Facts[i].sev /\ f.conf = Facts[i].conf /\ f.rule = Facts[i].rule
  BY <1>1 DEF finding
<1>3. f.sev \in Range(ORDER) /\ f.conf \in DOMAIN ConfidencePercent /\ (f.rule = "chain" \/ f.rule \in DOMAIN Trust)
  BY <1>1, <1>2, FactsAssumption
<1>4. points \in Nat
  <2>1. effectiveSeverity(f) \in Range(ORDER)
    BY <1>3 DEF Past, effectiveSeverity
  <2>2. Range(ORDER) = {"critical", "high", "medium", "low", "info"}
    BY DEF Range, ORDER
  <2>. QED BY <2>1, <2>2 DEF SeverityPoints
<1>5. conf \in Nat
  BY <1>3 DEF ConfidencePercent
<1>6. trust \in Nat
  BY <1>3, TrustAssumption
<1>7. Rarity(f, fs) \in Nat
  <2>. DEFINE all == Ruled(fs)
              of == {x \in all : x.rule = f.rule}
  <2>1. IsFiniteSet(all) /\ IsFiniteSet(of)
    <3>1. all \in SUBSET fs /\ of \in SUBSET fs
      BY DEF Ruled
    <3>. HIDE DEF all, of
    <3>. QED BY <3>1, FindingsFinite, FS_Subset
  <2>. DEFINE rarity(hostsR, hosts, usersR, users) ==
                IF f.rule = "chain" THEN 100
                ELSE IF f.host # "" THEN RarityOf(hostsR, hosts)
                ELSE IF usersOf(f) # {} THEN RarityOf(usersR, users)
                ELSE 100
  <2>2. Rarity(f, fs) = rarity(Cardinality(HostsOf(of)), Cardinality(HostsOf(all)),
                               Cardinality(UsersOf(of)), Cardinality(UsersOf(all)))
    BY Zenon DEF Rarity, RarityAmong
  <2>. HIDE DEF all, of
  <2>3. \A m, n \in Nat : RarityOf(m, n) \in Nat
    BY RarityIs
  <2>4. 100 \in Nat
    OBVIOUS
  <2>5. \A hostsR, hosts, usersR, users \in Nat : rarity(hostsR, hosts, usersR, users) \in Nat
    BY <2>3, <2>4, Zenon
  <2>. HIDE DEF rarity
  <2>6. /\ Cardinality(HostsOf(of)) \in Nat /\ Cardinality(HostsOf(all)) \in Nat
        /\ Cardinality(UsersOf(of)) \in Nat /\ Cardinality(UsersOf(all)) \in Nat
    BY <2>1, PlacesFinite
  <2>. QED BY <2>2, <2>5, <2>6
<1>. DEFINE a == 1000 * points
            b == Percent(a, conf)
            c == Percent(b, trust)
<1>8. Weight(f, fs) = Percent(c, Rarity(f, fs))
  BY DEF Weight
<1>9. a \in Nat
  BY <1>4
<1>. HIDE DEF points, conf, trust, a
<1>10. b \in Nat
  BY <1>5, <1>9, PercentIs
<1>. HIDE DEF b
<1>11. c \in Nat
  BY <1>6, <1>10, PercentIs
<1>. HIDE DEF c
<1>. QED BY <1>7, <1>8, <1>11, PercentIs

\* A finding counts at least itself in its place.
LEMMA RepeatsIs ==
  ASSUME InTable, NEW f \in fs
  PROVE  Repeats(f, fs) \in 1 .. 8
<1>. DEFINE those == {h \in Ruled(fs) : h.rule = f.rule /\ Where(h) = Where(f)}
            stood == [h \in those |-> StandsFor(h)]
            stands == {stood[h] : h \in those}
            all == UNION stands
            repeats(n) == IF f.rule = "chain" \/ Where(f) = <<"", {}>> THEN 1 ELSE Lesser(n, Len(LogPercent))
<1>1. Repeats(f, fs) = repeats(Cardinality(all))
  <2>1. all = UNION {StandsFor(h) : h \in those}
    OBVIOUS
  <2>. HIDE DEF all
  <2>. QED BY <2>1, Zenon DEF Repeats
<1>2. ASSUME NEW h \in fs PROVE IsFiniteSet(StandsFor(h)) /\ <<h.id, 1>> \in StandsFor(h)
  <2>1. h.folded \in Nat \ {0}
    <3>1. h.id \in DOMAIN Facts /\ h = finding(h.id)
      BY FieldsOf
    <3>2. h.folded = Facts[h.id].folded
      BY <3>1 DEF finding
    <3>. QED BY <3>1, <3>2, FactsAssumption
  <2>2. IsFiniteSet({h.id}) /\ IsFiniteSet(1 .. h.folded)
    <3>. DEFINE n == h.folded
    <3>1. n \in Int
      BY <2>1
    <3>. HIDE DEF n
    <3>2. IsFiniteSet(1 .. n)
      BY <3>1, FS_Interval
    <3>. QED BY <3>2, FS_Singleton DEF n
  <2>. DEFINE steps == 1 .. h.folded
  <2>3. StandsFor(h) = {h.id} \X steps /\ 1 \in steps
    BY <2>1 DEF StandsFor
  <2>. HIDE DEF steps
  <2>4. IsFiniteSet({h.id} \X steps)
    BY <2>2, FS_Product DEF steps
  <2>. QED BY <2>3, <2>4
<1>3. those \in SUBSET fs
  BY DEF Ruled
<1>4. IsFiniteSet(all)
  <2>1. IsFiniteSet(those) /\ DOMAIN stood = those
    <3>. HIDE DEF those
    <3>. QED BY <1>3, FindingsFinite, FS_Subset
  <2>2. \A s \in stands : IsFiniteSet(s)
    BY <1>2, <1>3
  <2>. HIDE DEF stood
  <2>3. IsFiniteSet(stands)
    BY <2>1, ImageFinite
  <2>. HIDE DEF stands
  <2>. QED BY <2>2, <2>3, FS_UNION
<1>5. f.rule # "chain" => all # {}
  <2>. SUFFICES ASSUME f.rule # "chain" PROVE all # {}
    OBVIOUS
  <2>1. f \in those
    BY DEF Ruled
  <2>2. StandsFor(f) \in stands
    BY <2>1
  <2>. HIDE DEF stands
  <2>. QED BY <1>2, <2>2
<1>. HIDE DEF all
<1>6. Cardinality(all) \in Nat /\ (all # {} => Cardinality(all) >= 1)
  BY <1>4, FS_CardinalityType, FS_EmptySet
<1>7. Len(LogPercent) = 8
  BY DEF LogPercent
<1>8. \A n \in Nat : n >= 1 => Lesser(n, Len(LogPercent)) \in 1 .. 8
  BY <1>7 DEF Lesser
<1>9. 1 \in 1 .. 8
  OBVIOUS
<1>10. \A n \in Nat : (f.rule # "chain" => n >= 1) => repeats(n) \in 1 .. 8
  BY <1>8, <1>9, Zenon
<1>. HIDE DEF repeats
<1>. QED BY <1>1, <1>5, <1>6, <1>10

\* The points before what the others say of a finding.
LEMMA PointsAre ==
  ASSUME NEW w \in Nat, NEW n \in 1 .. 8
  PROVE  (w * 100) \div LogPercent[n] \in Nat
<1>1. LogPercent[n] \in 1 .. 400
  BY DEF LogPercent
<1>. DEFINE m == LogPercent[n]
<1>2. m \in Nat /\ m > 0
  BY <1>1
<1>. HIDE DEF m
<1>. QED BY <1>2 DEF m

\* One of the findings speaks for them.
LEMMA SpeakerIs ==
  ASSUME InTable, NEW of \in SUBSET fs, of # {}, NEW f
  PROVE  Speaker(f, of) \in of
<1>1. ASSUME NEW some \in SUBSET of, some # {} PROVE Ranked(some, ByTime) \in some
  <2>1. some \in SUBSET fs
    OBVIOUS
  <2>2. InTimes(some)
    BY <2>1, FindingsFinite, FS_Subset, FieldsOf, OneById DEF InTimes
  <2>3. PICK x \in some : \A y \in some \ {x} : ByTime(x, y)
    BY <1>1, <2>2, Earliest
  <2>. QED BY <2>3 DEF Ranked
<1>. DEFINE on == {g \in of : g.host # "" /\ g.host = f.host}
<1>2. on \in SUBSET of /\ of \in SUBSET of
  OBVIOUS
<1>3. Speaker(f, of) = Ranked(IF on # {} THEN on ELSE of, ByTime)
  BY Zenon DEF Speaker
<1>. HIDE DEF on
<1>. QED BY <1>1, <1>2, <1>3

\* A finding's phase is its rule's.
LEMMA PhaseOfRule ==
  ASSUME InTable, NEW x \in fs, NEW y \in fs, x.rule = y.rule, x.rule # "chain"
  PROVE  x.phase = y.phase
<1>1. x = finding(x.id) /\ x.id \in DOMAIN Facts /\ y = finding(y.id) /\ y.id \in DOMAIN Facts
  BY FieldsOf
<1>2. x.rule = Facts[x.id].rule /\ x.phase = Facts[x.id].phase /\ y.rule = Facts[y.id].rule /\ y.phase = Facts[y.id].phase
  BY <1>1 DEF finding
<1>. QED BY <1>1, <1>2, FactsAssumption

OfRule(r, around) == {g \in around : g.rule = r}
RulesIn(around) == {g.rule : g \in around}
PhasesIn(f, around) == {Speaker(f, OfRule(r, around)).phase : r \in RulesIn(around)} \ {"none", f.phase}

\* Of fewer findings speak no more rules and no more phases.
LEMMA FewerVoices ==
  ASSUME InTable, NEW f, NEW A \in SUBSET Ruled(fs), NEW B \in SUBSET A
  PROVE  /\ RulesIn(B) \in SUBSET RulesIn(A) /\ PhasesIn(f, B) \in SUBSET PhasesIn(f, A)
         /\ IsFiniteSet(RulesIn(A)) /\ IsFiniteSet(PhasesIn(f, A))
<1>1. A \in SUBSET fs /\ \A x \in A : x.rule # "chain"
  BY DEF Ruled
<1>2. RulesIn(B) \in SUBSET RulesIn(A)
  BY DEF RulesIn
<1>3. ASSUME NEW some \in SUBSET A, NEW r \in RulesIn(some)
      PROVE  Speaker(f, OfRule(r, some)) \in some /\ Speaker(f, OfRule(r, some)).rule = r
  <2>1. OfRule(r, some) \in SUBSET fs /\ OfRule(r, some) # {}
    BY <1>1, <1>3 DEF OfRule, RulesIn
  <2>2. Speaker(f, OfRule(r, some)) \in OfRule(r, some)
    BY <2>1, SpeakerIs
  <2>. QED BY <2>2 DEF OfRule
<1>4. ASSUME NEW r \in RulesIn(B) PROVE Speaker(f, OfRule(r, B)).phase = Speaker(f, OfRule(r, A)).phase
  <2>. DEFINE x == Speaker(f, OfRule(r, B))
              y == Speaker(f, OfRule(r, A))
  <2>1. x \in B /\ x.rule = r
    BY <1>3
  <2>2. A \in SUBSET A /\ r \in RulesIn(A)
    BY <1>2
  <2>3. y \in A /\ y.rule = r
    BY <1>3, <2>2
  <2>. HIDE DEF x, y
  <2>4. x.phase = y.phase
    BY <1>1, <2>1, <2>3, PhaseOfRule
  <2>. QED BY <2>4 DEF x, y
<1>5. PhasesIn(f, B) \in SUBSET PhasesIn(f, A)
  BY <1>2, <1>4 DEF PhasesIn
<1>. DEFINE rule == [g \in A |-> g.rule]
            phase == [r \in RulesIn(A) |-> Speaker(f, OfRule(r, A)).phase]
            phases == {phase[r] : r \in RulesIn(A)}
<1>6. DOMAIN rule = A /\ DOMAIN phase = RulesIn(A) /\ RulesIn(A) = {rule[g] : g \in A} /\ PhasesIn(f, A) \in SUBSET phases
  BY DEF RulesIn, PhasesIn
<1>. HIDE DEF rule, phase
<1>7. IsFiniteSet(A)
  BY <1>1, FindingsFinite, FS_Subset
<1>8. IsFiniteSet(RulesIn(A))
  BY <1>6, <1>7, ImageFinite
<1>9. IsFiniteSet(phases)
  BY <1>6, <1>8, ImageFinite
<1>. HIDE DEF phases
<1>10. IsFiniteSet(PhasesIn(f, A))
  BY <1>6, <1>9, FS_Subset
<1>. QED BY <1>2, <1>5, <1>8, <1>10

\* Fewer findings corroborate no more.
LEMMA HeardLess ==
  ASSUME InTable, NEW f, NEW A \in SUBSET Ruled(fs), NEW B \in SUBSET A
  PROVE  Heard(f, A) \in Nat /\ Heard(f, B) \in Nat /\ Heard(f, B) <= Heard(f, A)
<1>1. \A some : Heard(f, some) = Lesser(6, Cardinality(RulesIn(some)) + Cardinality(PhasesIn(f, some)))
  BY DEF Heard, Spoken, RulesIn, PhasesIn, OfRule
<1>. DEFINE rA == Cardinality(RulesIn(A))
            rB == Cardinality(RulesIn(B))
            pA == Cardinality(PhasesIn(f, A))
            pB == Cardinality(PhasesIn(f, B))
<1>2. IsFiniteSet(RulesIn(B)) /\ rB <= rA /\ IsFiniteSet(PhasesIn(f, B)) /\ pB <= pA
  BY FewerVoices, FS_Subset
<1>3. rA \in Nat /\ rB \in Nat /\ pA \in Nat /\ pB \in Nat
  BY <1>2, FewerVoices, FS_CardinalityType
<1>4. Heard(f, A) = Lesser(6, rA + pA) /\ Heard(f, B) = Lesser(6, rB + pB)
  BY <1>1
<1>. HIDE DEF rA, rB, pA, pB
<1>. QED BY <1>2, <1>3, <1>4 DEF Lesser

\* A finding marked corroborates nothing more, and the others what they did.
LEMMA CorroborationFalls ==
  ASSUME InTable, NEW g \in fs, NEW f \in fs
  PROVE  /\ Corroboration(f, fs) \in Nat /\ Corroboration(f, Dismissing(g)) \in Nat
         /\ Corroboration(f, Dismissing(g)) <= Corroboration(f, fs)
<1>. DEFINE near(x) == (x.host # "" /\ x.host = f.host) \/ usersOf(x) \cap usersOf(f) # {}
            round(x) == x.rule # f.rule /\ f.ts - Window <= x.ts /\ x.ts <= Ends(f) + Window
            around(of) == {x \in peersBy(f, of) : round(x)}
            A == around(fs)
            B == around(Dismissing(g))
<1>1. \A of : peersBy(f, of) = {x \in of : Peer(x, of) /\ near(x)}
  BY Zenon DEF peersBy
<1>2. \A of : Corroboration(f, of) = IF f.ts = NoTime \/ f.rule = "chain" THEN 0 ELSE Heard(f, around(of))
  BY DEF Corroboration
<1>. HIDE DEF near, round
<1>3. A \in SUBSET Ruled(fs)
  BY <1>1 DEF Peer
<1>4. ASSUME NEW x \in B PROVE x \in A
  <2>1. x \in Dismissing(g) /\ x \in Ruled(Dismissing(g)) /\ x.ts # NoTime /\ x.status # "false_positive"
      /\ near(x) /\ round(x)
    BY <1>1 DEF Peer
  <2>2. x \in fs /\ x.rule # "chain"
    BY <2>1, MarkedSays DEF Dismissing, Ruled
  <2>3. x \in Ruled(fs)
    BY <2>2 DEF Ruled
  <2>4. x \in peersBy(f, fs)
    BY <1>1, <2>1, <2>2, <2>3 DEF Peer
  <2>. QED BY <2>1, <2>4
<1>5. B \in SUBSET A
  BY <1>4
<1>. HIDE DEF A, B
<1>6. Heard(f, A) \in Nat /\ Heard(f, B) \in Nat /\ Heard(f, B) <= Heard(f, A)
  BY <1>3, <1>5, HeardLess
<1>. QED BY <1>2, <1>6 DEF A, B

Lefts(left, x, n, p) == left = [i \in 0 .. n |-> IF i = 0 THEN x ELSE Percent(left[i - 1], p)]

\* What is left after some dismissals is computed one by one.
LEMMA LeftExists ==
  ASSUME NEW x, NEW p, NEW n \in Nat
  PROVE  \E left : Lefts(left, x, n, p)
<1>. DEFINE bad == {k \in Nat : ~ \E left : Lefts(left, x, k, p)}
<1>. SUFFICES ASSUME bad # {} PROVE FALSE
  OBVIOUS
<1>1. bad \in SUBSET Nat
  OBVIOUS
<1>. HIDE DEF bad
<1>2. PICK k \in bad : \A j \in bad : k <= j
  BY <1>1, LeastNumber
<1>3. k \in Nat
  BY <1>1, <1>2
<1>4. ASSUME NEW left, Lefts(left, x, k, p) PROVE FALSE
  BY <1>2, <1>4 DEF bad
<1>5. CASE k = 0
  <2>. DEFINE left == [i \in 0 .. 0 |-> x]
  <2>1. \A i \in 0 .. 0 : i = 0
    OBVIOUS
  <2>2. left = [i \in 0 .. 0 |-> IF i = 0 THEN x ELSE Percent(left[i - 1], p)]
    BY <2>1, Zenon
  <2>3. Lefts(left, x, k, p)
    BY <1>5, <2>2 DEF Lefts
  <2>. QED BY <1>4, <2>3
<1>6. CASE k > 0
  <2>1. k - 1 \in Nat /\ ~(k <= k - 1)
    BY <1>3, <1>6
  <2>2. k - 1 \notin bad
    BY <1>2, <2>1
  <2>3. PICK old : Lefts(old, x, k - 1, p)
    BY <2>1, <2>2 DEF bad
  <2>. DEFINE left == [i \in 0 .. k |-> IF i = k THEN Percent(old[k - 1], p) ELSE old[i]]
              value(i) == IF i = 0 THEN x ELSE Percent(left[i - 1], p)
  <2>4. ASSUME NEW i \in 0 .. k PROVE left[i] = value(i)
    <3>1. CASE i = k
      <4>1. left[k] = Percent(old[k - 1], p) /\ left[k - 1] = old[k - 1]
        BY <1>3, <1>6
      <4>. QED BY <1>6, <3>1, <4>1
    <3>2. CASE i # k
      <4>1. i \in 0 .. (k - 1) /\ (i # 0 => i - 1 \in 0 .. k /\ i - 1 # k)
        BY <1>3, <3>2
      <4>2. left[i] = old[i] /\ (i # 0 => left[i - 1] = old[i - 1])
        BY <3>2, <4>1
      <4>. HIDE DEF left
      <4>3. old[i] = IF i = 0 THEN x ELSE Percent(old[i - 1], p)
        BY <2>3, <4>1 DEF Lefts
      <4>. QED BY <4>2, <4>3
    <3>. QED BY <3>1, <3>2
  <2>5. left = [i \in 0 .. k |-> left[i]]
    OBVIOUS
  <2>6. left = [i \in 0 .. k |-> value(i)]
    <3>. HIDE DEF value
    <3>. QED BY <2>4
  <2>. HIDE DEF left
  <2>7. Lefts(left, x, k, p)
    BY <2>6 DEF Lefts
  <2>. QED BY <1>4, <2>7
<1>. QED BY <1>3, <1>5, <1>6

\* The last of what is left is what the dismissals leave.
LEMMA RepeatedIs ==
  ASSUME NEW x, NEW p, NEW n \in Nat
  PROVE  \E left : /\ Repeated(x, n, p) = left[n] /\ left[0] = x
                   /\ \A i \in 1 .. n : left[i] = Percent(left[i - 1], p)
<1>. DEFINE left == CHOOSE left : Lefts(left, x, n, p)
<1>1. Lefts(left, x, n, p)
  BY LeftExists
<1>2. Repeated(x, n, p) = left[n]
  BY DEF Repeated, Lefts
<1>. HIDE DEF left
<1>3. \A i \in 0 .. n : left[i] = IF i = 0 THEN x ELSE Percent(left[i - 1], p)
  BY <1>1 DEF Lefts
<1>4. left[0] = x
  BY <1>3
<1>5. \A i \in 1 .. n : left[i] = Percent(left[i - 1], p)
  BY <1>3
<1>. QED BY <1>2, <1>4, <1>5

\* A share of fewer points is no more, and no more than the points.
LEMMA SharesOf ==
  ASSUME NEW p \in {25, 50, 80}, NEW x, x \in Nat, NEW y, y \in Nat, x <= y
  PROVE  Percent(x, p) \in Nat /\ Percent(x, p) <= x /\ Percent(x, p) <= Percent(y, p)
<1>1. CASE p = 25
  BY <1>1 DEF Percent
<1>2. CASE p = 50
  BY <1>2 DEF Percent
<1>3. CASE p = 80
  BY <1>3 DEF Percent
<1>. QED BY <1>1, <1>2, <1>3

\* Fewer points, lessened as often or more often, are fewer.
LEMMA RepeatedLess ==
  ASSUME NEW p \in {50, 80}, NEW x, x \in Nat, NEW y, y \in Nat, x <= y, NEW n, n \in Nat, NEW m, m \in Nat, m <= n
  PROVE  Repeated(x, n, p) \in Nat /\ Repeated(y, m, p) \in Nat /\ Repeated(x, n, p) <= Repeated(y, m, p)
<1>1. PICK a : Repeated(x, n, p) = a[n] /\ a[0] = x /\ \A i \in 1 .. n : a[i] = Percent(a[i - 1], p)
  BY RepeatedIs
<1>2. PICK b : Repeated(y, m, p) = b[m] /\ b[0] = y /\ \A i \in 1 .. m : b[i] = Percent(b[i - 1], p)
  BY RepeatedIs
<1>. DEFINE upTo(i) == IF i <= m THEN i ELSE m
            fine(i) == a[i] \in Nat /\ b[upTo(i)] \in Nat /\ a[i] <= b[upTo(i)]
            bad == {i \in 0 .. n : ~fine(i)}
<1>3. bad = {}
  <2>. SUFFICES ASSUME bad # {} PROVE FALSE
    OBVIOUS
  <2>1. bad \in SUBSET Nat
    OBVIOUS
  <2>2. PICK k \in bad : \A j \in bad : k <= j
    <3>. HIDE DEF bad
    <3>. QED BY <2>1, LeastNumber
  <2>3. k \in 0 .. n /\ ~fine(k)
    OBVIOUS
  <2>4. CASE k = 0
    <3>1. upTo(0) = 0
      OBVIOUS
    <3>2. fine(0)
      <4>. HIDE DEF upTo
      <4>. QED BY <1>1, <1>2, <3>1
    <3>. HIDE DEF fine
    <3>. QED BY <2>3, <2>4, <3>2
  <2>5. CASE k > 0
    <3>1. k - 1 \in 0 .. n /\ ~(k <= k - 1) /\ k \in 1 .. n
      BY <2>3, <2>5
    <3>2. fine(k - 1)
      <4>1. k - 1 \notin bad
        <5>. HIDE DEF bad
        <5>. QED BY <2>2, <3>1
      <4>. HIDE DEF fine
      <4>. QED BY <3>1, <4>1
    <3>. DEFINE u == a[k - 1]
                v == b[upTo(k - 1)]
    <3>3. u \in Nat /\ v \in Nat /\ u <= v
      BY <3>2
    <3>4. a[k] = Percent(u, p)
      BY <1>1, <3>1
    <3>5. CASE k <= m
      <4>1. upTo(k) = k /\ upTo(k - 1) = k - 1 /\ k \in 1 .. m
        BY <2>3, <3>1, <3>5
      <4>2. b[k] = Percent(v, p)
        <5>. HIDE DEF upTo
        <5>. QED BY <1>2, <4>1
      <4>. HIDE DEF u, v, upTo
      <4>3. Percent(u, p) \in Nat /\ Percent(v, p) \in Nat /\ Percent(u, p) <= Percent(v, p)
        BY <3>3, SharesOf
      <4>4. fine(k)
        BY <3>4, <4>1, <4>2, <4>3
      <4>. QED BY <2>3, <4>4
    <3>6. CASE k > m
      <4>1. upTo(k) = m /\ upTo(k - 1) = m
        BY <2>3, <3>1, <3>6
      <4>2. b[upTo(k)] = v
        BY <4>1
      <4>. HIDE DEF u, v, upTo
      <4>3. Percent(u, p) \in Nat /\ Percent(u, p) <= u
        BY <3>3, SharesOf
      <4>4. Percent(u, p) <= v
        BY <3>3, <4>3
      <4>5. fine(k)
        BY <3>3, <3>4, <4>2, <4>3, <4>4
      <4>. QED BY <2>3, <4>5
    <3>. QED BY <2>3, <3>5, <3>6
  <2>. QED BY <2>3, <2>4, <2>5
<1>4. n \in 0 .. n /\ upTo(n) = m
  OBVIOUS
<1>5. fine(n)
  <2>. HIDE DEF fine
  <2>. QED BY <1>3, <1>4
<1>. HIDE DEF upTo
<1>. QED BY <1>1, <1>2, <1>4, <1>5

\* A set that holds what another holds, the one finding as marked, is no smaller.
LEMMA MarkedCount ==
  ASSUME InTable, NEW g \in fs, NEW A \in SUBSET fs, NEW B \in SUBSET Dismissing(g),
         \A x \in A : IF x = g THEN Marked(g) \in B ELSE x \in B
  PROVE  IsFiniteSet(A) /\ IsFiniteSet(B) /\ Cardinality(A) <= Cardinality(B)
<1>. DEFINE back == [x \in B |-> IF x = Marked(g) THEN g ELSE x]
            T == {back[x] : x \in B}
<1>1. IsFiniteSet(A) /\ IsFiniteSet(B)
  <2>1. IsFiniteSet(fs \ {g}) /\ IsFiniteSet({Marked(g)})
    <3>1. fs \ {g} \in SUBSET fs
      OBVIOUS
    <3>. QED BY <3>1, FindingsFinite, FS_Subset, FS_Singleton
  <2>2. IsFiniteSet(Dismissing(g))
    BY <2>1, FS_Union DEF Dismissing
  <2>. QED BY <2>2, FindingsFinite, FS_Subset
<1>2. ASSUME NEW x \in A PROVE x \in T
  <2>1. CASE x = g
    BY <2>1
  <2>2. CASE x # g
    <3>1. x \in B
      BY <2>2
    <3>2. x # Marked(g)
      BY <2>2, MarkedSays, OneById DEF Same
    <3>3. back[x] = x
      BY <3>1, <3>2
    <3>. QED BY <3>1, <3>3
  <2>. QED BY <2>1, <2>2
<1>3. back \in Surjection(B, T)
  BY DEF Surjection
<1>4. A \in SUBSET T
  BY <1>2
<1>. HIDE DEF back, T
<1>5. IsFiniteSet(T) /\ Cardinality(T) <= Cardinality(B)
  BY <1>1, <1>3, FS_Surjection
<1>6. Cardinality(A) <= Cardinality(T)
  BY <1>4, <1>5, FS_Subset
<1>7. Cardinality(A) \in Nat /\ Cardinality(B) \in Nat /\ Cardinality(T) \in Nat
  BY <1>1, <1>5, FS_CardinalityType
<1>. QED BY <1>1, <1>5, <1>6, <1>7

Here(f, dismissals) == {x \in dismissals : f.host # "" /\ x.host = f.host}
Elsewhere(f, dismissals) == dismissals \ Here(f, dismissals)

\* A decision is about what it was about, marked or not.
LEMMA SameSignature ==
  ASSUME NEW x, NEW y, Same(x, y)
  PROVE  decisionSignature(x) = decisionSignature(y) /\ (NamesNothing(x) <=> NamesNothing(y))
<1>1. decisionSignature(x) = decisionSignature(y)
  BY DEF Same, decisionSignature
<1>2. NamesNothing(x) <=> NamesNothing(y)
  BY Zenon DEF Same, NamesNothing
<1>. QED BY <1>1, <1>2

\* The dismissals of before are still there, here and elsewhere.
LEMMA DismissalsStay ==
  ASSUME InTable, NEW g \in fs, NEW f \in fs, f # g
  PROVE  /\ Dismissals(f, fs) \in SUBSET fs /\ Dismissals(f, Dismissing(g)) \in SUBSET Dismissing(g)
         /\ \A x \in Dismissals(f, fs) : IF x = g THEN Marked(g) \in Dismissals(f, Dismissing(g))
                                         ELSE x \in Dismissals(f, Dismissing(g))
<1>. DEFINE about(x) == NamesNothing(f) \/ decisionSignature(x) # decisionSignature(f)
<1>1. \A of : Dismissals(f, of) = {x \in Ruled(of) : /\ x.rule = f.rule /\ x.status = "false_positive" /\ x.by # "ai"
                                                       /\ x.id # f.id /\ about(x)}
  BY Zenon DEF Dismissals
<1>2. about(Marked(g)) <=> about(g)
  BY MarkedSays, SameSignature
<1>. HIDE DEF about
<1>3. Dismissals(f, fs) \in SUBSET fs /\ Dismissals(f, Dismissing(g)) \in SUBSET Dismissing(g)
  BY <1>1 DEF Ruled
<1>4. ASSUME NEW x \in Dismissals(f, fs), x # g PROVE x \in Dismissals(f, Dismissing(g))
  BY <1>1, <1>4 DEF Ruled, Dismissing
<1>5. ASSUME g \in Dismissals(f, fs) PROVE Marked(g) \in Dismissals(f, Dismissing(g))
  <2>1. g.rule = f.rule /\ g.rule # "chain" /\ g.id # f.id /\ about(g)
    BY <1>1, <1>5 DEF Ruled
  <2>2. Marked(g).rule = f.rule /\ Marked(g).id # f.id /\ Marked(g).status = "false_positive" /\ Marked(g).by = "analyst"
    BY <2>1, MarkedSays DEF Same
  <2>3. Marked(g) \in Ruled(Dismissing(g))
    BY <2>1, <2>2 DEF Ruled, Dismissing
  <2>. QED BY <1>1, <1>2, <2>1, <2>2, <2>3
<1>. QED BY <1>3, <1>4, <1>5

\* So there are no fewer of them, here and elsewhere.
LEMMA DismissalsGrow ==
  ASSUME InTable, NEW g \in fs, NEW f \in fs, f # g
  PROVE  \A before \in {Dismissals(f, fs)}, after \in {Dismissals(f, Dismissing(g))} :
           /\ IsFiniteSet(before) /\ IsFiniteSet(after)
           /\ Cardinality(Here(f, before)) <= Cardinality(Here(f, after))
           /\ Cardinality(Elsewhere(f, before)) <= Cardinality(Elsewhere(f, after))
<1>. DEFINE before == Dismissals(f, fs)
            after == Dismissals(f, Dismissing(g))
            here(x) == f.host # "" /\ x.host = f.host
<1>1. before \in SUBSET fs /\ after \in SUBSET Dismissing(g)
      /\ \A x \in before : IF x = g THEN Marked(g) \in after ELSE x \in after
  BY DismissalsStay
<1>2. \A some, x : x \in Here(f, some) <=> x \in some /\ here(x)
  BY Zenon DEF Here
<1>3. here(Marked(g)) <=> here(g)
  BY MarkedSays, Zenon DEF Same
<1>4. \A some, x : x \in Elsewhere(f, some) <=> x \in some /\ ~here(x)
  BY <1>2, Zenon DEF Elsewhere
<1>. HIDE DEF before, after, here
<1>5. Here(f, before) \in SUBSET fs /\ Here(f, after) \in SUBSET Dismissing(g)
      /\ \A x \in Here(f, before) : IF x = g THEN Marked(g) \in Here(f, after) ELSE x \in Here(f, after)
  BY <1>1, <1>2, <1>3
<1>6. Elsewhere(f, before) \in SUBSET fs /\ Elsewhere(f, after) \in SUBSET Dismissing(g)
      /\ \A x \in Elsewhere(f, before) : IF x = g THEN Marked(g) \in Elsewhere(f, after) ELSE x \in Elsewhere(f, after)
  BY <1>1, <1>3, <1>4
<1>7. IsFiniteSet(before) /\ IsFiniteSet(after)
  BY <1>1, MarkedCount
<1>8. Cardinality(Here(f, before)) <= Cardinality(Here(f, after))
  BY <1>5, MarkedCount
<1>9. Cardinality(Elsewhere(f, before)) <= Cardinality(Elsewhere(f, after))
  BY <1>6, MarkedCount
<1>. QED BY <1>7, <1>8, <1>9 DEF before, after

\* What dismissals take of the points: the same share for each here, a lesser one for each elsewhere.
LEMMA LessenedIs ==
  ASSUME NEW f, NEW dismissals, IsFiniteSet(dismissals), NEW points
  PROVE  /\ Dismissed(points, f, dismissals) =
              IF f.status = "new"
              THEN Repeated(Repeated(points, Cardinality(Here(f, dismissals)), 50),
                            Cardinality(Elsewhere(f, dismissals)), 80)
              ELSE points
         /\ Cardinality(Here(f, dismissals)) \in Nat /\ Cardinality(Elsewhere(f, dismissals)) \in Nat
<1>. DEFINE h == Here(f, dismissals)
            e == Elsewhere(f, dismissals)
<1>1. Dismissed(points, f, dismissals) =
        IF f.status = "new" THEN Lessened(points, Cardinality(dismissals), Cardinality(h)) ELSE points
  BY Zenon DEF Dismissed, Here
<1>2. h \in SUBSET dismissals /\ e = dismissals \ h /\ dismissals \cap h = h
  BY Zenon DEF Here, Elsewhere
<1>. HIDE DEF h, e
<1>3. IsFiniteSet(h)
  BY <1>2, FS_Subset
<1>4. IsFiniteSet(e) /\ Cardinality(e) = Cardinality(dismissals) - Cardinality(h)
  BY <1>2, <1>3, FS_Difference
<1>5. Cardinality(h) \in Nat /\ Cardinality(e) \in Nat /\ Cardinality(dismissals) \in Nat
  BY <1>3, <1>4, FS_CardinalityType
<1>. QED BY <1>1, <1>4, <1>5 DEF Lessened, h, e

\* Fewer points, with the dismissals of after the mark, are lessened to fewer.
LEMMA DismissedLess ==
  ASSUME InTable, NEW g \in fs, NEW f \in fs, f # g, NEW x, x \in Nat, NEW y, y \in Nat, x <= y
  PROVE  /\ Dismissed(x, f, Dismissals(f, Dismissing(g))) \in Nat /\ Dismissed(y, f, Dismissals(f, fs)) \in Nat
         /\ Dismissed(x, f, Dismissals(f, Dismissing(g))) <= Dismissed(y, f, Dismissals(f, fs))
<1>. DEFINE before == Dismissals(f, fs)
            after == Dismissals(f, Dismissing(g))
            hb == Cardinality(Here(f, before))
            eb == Cardinality(Elsewhere(f, before))
            ha == Cardinality(Here(f, after))
            ea == Cardinality(Elsewhere(f, after))
<1>1. IsFiniteSet(before) /\ IsFiniteSet(after) /\ hb <= ha /\ eb <= ea
  BY DismissalsGrow
<1>. HIDE DEF before, after
<1>2. hb \in Nat /\ eb \in Nat /\ ha \in Nat /\ ea \in Nat
  BY <1>1, LessenedIs
<1>. DEFINE a == Repeated(x, ha, 50)
            b == Repeated(y, hb, 50)
<1>3. Dismissed(x, f, after) = IF f.status = "new" THEN Repeated(a, ea, 80) ELSE x
  BY <1>1, LessenedIs
<1>4. Dismissed(y, f, before) = IF f.status = "new" THEN Repeated(b, eb, 80) ELSE y
  BY <1>1, LessenedIs
<1>. HIDE DEF hb, eb, ha, ea
<1>5. a \in Nat /\ b \in Nat /\ a <= b
  BY <1>1, <1>2, RepeatedLess
<1>. HIDE DEF a, b
<1>6. Repeated(a, ea, 80) \in Nat /\ Repeated(b, eb, 80) \in Nat /\ Repeated(a, ea, 80) <= Repeated(b, eb, 80)
  BY <1>1, <1>2, <1>5, RepeatedLess
<1>. QED BY <1>3, <1>4, <1>6 DEF before, after

Kept(x) == [signature |-> decisionSignature(x), status |-> x.status, at |-> x.at, id |-> x.id]
Tells(x) == /\ x.rule # "chain" /\ x.status \in {"false_positive", "escalated"} /\ x.by # "ai" /\ ~NamesNothing(x)

\* The past decisions on a finding, one by one.
LEMMA PastOnes ==
  ASSUME NEW of, NEW f, NEW d
  PROVE  d \in PastOn(f, of) <=>
           /\ ~(f.rule = "chain" \/ NamesNothing(f))
           /\ d \in Remembered \/ \E x \in of : Tells(x) /\ d = Kept(x)
           /\ d.signature = decisionSignature(f) /\ d.id # f.id
<1>. DEFINE telling == {x \in Ruled(of) : x.status \in {"false_positive", "escalated"} /\ x.by # "ai" /\ ~NamesNothing(x)}
            past == {Kept(x) : x \in telling}
<1>1. pastDecisions(of) = past
  BY DEF pastDecisions, Kept
<1>2. \A x : x \in telling <=> x \in of /\ Tells(x)
  BY DEF Tells, Ruled
<1>. HIDE DEF telling
<1>3. d \in past <=> \E x \in of : Tells(x) /\ d = Kept(x)
  BY <1>2
<1>. HIDE DEF past
<1>4. PastOn(f, of) = IF f.rule = "chain" \/ NamesNothing(f) THEN {}
                      ELSE {e \in past \cup Remembered : e.signature = decisionSignature(f) /\ e.id # f.id}
  BY <1>1 DEF PastOn
<1>. QED BY <1>3, <1>4

\* A mark on a finding of another signature is no decision on this one.
LEMMA OtherSignature ==
  ASSUME InTable, NEW g \in fs, NEW f \in fs, f # g,
         g.rule = "chain" \/ NamesNothing(g) \/ decisionSignature(g) # decisionSignature(f)
  PROVE  PastOn(f, Dismissing(g)) = PastOn(f, fs)
<1>1. Same(Marked(g), g)
  BY MarkedSays
<1>2. ~(Tells(g) /\ Kept(g).signature = decisionSignature(f))
  BY DEF Tells, Kept
<1>3. ~(Tells(Marked(g)) /\ Kept(Marked(g)).signature = decisionSignature(f))
  <2>1. Marked(g).rule = g.rule
    BY <1>1 DEF Same
  <2>. QED BY <1>1, <2>1, SameSignature DEF Tells, Kept
<1>4. ASSUME NEW d PROVE d \in PastOn(f, Dismissing(g)) <=> d \in PastOn(f, fs)
  <2>1. ASSUME NEW x \in Dismissing(g), Tells(x), d = Kept(x), d.signature = decisionSignature(f) PROVE x \in fs
    BY <1>3, <2>1 DEF Dismissing
  <2>2. ASSUME NEW x \in fs, Tells(x), d = Kept(x), d.signature = decisionSignature(f) PROVE x \in Dismissing(g)
    BY <1>2, <2>2 DEF Dismissing
  <2>. QED BY <2>1, <2>2, PastOnes
<1>. QED BY <1>4

\* A mark on one of this signature is the latest decision on it.
LEMMA LatestIsMark ==
  ASSUME InTable, Past, decisions \in Nat, NEW g \in fs, NEW f \in fs, f # g,
         ~(f.rule = "chain" \/ NamesNothing(f)),
         ~(g.rule = "chain" \/ NamesNothing(g) \/ decisionSignature(g) # decisionSignature(f))
  PROVE  \A x : Remembering(x, PastOn(f, Dismissing(g))) = Percent(x, 25)
<1>. DEFINE before == PastOn(f, Dismissing(g))
            m == Marked(g)
            mark == Kept(m)
<1>1. Same(m, g) /\ m.status = "false_positive" /\ m.by = "analyst" /\ m.at = decisions + 1 /\ m \in Dismissing(g)
  BY MarkedSays DEF Dismissing
<1>. HIDE DEF m
<1>2. m.rule = g.rule /\ m.id = g.id /\ decisionSignature(m) = decisionSignature(f) /\ ~NamesNothing(m)
  BY <1>1, SameSignature DEF Same
<1>3. Tells(m)
  BY <1>1, <1>2 DEF Tells
<1>4. mark.signature = decisionSignature(m) /\ mark.status = m.status /\ mark.at = m.at /\ mark.id = m.id
  BY DEF Kept
<1>. HIDE DEF mark
<1>5. g.id # f.id
  BY OneById
<1>6. mark \in before
  BY <1>1, <1>2, <1>3, <1>4, <1>5, PastOnes DEF mark
<1>7. ASSUME NEW e \in before, e # mark PROVE e.at \in Int /\ e.at <= decisions
  <2>1. CASE e \in Remembered
    BY <2>1, RememberedAssumption
  <2>2. CASE e \notin Remembered
    <3>1. PICK x \in Dismissing(g) : e = Kept(x)
      BY <2>2, PastOnes
    <3>2. x # m
      BY <1>7, <3>1 DEF mark
    <3>3. x \in fs
      BY <3>2 DEF Dismissing, m
    <3>4. e.at = x.at
      BY <3>1 DEF Kept
    <3>. QED BY <3>3, <3>4 DEF Past
  <2>. QED BY <2>1, <2>2
<1>. DEFINE last == CHOOSE d \in before : \A e \in before : e.at <= d.at
<1>. HIDE DEF before
<1>8. \A e \in before : e.at <= mark.at
  BY <1>1, <1>4, <1>7
<1>9. last \in before /\ \A e \in before : e.at <= last.at
  BY <1>6, <1>8
<1>10. last = mark
  <2>1. mark.at <= last.at
    BY <1>6, <1>9
  <2>. HIDE DEF last
  <2>. QED BY <1>1, <1>4, <1>7, <1>9, <2>1
<1>11. last.status = "false_positive"
  BY <1>1, <1>4, <1>10
<1>12. \A x : Remembering(x, before) =
      IF before = {} THEN x ELSE IF last.status = "false_positive" THEN Percent(x, 25) ELSE x + 5000
  BY DEF Remembering
<1>. HIDE DEF last
<1>13. \A x : Remembering(x, before) = Percent(x, 25)
  BY <1>6, <1>11, <1>12
<1>. QED BY <1>13 DEF before

\* So what is remembered of a finding does not raise it over what it was.
LEMMA RememberedLess ==
  ASSUME InTable, Past, decisions \in Nat, NEW g \in fs, NEW f \in fs, f # g, NEW x, x \in Nat, NEW y, y \in Nat, x <= y
  PROVE  Remembering(x, PastOn(f, Dismissing(g))) <= Remembering(y, PastOn(f, fs))
<1>1. Percent(x, 25) \in Nat /\ Percent(y, 25) \in Nat /\ Percent(x, 25) <= Percent(y, 25) /\ Percent(x, 25) <= x
  BY SharesOf
<1>2. \A before, z : Remembering(z, before) = z \/ Remembering(z, before) = Percent(z, 25)
      \/ Remembering(z, before) = z + 5000
  BY DEF Remembering
<1>3. CASE PastOn(f, Dismissing(g)) = PastOn(f, fs)
  <2>. DEFINE before == PastOn(f, fs)
  <2>1. \/ Remembering(x, before) = x /\ Remembering(y, before) = y
        \/ Remembering(x, before) = Percent(x, 25) /\ Remembering(y, before) = Percent(y, 25)
        \/ Remembering(x, before) = x + 5000 /\ Remembering(y, before) = y + 5000
    <3>. HIDE DEF before
    <3>. QED BY DEF Remembering
  <2>. HIDE DEF before
  <2>2. Remembering(x, before) <= Remembering(y, before)
    BY <1>1, <2>1
  <2>. QED BY <1>3, <2>2 DEF before
<1>4. CASE PastOn(f, Dismissing(g)) # PastOn(f, fs)
  <2>1. \A of : f.rule = "chain" \/ NamesNothing(f) => PastOn(f, of) = {}
    BY DEF PastOn
  <2>2. ~(f.rule = "chain" \/ NamesNothing(f))
    BY <1>4, <2>1
  <2>3. ~(g.rule = "chain" \/ NamesNothing(g) \/ decisionSignature(g) # decisionSignature(f))
    BY <1>4, OtherSignature
  <2>4. Remembering(x, PastOn(f, Dismissing(g))) = Percent(x, 25)
    BY <2>2, <2>3, LatestIsMark
  <2>5. Remembering(y, PastOn(f, fs)) = y \/ Remembering(y, PastOn(f, fs)) = Percent(y, 25)
        \/ Remembering(y, PastOn(f, fs)) = y + 5000
    BY <1>2
  <2>. QED BY <1>1, <2>4, <2>5
<1>. QED BY <1>3, <1>4

\* A finding marked false positive moves no other one up.
LEMMA MarkLowers ==
  ASSUME InTable, Past, decisions \in Nat
  PROVE  DismissalOnlyLowers
<1>1. ASSUME NEW g \in fs, NEW f \in fs, f # g PROVE scoreFindings(f, Dismissing(g)) <= scoreFindings(f, fs)
  <2>. DEFINE w == Weight(f, fs)
              n == Repeats(f, fs)
              base == (w * 100) \div LogPercent[n]
              cb == Corroboration(f, fs)
              ca == Corroboration(f, Dismissing(g))
              before == base + 1000 * cb
              after == base + 1000 * ca
  <2>1. w \in Nat /\ n \in 1 .. 8
    BY WeightIs, RepeatsIs
  <2>2. base \in Nat
    <3>. HIDE DEF w, n
    <3>. QED BY <2>1, PointsAre
  <2>3. ca \in Nat /\ cb \in Nat /\ ca <= cb
    BY <1>1, CorroborationFalls
  <2>4. scoreFindings(f, fs) = Remembering(Dismissed(before, f, Dismissals(f, fs)), PastOn(f, fs))
    BY DEF scoreFindings
  <2>5. scoreFindings(f, Dismissing(g)) =
        Remembering(Dismissed(after, f, Dismissals(f, Dismissing(g))), PastOn(f, Dismissing(g)))
    BY <1>1, WeightStays, RepeatsStay DEF scoreFindings
  <2>. HIDE DEF w, n, base, ca, cb
  <2>6. after \in Nat /\ before \in Nat /\ after <= before
    BY <2>2, <2>3
  <2>. HIDE DEF before, after
  <2>. DEFINE a == Dismissed(after, f, Dismissals(f, Dismissing(g)))
              b == Dismissed(before, f, Dismissals(f, fs))
  <2>7. a \in Nat /\ b \in Nat /\ a <= b
    BY <1>1, <2>6, DismissedLess
  <2>. HIDE DEF a, b
  <2>8. Remembering(a, PastOn(f, Dismissing(g))) <= Remembering(b, PastOn(f, fs))
    BY <1>1, <2>7, RememberedLess
  <2>. QED BY <2>4, <2>5, <2>8 DEF a, b
<1>2. ASSUME NEW g \in fs PROVE NoneRises(fs, Dismissing(g), g)
  BY <1>1, <1>2 DEF NoneRises
<1>. QED BY <1>2 DEF DismissalOnlyLowers, Dismissing, Marked

-----------------------------------------------------------------------------
(* The decisions, step by step *)

DecisionFields == {"status", "by", "at", "over", "unlinked", "exclude"}
Decision(d, n) ==
  DOMAIN d = DecisionFields /\ d.status \in Status /\ d.at \in 0 .. n /\ d.over \in Range(ORDER) \cup {"none"}

ReviewInv ==
  /\ InTable
  /\ decisions \in Nat
  /\ DOMAIN decided = DOMAIN Facts
  /\ \A i \in DOMAIN Facts : Decision(decided[i], decisions)

\* What a decision writes is one.
LEMMA DecisionWritten ==
  ASSUME NEW n \in Nat, NEW d, Decision(d, n), NEW s \in Status, NEW by
  PROVE  Decision([d EXCEPT !.status = s, !.by = by, !.at = n + 1], n + 1)
<1>. DEFINE at == n + 1
            x == [d EXCEPT !.status = s]
            y == [x EXCEPT !.by = by]
            z == [y EXCEPT !.at = at]
<1>1. [d EXCEPT !.status = s, !.by = by, !.at = at] = z
  OBVIOUS
<1>2. DOMAIN x = DecisionFields /\ x.status = s /\ x.at = d.at /\ x.over = d.over
  BY DEF Decision, DecisionFields
<1>. HIDE DEF x
<1>3. DOMAIN y = DecisionFields /\ y.status = x.status /\ y.at = x.at /\ y.over = x.over
  BY <1>2 DEF DecisionFields
<1>. HIDE DEF y
<1>4. DOMAIN z = DecisionFields /\ z.status = y.status /\ z.at = at /\ z.over = y.over
  BY <1>3 DEF DecisionFields
<1>. HIDE DEF z
<1>. QED BY <1>1, <1>2, <1>3, <1>4 DEF Decision

\* A severity given, an item left out and a finding taken out of its chain leave the rest of a decision.
LEMMA SeverityWritten ==
  ASSUME NEW n \in Nat, NEW d, Decision(d, n), NEW target \in Range(ORDER) \cup {"none"}
  PROVE  Decision([d EXCEPT !.over = target], n + 1)
<1>. DEFINE x == [d EXCEPT !.over = target]
<1>1. DOMAIN x = DecisionFields /\ x.status = d.status /\ x.at = d.at /\ x.over = target
  BY DEF Decision, DecisionFields
<1>. HIDE DEF x
<1>2. x.at \in 0 .. (n + 1)
  BY <1>1 DEF Decision
<1>3. Decision(x, n + 1)
  BY <1>1, <1>2 DEF Decision
<1>. QED BY <1>3 DEF x

\* A flag turned leaves the rest of a decision.
LEMMA FlagWritten ==
  ASSUME NEW n \in Nat, NEW d, Decision(d, n), NEW on
  PROVE  Decision([d EXCEPT !.unlinked = on], n + 1) /\ Decision([d EXCEPT !.exclude = on], n + 1)
<1>. DEFINE x == [d EXCEPT !.unlinked = on]
            y == [d EXCEPT !.exclude = on]
<1>1. /\ DOMAIN x = DecisionFields /\ x.status = d.status /\ x.at = d.at /\ x.over = d.over
      /\ DOMAIN y = DecisionFields /\ y.status = d.status /\ y.at = d.at /\ y.over = d.over
  BY DEF Decision, DecisionFields
<1>. HIDE DEF x, y
<1>2. d.at \in 0 .. (n + 1)
  BY DEF Decision
<1>3. Decision(x, n + 1) /\ Decision(y, n + 1)
  BY <1>1, <1>2 DEF Decision
<1>. QED BY <1>3 DEF x, y

\* A decision of the past stays one.
LEMMA DecisionKept ==
  ASSUME NEW n \in Nat, NEW d, Decision(d, n)
  PROVE  Decision(d, n + 1)
BY DEF Decision

\* Decisions written over some findings, and no other, keep the table in order.
LEMMA TableKept ==
  ASSUME ReviewInv, decisions' = decisions + 1, found' = found, DOMAIN decided' = DOMAIN decided,
         \A i \in DOMAIN decided : decided'[i] = decided[i] \/ Decision(decided'[i], decisions + 1)
  PROVE  ReviewInv'
<1>1. \A i \in DOMAIN Facts : Decision(decided[i], decisions + 1)
  BY DecisionKept DEF ReviewInv
<1>. QED BY <1>1 DEF ReviewInv, InTable

\* A status written over some findings keeps the table.
LEMMA StatusKeeps ==
  ASSUME ReviewInv, decisions' = decisions + 1, found' = found, NEW ids, NEW s \in Status, NEW by, WriteStatus(ids, s, by)
  PROVE  ReviewInv'
<1>1. decisions \in Nat /\ \A i \in DOMAIN decided : Decision(decided[i], decisions)
  BY DEF ReviewInv
<1>2. decided' = [i \in DOMAIN decided |->
                    IF i \in ids THEN [decided[i] EXCEPT !.status = s, !.by = by, !.at = decisions + 1] ELSE decided[i]]
  BY DEF WriteStatus, Written
<1>3. \A i \in DOMAIN decided : Decision([decided[i] EXCEPT !.status = s, !.by = by, !.at = decisions + 1], decisions + 1)
  BY <1>1, DecisionWritten
<1>. QED BY <1>2, <1>3, TableKept

\* A severity does.
LEMMA OverKeeps ==
  ASSUME ReviewInv, decisions' = decisions + 1, found' = found, NEW ids, NEW target \in Range(ORDER) \cup {"none"},
         decided' = [i \in DOMAIN decided |-> IF i \in ids THEN [decided[i] EXCEPT !.over = target] ELSE decided[i]]
  PROVE  ReviewInv'
<1>1. decisions \in Nat /\ \A i \in DOMAIN decided : Decision(decided[i], decisions)
  BY DEF ReviewInv
<1>2. \A i \in DOMAIN decided : Decision([decided[i] EXCEPT !.over = target], decisions + 1)
  BY <1>1, SeverityWritten
<1>. QED BY <1>2, TableKept

\* A flag does.
LEMMA FlagKeeps ==
  ASSUME ReviewInv, decisions' = decisions + 1, found' = found, NEW ids, NEW on,
         \/ decided' = [i \in DOMAIN decided |-> IF i \in ids THEN [decided[i] EXCEPT !.unlinked = on] ELSE decided[i]]
         \/ decided' = [i \in DOMAIN decided |-> IF i \in ids THEN [decided[i] EXCEPT !.exclude = on] ELSE decided[i]]
  PROVE  ReviewInv'
<1>1. decisions \in Nat /\ \A i \in DOMAIN decided : Decision(decided[i], decisions)
  BY DEF ReviewInv
<1>2. \A i \in DOMAIN decided : /\ Decision([decided[i] EXCEPT !.unlinked = on], decisions + 1)
                                /\ Decision([decided[i] EXCEPT !.exclude = on], decisions + 1)
  BY <1>1, FlagWritten
<1>. QED BY <1>2, TableKept

\* What writes no finding keeps the table.
LEMMA OthersKeep ==
  ASSUME ReviewInv, decisions' = decisions \/ decisions' = decisions + 1, UNCHANGED table
  PROVE  ReviewInv'
<1>1. decisions \in Nat /\ \A i \in DOMAIN Facts : Decision(decided[i], decisions + 1)
  BY DecisionKept DEF ReviewInv
<1>. QED BY <1>1 DEF ReviewInv, InTable, table

\* It holds at the start.
LEMMA ReviewStarts == ReviewInit => ReviewInv
<1>. SUFFICES ASSUME ReviewInit PROVE ReviewInv
  OBVIOUS
<1>1. found = {} /\ decisions = 0 /\ decided = [i \in DOMAIN Facts |-> Undecided]
  BY DEF ReviewInit
<1>2. Decision(Undecided, 0)
  BY DEF Decision, Undecided, DecisionFields, Status
<1>. QED BY <1>1, <1>2 DEF ReviewInv, InTable

\* The decisions on an item of the queue.
LEMMA ItemsKeep ==
  ASSUME ReviewInv, NEW it,
         \/ \E s \in Status \ {"new"}, by \in Deciders : DecideItem(it, s, by)
         \/ \E v \in ChainVerdict, by \in Deciders : JudgeChain(it, v, by)
         \/ \E s \in Targets : Rescore(it, s) \/ RescoreChain(it, s)
         \/ Exclude(it)
         \/ \E of \in {{f} : f \in it.findings} \cup {it.findings} : Unlink(it, {f \in of : f.rule # "chain"})
         \/ LinkBack(it)
  PROVE  ReviewInv'
<1>1. ASSUME NEW s \in Status, NEW by, DecideItem(it, s, by) PROVE ReviewInv'
  BY <1>1, StatusKeeps DEF DecideItem, Ticks
<1>2. ASSUME NEW v \in ChainVerdict, NEW by, JudgeChain(it, v, by) PROVE ReviewInv'
  <2>. DEFINE s == StatusOfVerdict[v]
  <2>1. s \in Status
    BY DEF StatusOfVerdict, ChainVerdict, Status
  <2>2. WriteStatus(Ids(it.findings), s, by) /\ decisions' = decisions + 1 /\ found' = found
    BY <1>2 DEF JudgeChain, Ticks
  <2>. HIDE DEF s
  <2>. QED BY <2>1, <2>2, StatusKeeps
<1>3. ASSUME NEW s \in Targets, Rescore(it, s) PROVE ReviewInv'
  <2>1. s \in Range(ORDER) \cup {"none"} /\ decisions' = decisions + 1 /\ found' = found
    BY <1>3, ChoicesAssumption DEF Rescore, Ticks
  <2>2. CASE s = "none"
    <3>1. decided' = [i \in DOMAIN decided |-> IF i \in Ids(it.findings) THEN [decided[i] EXCEPT !.over = s] ELSE decided[i]]
      BY <1>3, <2>2 DEF Rescore, Written
    <3>. HIDE DEF Ids
    <3>. QED BY <2>1, <3>1, OverKeeps
  <2>3. CASE s # "none"
    <3>. DEFINE ids == Ids(overridesForIncident(it.findings, s))
    <3>1. decided' = [i \in DOMAIN decided |-> IF i \in ids THEN [decided[i] EXCEPT !.over = s] ELSE decided[i]]
      BY <1>3, <2>3 DEF Rescore, Written
    <3>. HIDE DEF ids
    <3>. QED BY <2>1, <3>1, OverKeeps
  <2>. QED BY <2>2, <2>3
<1>4. ASSUME NEW s, RescoreChain(it, s) PROVE ReviewInv'
  BY <1>4, OthersKeep DEF RescoreChain, Ticks, table
<1>5. ASSUME Exclude(it) PROVE ReviewInv'
  <2>1. decisions' = decisions + 1 /\ found' = found
    BY <1>5 DEF Exclude, Ticks
  <2>2. CASE it.kind = "chain"
    BY <1>5, <2>1, <2>2, OthersKeep DEF Exclude, table
  <2>3. CASE it.kind # "chain"
    <3>. DEFINE ids == Ids(it.findings)
                on == \E f \in it.findings : ~f.exclude
    <3>1. decided' = [i \in DOMAIN decided |-> IF i \in ids THEN [decided[i] EXCEPT !.exclude = on] ELSE decided[i]]
      BY <1>5, <2>3 DEF Exclude, Written
    <3>. HIDE DEF ids, on
    <3>. QED BY <2>1, <3>1, FlagKeeps
  <2>. QED BY <2>2, <2>3
<1>6. ASSUME NEW of, Unlink(it, of) PROVE ReviewInv'
  <2>. DEFINE ids == Ids(of)
              on == TRUE
  <2>1. decisions' = decisions + 1 /\ found' = found
    BY <1>6 DEF Unlink, Ticks
  <2>2. decided' = [i \in DOMAIN decided |-> IF i \in ids THEN [decided[i] EXCEPT !.unlinked = on] ELSE decided[i]]
    BY <1>6 DEF Unlink, Written
  <2>. HIDE DEF ids, on
  <2>. QED BY <2>1, <2>2, FlagKeeps
<1>7. ASSUME LinkBack(it) PROVE ReviewInv'
  <2>. DEFINE ids == Ids({f \in it.findings : f.unlinked})
              on == FALSE
  <2>1. decisions' = decisions + 1 /\ found' = found
    BY <1>7 DEF LinkBack, Ticks
  <2>2. decided' = [i \in DOMAIN decided |-> IF i \in ids THEN [decided[i] EXCEPT !.unlinked = on] ELSE decided[i]]
    BY <1>7 DEF LinkBack, Written
  <2>. HIDE DEF ids, on
  <2>. QED BY <2>1, <2>2, FlagKeeps
<1>. QED BY <1>1, <1>2, <1>3, <1>4, <1>5, <1>6, <1>7

\* Every step keeps it.
LEMMA ReviewStep == ReviewInv /\ [ReviewNext]_reviewVars => ReviewInv'
<1>. SUFFICES ASSUME ReviewInv, [ReviewNext]_reviewVars PROVE ReviewInv'
  OBVIOUS
<1>1. CASE UNCHANGED reviewVars
  BY <1>1, OthersKeep DEF reviewVars, table
<1>2. ASSUME NEW e, AddEvidence(e) PROVE ReviewInv'
  BY <1>2, OthersKeep DEF AddEvidence, table
<1>3. ASSUME NEW errors, RunRules(errors) PROVE ReviewInv'
  BY <1>3 DEF RunRules, ReviewInv, InTable
<1>4. ASSUME NEW of, NEW s \in Status, setStatusFor(of, s) PROVE ReviewInv'
  BY <1>4, StatusKeeps DEF setStatusFor, Ticks
<1>5. ASSUME NEW of, resetSeverityFor(of) PROVE ReviewInv'
  <2>. DEFINE ids == Ids(of)
              target == "none"
  <2>1. decisions' = decisions + 1 /\ found' = found /\ target \in Range(ORDER) \cup {"none"}
    BY <1>5 DEF resetSeverityFor, Ticks
  <2>2. decided' = [i \in DOMAIN decided |-> IF i \in ids THEN [decided[i] EXCEPT !.over = target] ELSE decided[i]]
    BY <1>5 DEF resetSeverityFor, Written
  <2>. HIDE DEF ids, target
  <2>. QED BY <2>1, <2>2, OverKeeps
<1>6. ASSUME NEW st, DecideStory(st) PROVE ReviewInv'
  BY <1>6, OthersKeep DEF DecideStory, Ticks, table
<1>7. ASSUME NEW s, saveReportSettings(s) PROVE ReviewInv'
  BY <1>7, OthersKeep DEF saveReportSettings, table
<1>8. ASSUME NEW failing, (\E id \in failing : Waive(id)) \/ Issue(failing) PROVE ReviewInv'
  BY <1>8, OthersKeep DEF Waive, Issue, Ticks, table
<1>. QED BY <1>1, <1>2, <1>3, <1>4, <1>5, <1>6, <1>7, <1>8, ItemsKeep DEF ReviewNext

\* What is not in the table: the stories decided, the evidence, the settings, the clock.
RestTypes ==
  told \subseteq StorySet /\ files \subseteq Files /\ print \in Settings /\ decisions \in 0 .. MaxDecisions

\* It holds at the start ...
LEMMA RestStarts == ReviewInit => RestTypes
BY ChoicesAssumption DEF ReviewInit, RestTypes

\* ... and every step keeps it.
LEMMA RestStep == RestTypes /\ [ReviewNext]_reviewVars => RestTypes'
<1>. SUFFICES ASSUME RestTypes, [ReviewNext]_reviewVars PROVE RestTypes'
  OBVIOUS
<1>. USE ChoicesAssumption DEF RestTypes, Ticks
<1>1. CASE UNCHANGED reviewVars
  BY <1>1 DEF reviewVars
<1>2. ASSUME NEW e \in Files, AddEvidence(e) PROVE RestTypes'
  BY <1>2 DEF AddEvidence
<1>3. ASSUME NEW errors, RunRules(errors) PROVE RestTypes'
  BY <1>3 DEF RunRules
<1>4. ASSUME NEW it, NEW s, NEW by, DecideItem(it, s, by) \/ JudgeChain(it, s, by) PROVE RestTypes'
  BY <1>4 DEF DecideItem, JudgeChain
<1>5. ASSUME NEW it, NEW s, Rescore(it, s) \/ RescoreChain(it, s) PROVE RestTypes'
  BY <1>5 DEF Rescore, RescoreChain
<1>6. ASSUME NEW it, Exclude(it) \/ LinkBack(it) PROVE RestTypes'
  BY <1>6 DEF Exclude, LinkBack
<1>7. ASSUME NEW it, NEW of, Unlink(it, of) PROVE RestTypes'
  BY <1>7 DEF Unlink
<1>8. ASSUME NEW of, NEW s, setStatusFor(of, s) \/ resetSeverityFor(of) PROVE RestTypes'
  BY <1>8 DEF setStatusFor, resetSeverityFor
<1>9. ASSUME NEW st \in StorySet, DecideStory(st) PROVE RestTypes'
  BY <1>9 DEF DecideStory
<1>10. ASSUME NEW s \in Settings, saveReportSettings(s) PROVE RestTypes'
  BY <1>10 DEF saveReportSettings
<1>11. ASSUME NEW failing, (\E id \in failing : Waive(id)) \/ Issue(failing) PROVE RestTypes'
  BY <1>11 DEF Waive, Issue
<1>. QED BY <1>1, <1>2, <1>3, <1>4, <1>5, <1>6, <1>7, <1>8, <1>9, <1>10, <1>11 DEF ReviewNext

\* The table's decisions are of the past.
LEMMA TableIsPast == ReviewInv => Past
<1>. SUFFICES ASSUME ReviewInv, NEW f \in fs PROVE f.at \in 0 .. decisions /\ f.over \in Range(ORDER) \cup {"none"}
  BY DEF Past
<1>1. f = finding(f.id) /\ f.id \in DOMAIN Facts
  BY FieldsOf DEF ReviewInv
<1>2. f.at = decided[f.id].at /\ f.over = decided[f.id].over
  BY <1>1 DEF finding
<1>. QED BY <1>1, <1>2 DEF ReviewInv, Decision

-----------------------------------------------------------------------------
(* The theorems *)

\* The tables hold what their types say: a finding's status, a story, a setting, a decision number there is.
THEOREM ReviewTypes == ReviewSpec => []ReviewTypeOK
<1>1. ReviewInv /\ RestTypes => ReviewTypeOK
  BY DEF ReviewInv, InTable, RestTypes, Decision, ReviewTypeOK
<1>. QED BY <1>1, ReviewStarts, ReviewStep, RestStarts, RestStep, PTL DEF ReviewSpec

\* What an analyst decides holds every finding once: no finding is lost between the chains, the mails, the
\* people and the rest, none is in two, and two incidents of one person lie further apart than the gap
\* (buildIncidents), whatever is decided, unlinked and found again.
THEOREM FindingsOnce == ReviewSpec => []EachFindingOnce
<1>1. ReviewInv => EachFindingOnce
  BY Partitioned DEF ReviewInv
<1>. QED BY <1>1, ReviewStarts, ReviewStep, PTL DEF ReviewSpec

\* Marking a finding false positive moves no other one up the list (scoreFindings): the weight and the repeats of
\* the others stay, the marked one corroborates nothing more, the rule's dismissals only grow in number, and the
\* mark is the latest decision on what it is about.
THEOREM DismissalLowers == ReviewSpec => []DismissalOnlyLowers
<1>1. ReviewInv => DismissalOnlyLowers
  BY TableIsPast, MarkLowers DEF ReviewInv
<1>. QED BY <1>1, ReviewStarts, ReviewStep, PTL DEF ReviewSpec

\* With every incident decided as a whole the verdict confirms a case or does not, whatever the report prints
\* (computeVerdict): what the selection hides is counted among the unprinted.
THEOREM ConfirmedStays == ReviewSpec => []ConfirmedStaysConfirmed
<1>1. ReviewInv /\ RestTypes => ConfirmedStaysConfirmed
  BY SameVerdict DEF ReviewInv, RestTypes
<1>. QED BY <1>1, ReviewStarts, ReviewStep, RestStarts, RestStep, PTL DEF ReviewSpec

\* The cover agrees with the decisions and with the checks: an escalated finding printed outside a chain has its
\* tactic confirmed, a report whose checks all pass is of high confidence (threatProfile, computeConfidence).
THEOREM CoverAgreed == ReviewSpec => []CoverAgrees
<1>1. ReviewInv => CoverAgrees
  BY CoverHolds DEF ReviewInv
<1>. QED BY <1>1, ReviewStarts, ReviewStep, PTL DEF ReviewSpec

=============================================================================
