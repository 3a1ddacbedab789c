---------------------------- MODULE Agent_proofs ----------------------------
(***************************************************************************)
(* Proofs about an investigation: for any rows, replies of the model and   *)
(* number of questions and clicks, what is shown as verified was returned  *)
(* by a tool earlier in the same conversation, and what is proposed after  *)
(* text that addresses a model was read says so, whatever conversation is  *)
(* shown, left, saved, opened again or deleted meanwhile; and what the     *)
(* model is sent of it is its first message and its newest rounds, each    *)
(* whole or compacted, whatever its window and what a result weighs.       *)
(***************************************************************************)
EXTENDS Agent, FiniteSetTheorems, SequenceTheorems, WellFoundedInduction, TLAPS

-----------------------------------------------------------------------------
(* The inductive invariant *)

IsSeq(s) == Len(s) \in Nat /\ s = [i \in 1 .. Len(s) |-> s[i]]

ChatFields == {"case", "busy", "wrapUp", "session", "messages", "seen", "plan"}
RunFields == {"pc", "case", "iter", "wrapping", "aborted", "cut", "empty", "leaks", "uncited", "cache", "todo",
              "sent", "exposed", "plan", "msgs", "seen", "told"}
RowFields == {"case", "messages", "seen", "plan"}

\* The rows the tools of a conversation returned.
Returned(msgs) == ReturnedBefore(msgs, Len(msgs) + 1)

\* What a conversation shows as verified was returned before; what a tool says is kept when it is saved, and so is
\* the question it begins with.
Honest(msgs) ==
  /\ IsSeq(msgs)
  /\ \A i \in 1 .. Len(msgs) :
       /\ msgs[i].verified \subseteq ReturnedBefore(msgs, i)
       /\ msgs[i].role = "tool" => msgs[i].synthetic = FALSE
       /\ "role" \in DOMAIN msgs[i]
       /\ i = 1 => msgs[i].role = "user" /\ msgs[i].synthetic = FALSE

\* What it may cite was returned in it.
Sound(msgs, seen) == Honest(msgs) /\ seen \subseteq Returned(msgs)

\* A run knows whether its conversation holds text that addresses a model.
Runs(r) ==
  /\ DOMAIN r = RunFields /\ r.pc # "off"
  /\ Sound(r.msgs, r.seen) /\ Len(r.msgs) > 0
  /\ r.exposed \in BOOLEAN /\ (Exposed(r.msgs) => r.exposed)

\* A row of a session.
KeptRow(row) == DOMAIN row = RowFields /\ Sound(row.messages, row.seen)

\* A conversation that can be asked a question in may cite what was returned in it.
Shown(s) ==
  /\ DOMAIN s = ChatFields /\ s.busy \in BOOLEAN /\ Honest(s.messages)
  /\ s.busy = FALSE => Sound(s.messages, s.seen)

\* A run waits for the write of its first question, which is the only one it waits for.
SavingInv ==
  /\ IsSeq(saving)
  /\ \A k \in 1 .. Len(saving) :
       /\ KeptRow(saving[k].row)
       /\ saving[k].then = "run" => /\ agent.pc = "first"
                                    /\ \A j \in 1 .. Len(saving) : saving[j].then = "run" => j = k

SessionsInv ==
  /\ \A i \in DOMAIN sessions : KeptRow(sessions[i])
  /\ \A i \in DOMAIN listed : KeptRow(listed[i])

AgentInv ==
  /\ Shown(chat) /\ SavingInv /\ SessionsInv
  /\ agent.pc # "off" => Runs(agent)
  /\ ExposureIsMarked

-----------------------------------------------------------------------------
(* Sequences and sets of positions *)

\* A sequence is one over its own elements.
LEMMA SeqOfOwn ==
  ASSUME NEW s, IsSeq(s)
  PROVE  s \in Seq({s[i] : i \in 1 .. Len(s)})
<1>1. s \in [1 .. Len(s) -> {s[i] : i \in 1 .. Len(s)}]
  BY DEF IsSeq
<1>. QED BY <1>1 DEF IsSeq

\* Any element of Seq(S) is a sequence in this sense.
LEMMA IsOne ==
  ASSUME NEW S, NEW s \in Seq(S)
  PROVE  IsSeq(s)
BY DEF IsSeq

\* A function on 1..n is a sequence of length n.
LEMMA FunctionIsSeq ==
  ASSUME NEW n \in Nat, NEW s, s = [i \in 1 .. n |-> s[i]]
  PROVE  IsSeq(s) /\ Len(s) = n
<1>1. s \in [1 .. n -> {s[i] : i \in 1 .. n}]
  OBVIOUS
<1>2. s \in Seq({s[i] : i \in 1 .. n}) /\ Len(s) = n
  BY <1>1
<1>. QED BY <1>2 DEF IsSeq

\* An element is added at the end.
LEMMA Appended ==
  ASSUME NEW s, IsSeq(s), NEW e
  PROVE  /\ IsSeq(Append(s, e)) /\ Len(Append(s, e)) = Len(s) + 1
         /\ \A i \in 1 .. Len(s) : Append(s, e)[i] = s[i]
         /\ Append(s, e)[Len(s) + 1] = e
<1>. DEFINE S == {s[i] : i \in 1 .. Len(s)} \cup {e}
<1>1. s \in Seq(S)
  <2>1. s \in [1 .. Len(s) -> S]
    BY DEF IsSeq
  <2>. QED BY <2>1 DEF IsSeq
<1>2. e \in S
  OBVIOUS
<1>. HIDE DEF S
<1>3. Append(s, e) \in Seq(S) /\ Len(Append(s, e)) = Len(s) + 1
  BY <1>1, <1>2
<1>4. IsSeq(Append(s, e))
  BY <1>3, IsOne
<1>. QED BY <1>1, <1>2, <1>3, <1>4

\* The first element is taken away.
LEMMA Shifted ==
  ASSUME NEW s, IsSeq(s), s # <<>>
  PROVE  /\ IsSeq(Tail(s)) /\ Len(Tail(s)) = Len(s) - 1 /\ Len(s) > 0 /\ Head(s) = s[1]
         /\ \A i \in 1 .. Len(s) - 1 : Tail(s)[i] = s[i + 1]
<1>. DEFINE S == {s[i] : i \in 1 .. Len(s)}
<1>1. s \in Seq(S)
  BY SeqOfOwn
<1>. HIDE DEF S
<1>2. Tail(s) \in Seq(S) /\ Len(Tail(s)) = Len(s) - 1 /\ Len(s) > 0 /\ Head(s) = s[1]
  BY <1>1
<1>3. IsSeq(Tail(s))
  BY <1>2, IsOne
<1>. QED BY <1>1, <1>2, <1>3

\* A message is added at the end.
LEMMA Added ==
  ASSUME NEW s, IsSeq(s), NEW m
  PROVE  /\ IsSeq(s \o <<m>>) /\ Len(s \o <<m>>) = Len(s) + 1
         /\ \A i \in 1 .. Len(s) : (s \o <<m>>)[i] = s[i]
         /\ (s \o <<m>>)[Len(s) + 1] = m
<1>. DEFINE S == {s[i] : i \in 1 .. Len(s)} \cup {m}
<1>1. s \in Seq(S)
  <2>1. s \in [1 .. Len(s) -> S]
    BY DEF IsSeq
  <2>. QED BY <2>1 DEF IsSeq
<1>2. m \in S
  OBVIOUS
<1>. HIDE DEF S
<1>3. s \o <<m>> = Append(s, m)
  BY <1>1, <1>2
<1>4. /\ IsSeq(Append(s, m)) /\ Len(Append(s, m)) = Len(s) + 1
      /\ \A i \in 1 .. Len(s) : Append(s, m)[i] = s[i]
      /\ Append(s, m)[Len(s) + 1] = m
  BY Appended
<1>. QED BY <1>3, <1>4, Zenon

\* Two messages are added one after the other.
LEMMA AddedTwo ==
  ASSUME NEW s, IsSeq(s), NEW a, NEW b
  PROVE  s \o <<a, b>> = (s \o <<a>>) \o <<b>>
<1>. DEFINE S == {s[i] : i \in 1 .. Len(s)} \cup {a, b}
<1>1. s \in Seq(S)
  <2>1. s \in [1 .. Len(s) -> S]
    BY DEF IsSeq
  <2>. QED BY <2>1 DEF IsSeq
<1>2. a \in S /\ b \in S
  OBVIOUS
<1>. HIDE DEF S
<1>3. s \o <<a>> \in Seq(S) /\ Len(s \o <<a>>) = Len(s) + 1 /\ Len(s) \in Nat
  BY <1>1, <1>2
<1>. DEFINE u == s \o <<a>>
            v == s \o <<a, b>>
            w == u \o <<b>>
<1>4. /\ v \in Seq(S) /\ Len(v) = Len(s) + 2
      /\ \A i \in 1 .. Len(s) + 2 : v[i] = IF i <= Len(s) THEN s[i] ELSE <<a, b>>[i - Len(s)]
  BY <1>1, <1>2
<1>5. \A i \in 1 .. Len(s) + 1 : u[i] = IF i <= Len(s) THEN s[i] ELSE a
  BY <1>1, <1>2
<1>6. u \in Seq(S) /\ Len(u) = Len(s) + 1
  BY <1>3
<1>. HIDE DEF u
<1>7. /\ w \in Seq(S) /\ Len(w) = Len(u) + 1
      /\ \A i \in 1 .. Len(u) + 1 : w[i] = IF i <= Len(u) THEN u[i] ELSE b
  BY <1>6, <1>2
<1>. HIDE DEF v, w
<1>8. ASSUME NEW i \in 1 .. Len(s) + 2
      PROVE  v[i] = w[i]
  <2>1. CASE i <= Len(s)
    BY <1>3, <1>4, <1>5, <1>6, <1>7, <2>1
  <2>2. CASE i = Len(s) + 1
    <3>1. v[i] = <<a, b>>[1] /\ w[i] = u[i] /\ u[i] = a
      BY <1>3, <1>4, <1>5, <1>6, <1>7, <2>2
    <3>. QED BY <3>1
  <2>3. CASE i = Len(s) + 2
    <3>1. i - Len(s) = 2 /\ ~(i <= Len(s)) /\ ~(i <= Len(u)) /\ i \in 1 .. Len(u) + 1
      BY <1>3, <1>6, <2>3
    <3>2. v[i] = <<a, b>>[2]
      BY <1>4, <3>1
    <3>3. w[i] = b
      BY <1>7, <3>1
    <3>. QED BY <3>2, <3>3
  <2>. QED BY <1>3, <2>1, <2>2, <2>3
<1>9. v = w
  BY <1>3, <1>4, <1>6, <1>7, <1>8
<1>. QED BY <1>9 DEF u, v, w

\* A set of numbers that is not empty has a least one.
LEMMA LeastOf ==
  ASSUME NEW S, S \subseteq Nat, S # {}
  PROVE  \E x \in S : \A y \in S : x =< y
<1>. DEFINE R == {ss \in Nat \X Nat : ss[1] < ss[2]}
<1>1. IsWellFoundedOn(R, Nat)
  BY NatLessThanWellFounded DEF OpToRel
<1>2. \A m, n \in Nat : m < n => <<m, n>> \in R
  OBVIOUS
<1>. HIDE DEF R
<1>3. PICK x \in S : \A y \in S : <<y, x>> \notin R
  BY <1>1, WFMin, Zenon
<1>4. \A y \in S : x \in Nat /\ y \in Nat /\ ~(y < x)
  BY <1>2, <1>3
<1>5. \A y \in S : x =< y
  BY <1>4, SMT
<1>. QED BY <1>5

\* A set of positions that is not empty has a last one.
LEMMA LastOf ==
  ASSUME NEW N \in Nat, NEW S, S \subseteq 1 .. N, S # {}
  PROVE  \E x \in S : \A y \in S : y =< x
<1>. DEFINE T == {N - y : y \in S}
<1>0. \A y \in S : y \in 1 .. N
  OBVIOUS
<1>1. T \subseteq Nat /\ T # {}
  <2>1. \A y \in S : N - y \in Nat
    BY <1>0
  <2>. QED BY <2>1
<1>2. \A y \in S : N - y \in T
  OBVIOUS
<1>3. \A t \in T : \E x \in S : t = N - x
  OBVIOUS
<1>. HIDE DEF T
<1>4. PICK t \in T : \A u \in T : t =< u
  BY <1>1, LeastOf
<1>5. PICK x \in S : t = N - x
  BY <1>3
<1>6. \A y \in S : N - x =< N - y /\ x \in 1 .. N /\ y \in 1 .. N
  BY <1>2, <1>4, <1>5
<1>7. \A y \in S : y =< x
  BY <1>6
<1>. QED BY <1>7

\* The positions up to one of them are counted: more up to a later one.
LEMMA RankGrows ==
  ASSUME NEW N \in Nat, NEW S, S \subseteq 1 .. N, NEW i \in S, NEW j \in S
  PROVE  /\ Cardinality({k \in S : k <= i}) \in Nat \ {0}
         /\ Cardinality({k \in S : k <= i}) =< Cardinality(S)
         /\ i < j => Cardinality({k \in S : k <= i}) < Cardinality({k \in S : k <= j})
<1>. DEFINE U(x) == {k \in S : k <= x}
<1>1. IsFiniteSet(S)
  <2>1. IsFiniteSet(1 .. N)
    BY FS_Interval
  <2>. QED BY <2>1, FS_Subset
<1>2. ASSUME NEW x \in S
      PROVE  IsFiniteSet(U(x)) /\ Cardinality(U(x)) \in Nat /\ Cardinality(U(x)) =< Cardinality(S)
  <2>1. U(x) \subseteq S
    OBVIOUS
  <2>. QED BY <1>1, <2>1, FS_Subset, FS_CardinalityType
<1>3. Cardinality(U(i)) # 0
  <2>1. i \in U(i)
    OBVIOUS
  <2>. QED BY <1>2, <2>1, FS_EmptySet
<1>4. ASSUME i < j
      PROVE  Cardinality(U(i)) < Cardinality(U(j))
  <2>1. i \in Int /\ j \in Int /\ \A k \in S : k \in Int
    OBVIOUS
  <2>2. U(i) \subseteq U(j) /\ j \in U(j) /\ j \notin U(i)
    <3>1. (\A k \in S : k <= i => k <= j) /\ j <= j /\ ~(j <= i)
      BY <1>4, <2>1
    <3>. QED BY <3>1, Zenon
  <2>3. U(i) # U(j)
    BY <2>2
  <2>. HIDE DEF U
  <2>4. Cardinality(U(i)) =< Cardinality(U(j)) /\ Cardinality(U(i)) # Cardinality(U(j))
    BY <1>2, <2>2, <2>3, FS_Subset
  <2>. QED BY <1>2, <2>4
<1>. QED BY <1>2, <1>3, <1>4

\* The n-th of a set of positions is there.
LEMMA NthIsThere ==
  ASSUME NEW N \in Nat, NEW S, S \subseteq 1 .. N, NEW n \in 1 .. Cardinality(S)
  PROVE  Nth(S, n) \in S /\ Cardinality({k \in S : k <= Nth(S, n)}) = n
<1>. DEFINE U(x) == {k \in S : k <= x}
            rank(x) == Cardinality(U(x))
<1>1. IsFiniteSet(S) /\ Cardinality(S) \in Nat
  <2>1. IsFiniteSet(1 .. N)
    BY FS_Interval
  <2>2. IsFiniteSet(S)
    BY <2>1, FS_Subset
  <2>. QED BY <2>2, FS_CardinalityType
<1>2. \A i, j \in S : rank(i) \in Nat \ {0} /\ (i < j => rank(i) < rank(j))
  BY RankGrows
<1>3. S # {}
  BY <1>1, FS_EmptySet
<1>. DEFINE A == {i \in S : rank(i) >= n}
<1>4. A # {}
  <2>1. PICK x \in S : \A y \in S : y =< x
    BY <1>3, LastOf
  <2>2. U(x) = S
    BY <2>1
  <2>3. rank(x) >= n
    BY <1>1, <2>2
  <2>. QED BY <2>1, <2>3
<1>5. A \subseteq Nat
  <2>1. \A k \in S : k \in Nat
    OBVIOUS
  <2>. QED BY <2>1, Zenon
<1>6. PICK i \in A : \A j \in A : i =< j
  <2>. HIDE DEF A
  <2>. QED BY <1>4, <1>5, LeastOf
<1>7. i \in S /\ rank(i) >= n
  BY <1>6
<1>. DEFINE P == {j \in S : j < i}
<1>8. rank(i) = n
  <2>1. CASE P = {}
    <3>1. \A k \in S : k \in Nat /\ ~(k < i) /\ i \in Nat
      BY <1>7, <2>1
    <3>2. U(i) = {i}
      <4>1. \A k \in S : k <= i <=> k = i
        BY <3>1
      <4>. QED BY <1>7, <4>1, Zenon
    <3>3. rank(i) = 1
      BY <3>2, FS_Singleton
    <3>. QED BY <1>7, <3>3
  <2>2. CASE P # {}
    <3>1. P \subseteq 1 .. N
      OBVIOUS
    <3>2. PICK p \in P : \A y \in P : y =< p
      <4>. HIDE DEF P
      <4>. QED BY <2>2, <3>1, LastOf
    <3>3. p \in S /\ p < i /\ p \in Int /\ i \in Int /\ \A k \in S : k \in Int
      BY <1>7, <3>2
    <3>4. U(p) = P
      <4>1. \A k \in S : k <= p => k < i
        BY <3>3
      <4>2. \A k \in S : k < i => k <= p
        BY <3>2
      <4>. QED BY <4>1, <4>2, Zenon
    <3>5. U(i) = P \cup {i} /\ i \notin P
      <4>1. (\A k \in S : k <= i <=> (k < i \/ k = i)) /\ ~(i < i)
        BY <1>7, <3>3
      <4>. QED BY <1>7, <4>1, Zenon
    <3>6. rank(p) < n
      <4>1. p \notin A
        BY <1>6, <3>3
      <4>2. ~(rank(p) >= n) /\ rank(p) \in Nat
        BY <1>2, <3>3, <4>1
      <4>. QED BY <1>1, <4>2
    <3>7. IsFiniteSet(P)
      BY <1>1, FS_Subset
    <3>8. Cardinality(P \cup {i}) = Cardinality(P) + 1
      BY <3>5, <3>7, FS_AddElement
    <3>9. rank(i) = rank(p) + 1 /\ rank(p) \in Nat
      BY <1>2, <3>3, <3>4, <3>5, <3>8
    <3>. HIDE DEF rank
    <3>. QED BY <1>7, <3>6, <3>9
  <2>. QED BY <2>1, <2>2
<1>. QED BY <1>7, <1>8 DEF Nth

-----------------------------------------------------------------------------
(* Conversations *)

\* What a tool returned at an earlier position has been returned.
LEMMA InReturned ==
  ASSUME NEW msgs, NEW i, NEW x
  PROVE  x \in ReturnedBefore(msgs, i) <=> \E j \in 1 .. i - 1 : msgs[j].role = "tool" /\ x \in msgs[j].refs
BY Zenon DEF ReturnedBefore

\* A message that cites as verified what the conversation may cite can be added; a tool's result adds its rows.
LEMMA SoundMore ==
  ASSUME NEW msgs, NEW seen, Sound(msgs, seen), NEW m, NEW more,
         m.verified \subseteq seen, m.role = "tool" => m.synthetic = FALSE, "role" \in DOMAIN m,
         Len(msgs) > 0 \/ (m.role = "user" /\ m.synthetic = FALSE),
         more \subseteq seen \/ (m.role = "tool" /\ more \subseteq seen \cup m.refs)
  PROVE  Sound(msgs \o <<m>>, more)
<1>. DEFINE t == msgs \o <<m>>
<1>1. IsSeq(msgs) /\ Len(msgs) \in Nat
  BY DEF Sound, Honest, IsSeq
<1>2. /\ IsSeq(t) /\ Len(t) = Len(msgs) + 1 /\ t[Len(msgs) + 1] = m
      /\ \A i \in 1 .. Len(msgs) : t[i] = msgs[i]
  BY <1>1, Added
<1>. HIDE DEF t
<1>3. ASSUME NEW i \in 1 .. Len(msgs) + 1, NEW x, x \in ReturnedBefore(msgs, i)
      PROVE  x \in ReturnedBefore(t, i) /\ x \in Returned(t)
  <2>1. PICK j \in 1 .. i - 1 : msgs[j].role = "tool" /\ x \in msgs[j].refs
    BY <1>3, InReturned
  <2>2. j \in 1 .. Len(msgs) /\ j \in 1 .. (Len(t) + 1) - 1
    BY <1>1, <1>2
  <2>3. t[j].role = "tool" /\ x \in t[j].refs
    BY <1>2, <2>1, <2>2
  <2>4. x \in ReturnedBefore(t, i) /\ x \in ReturnedBefore(t, Len(t) + 1)
    BY <2>2, <2>3, InReturned
  <2>. QED BY <2>4 DEF Returned
<1>4. Len(msgs) + 1 \in 1 .. Len(msgs) + 1
  BY <1>1
<1>5. \A x \in seen : x \in ReturnedBefore(msgs, Len(msgs) + 1)
  BY DEF Sound, Returned
<1>6. \A x \in seen : x \in ReturnedBefore(t, Len(msgs) + 1) /\ x \in Returned(t)
  BY <1>3, <1>4, <1>5
<1>7. more \subseteq Returned(t)
  <2>1. CASE more \subseteq seen
    BY <1>6, <2>1
  <2>2. CASE m.role = "tool" /\ more \subseteq seen \cup m.refs
    <3>1. ASSUME NEW x \in m.refs
          PROVE  x \in Returned(t)
      <4>1. Len(msgs) + 1 \in 1 .. (Len(t) + 1) - 1
        BY <1>1, <1>2
      <4>2. x \in ReturnedBefore(t, Len(t) + 1)
        BY <1>2, <2>2, <4>1, InReturned
      <4>. QED BY <4>2 DEF Returned
    <3>. QED BY <1>6, <2>2, <3>1
  <2>. QED BY <2>1, <2>2
<1>8. ASSUME NEW i \in 1 .. Len(t)
      PROVE  /\ t[i].verified \subseteq ReturnedBefore(t, i)
             /\ t[i].role = "tool" => t[i].synthetic = FALSE
             /\ "role" \in DOMAIN t[i]
             /\ i = 1 => t[i].role = "user" /\ t[i].synthetic = FALSE
  <2>1. CASE i = Len(msgs) + 1
    <3>1. i = 1 => ~(Len(msgs) > 0)
      BY <1>1, <2>1
    <3>. QED BY <1>2, <1>6, <2>1, <3>1
  <2>2. CASE i \in 1 .. Len(msgs)
    <3>1. t[i] = msgs[i] /\ i \in 1 .. Len(msgs) + 1
      BY <1>1, <1>2, <2>2
    <3>2. /\ msgs[i].verified \subseteq ReturnedBefore(msgs, i) /\ (msgs[i].role = "tool" => msgs[i].synthetic = FALSE)
          /\ "role" \in DOMAIN msgs[i] /\ (i = 1 => msgs[i].role = "user" /\ msgs[i].synthetic = FALSE)
      BY <2>2 DEF Sound, Honest
    <3>. QED BY <1>3, <3>1, <3>2
  <2>3. i = Len(msgs) + 1 \/ i \in 1 .. Len(msgs)
    BY <1>1, <1>2
  <2>. QED BY <2>1, <2>2, <2>3
<1>. QED BY <1>2, <1>7, <1>8 DEF Sound, Honest, t

\* What is kept of a conversation keeps each tool's result before what cites it.
LEMMA KeptIsSound ==
  ASSUME NEW msgs, NEW seen, Sound(msgs, seen)
  PROVE  Sound(kept(msgs), seen)
<1>. DEFINE own == {i \in DOMAIN msgs : ~msgs[i].synthetic}
            n == Cardinality(own)
            t == kept(msgs)
            N == Len(msgs)
            rank(i) == Cardinality({k \in own : k <= i})
<1>1. IsSeq(msgs) /\ N \in Nat /\ DOMAIN msgs = 1 .. N
  BY DEF Sound, Honest, IsSeq
<1>2. own \subseteq 1 .. N
  BY <1>1
<1>3. n \in Nat
  <2>1. IsFiniteSet(1 .. N)
    BY <1>1, FS_Interval
  <2>2. IsFiniteSet(own)
    BY <1>2, <2>1, FS_Subset
  <2>. QED BY <2>2, FS_CardinalityType
<1>4. t = [k \in 1 .. n |-> msgs[Nth(own, k)]]
  BY DEF kept
<1>5. IsSeq(t) /\ Len(t) = n
  <2>. HIDE DEF n, own
  <2>1. t = [k \in 1 .. n |-> t[k]]
    BY <1>4
  <2>. HIDE DEF t
  <2>. QED BY <1>3, <2>1, FunctionIsSeq
<1>6. \A i \in own : ~msgs[i].synthetic
  OBVIOUS
<1>7. \A i \in 1 .. N : msgs[i].role = "tool" => i \in own
  <2>1. \A i \in 1 .. N : msgs[i].role = "tool" => msgs[i].synthetic = FALSE
    BY DEF Sound, Honest
  <2>. QED BY <1>1, <2>1
<1>. HIDE DEF own, n, t
<1>8. \A i \in own : i \in 1 .. N /\ i \in 1 .. N + 1 /\ i \in Int
  <2>1. \A i \in own : i \in 1 .. N
    BY <1>2
  <2>. QED BY <1>1, <2>1
<1>9. \A k \in 1 .. n : Nth(own, k) \in own /\ rank(Nth(own, k)) = k
  BY <1>1, <1>2, NthIsThere DEF n
<1>10. \A i, j \in own : rank(i) \in Nat \ {0} /\ rank(i) =< n /\ (i < j => rank(i) < rank(j))
  BY <1>1, <1>2, RankGrows DEF n
<1>. HIDE DEF rank
<1>11. ASSUME NEW i \in own
       PROVE  rank(i) \in 1 .. n /\ Nth(own, rank(i)) = i
  <2>1. rank(i) \in 1 .. n
    BY <1>3, <1>10
  <2>2. Nth(own, rank(i)) \in own /\ rank(Nth(own, rank(i))) = rank(i)
    BY <1>9, <2>1
  <2>3. i \in Int /\ Nth(own, rank(i)) \in Int
    BY <1>8, <2>2
  <2>4. ~(i < Nth(own, rank(i))) /\ ~(Nth(own, rank(i)) < i)
    BY <1>10, <2>2
  <2>. QED BY <2>1, <2>3, <2>4
<1>12. \A i \in own : t[rank(i)] = msgs[i]
  BY <1>4, <1>11
<1>13. ASSUME NEW b \in 1 .. N + 1, NEW x, x \in ReturnedBefore(msgs, b)
       PROVE  /\ \E j \in own : j < b /\ t[rank(j)].role = "tool" /\ x \in t[rank(j)].refs
              /\ x \in Returned(t)
  <2>1. PICK j \in 1 .. b - 1 : msgs[j].role = "tool" /\ x \in msgs[j].refs
    BY <1>13, InReturned
  <2>2. j \in 1 .. N /\ j < b
    BY <1>1
  <2>3. j \in own
    BY <1>7, <2>1, <2>2
  <2>4. t[rank(j)].role = "tool" /\ x \in t[rank(j)].refs
    BY <1>12, <2>1, <2>3
  <2>5. rank(j) \in 1 .. (Len(t) + 1) - 1
    BY <1>3, <1>5, <1>11, <2>3
  <2>6. x \in ReturnedBefore(t, Len(t) + 1)
    BY <2>4, <2>5, InReturned
  <2>. QED BY <2>2, <2>3, <2>4, <2>6 DEF Returned
<1>14. ASSUME NEW k \in 1 .. Len(t)
       PROVE  /\ t[k].verified \subseteq ReturnedBefore(t, k)
              /\ t[k].role = "tool" => t[k].synthetic = FALSE
              /\ "role" \in DOMAIN t[k]
              /\ k = 1 => t[k].role = "user" /\ t[k].synthetic = FALSE
  <2>. DEFINE i == Nth(own, k)
  <2>1. i \in own /\ rank(i) = k /\ t[k] = msgs[i]
    BY <1>4, <1>5, <1>9
  <2>2. i \in 1 .. N /\ i \in 1 .. N + 1
    BY <1>8, <2>1
  <2>. HIDE DEF i
  <2>3. /\ msgs[i].verified \subseteq ReturnedBefore(msgs, i) /\ (msgs[i].role = "tool" => msgs[i].synthetic = FALSE)
        /\ "role" \in DOMAIN msgs[i] /\ (i = 1 => msgs[i].role = "user" /\ msgs[i].synthetic = FALSE)
    BY <2>2 DEF Sound, Honest
  <2>4. ASSUME NEW x \in t[k].verified
        PROVE  x \in ReturnedBefore(t, k)
    <3>1. x \in ReturnedBefore(msgs, i)
      BY <2>1, <2>3, <2>4
    <3>2. PICK j \in own : j < i /\ t[rank(j)].role = "tool" /\ x \in t[rank(j)].refs
      BY <1>13, <2>2, <3>1
    <3>3. rank(j) < k /\ rank(j) \in 1 .. n
      BY <1>10, <1>11, <2>1, <3>2
    <3>4. rank(j) \in 1 .. k - 1
      BY <1>3, <1>5, <3>3
    <3>. QED BY <3>2, <3>4, InReturned
  <2>5. k = 1 => i = 1
    <3>1. 1 \in 1 .. N
      BY <1>1, <2>2
    <3>2. msgs[1].synthetic = FALSE
      BY <3>1 DEF Sound, Honest
    <3>3. 1 \in own
      BY <1>1, <3>1, <3>2 DEF own
    <3>4. k = 1 => ~(1 < i)
      BY <1>10, <2>1, <3>3
    <3>. QED BY <2>2, <3>4
  <2>. QED BY <2>1, <2>3, <2>4, <2>5
<1>15. seen \subseteq Returned(t)
  <2>1. N + 1 \in 1 .. N + 1
    BY <1>1
  <2>2. \A x \in seen : x \in ReturnedBefore(msgs, N + 1)
    BY DEF Sound, Returned
  <2>. QED BY <1>13, <2>1, <2>2
<1>. QED BY <1>5, <1>14, <1>15 DEF Sound, Honest, t

-----------------------------------------------------------------------------
(* A run *)

\* A run that has said or been told one thing more.
LEMMA RunMore ==
  ASSUME NEW r, Runs(r), NEW m, NEW q,
         DOMAIN q = RunFields, q.pc # "off", q.msgs = r.msgs \o <<m>>,
         q.seen \subseteq r.seen \/ (m.role = "tool" /\ q.seen \subseteq r.seen \cup m.refs),
         m.verified \subseteq r.seen, m.role = "tool" => m.synthetic = FALSE, "role" \in DOMAIN m,
         q.exposed \in BOOLEAN, r.exposed => q.exposed, m.suspects => q.exposed
  PROVE  Runs(q)
<1>1. Sound(q.msgs, q.seen)
  <2>1. Sound(r.msgs, r.seen) /\ Len(r.msgs) > 0
    BY DEF Runs
  <2>2. Sound(r.msgs \o <<m>>, q.seen)
    BY <2>1, SoundMore
  <2>. QED BY <2>2
<1>2. Exposed(q.msgs) => q.exposed
  <2>. SUFFICES ASSUME NEW i \in DOMAIN q.msgs, q.msgs[i].suspects
                PROVE  q.exposed
    BY DEF Exposed
  <2>1. IsSeq(r.msgs) /\ Len(r.msgs) \in Nat
    BY DEF Runs, Sound, Honest, IsSeq
  <2>2. /\ IsSeq(q.msgs) /\ Len(q.msgs) = Len(r.msgs) + 1 /\ q.msgs[Len(r.msgs) + 1] = m
        /\ \A j \in 1 .. Len(r.msgs) : q.msgs[j] = r.msgs[j]
    BY <2>1, Added
  <2>3. DOMAIN q.msgs = 1 .. Len(q.msgs) /\ DOMAIN r.msgs = 1 .. Len(r.msgs)
    BY <2>1, <2>2 DEF IsSeq
  <2>4. CASE i \in 1 .. Len(r.msgs)
    <3>1. Exposed(r.msgs)
      BY <2>2, <2>3, <2>4 DEF Exposed
    <3>. QED BY <3>1 DEF Runs
  <2>5. CASE i = Len(r.msgs) + 1
    BY <2>2, <2>5
  <2>. QED BY <2>1, <2>2, <2>3, <2>4, <2>5
<1>3. Len(q.msgs) > 0
  <2>1. IsSeq(r.msgs) /\ Len(r.msgs) \in Nat
    BY DEF Runs, Sound, Honest, IsSeq
  <2>2. Len(q.msgs) = Len(r.msgs) + 1
    BY <2>1, Added
  <2>. QED BY <2>1, <2>2
<1>. QED BY <1>1, <1>2, <1>3 DEF Runs

\* A step of the loop that says or is told nothing.
LEMMA RunSame ==
  ASSUME NEW r, Runs(r), NEW q,
         DOMAIN q = RunFields, q.pc # "off", q.msgs = r.msgs, q.seen = r.seen, q.exposed = r.exposed
  PROVE  Runs(q)
BY DEF Runs

\* The messages the loop itself adds cite nothing and hold nothing of the case.
LEMMA PlainMessages ==
  /\ Nudge.verified = {} /\ Nudge.role # "tool" /\ Nudge.suspects = FALSE /\ "role" \in DOMAIN Nudge
  /\ Says.verified = {} /\ Says.role # "tool" /\ Says.suspects = FALSE /\ "role" \in DOMAIN Says
  /\ ToolSays.verified = {} /\ ToolSays.synthetic = FALSE /\ ToolSays.suspects = FALSE /\ "role" \in DOMAIN ToolSays
BY DEF Nudge, Says, ToolSays, Message

\* What such a message leaves of a run.
LEMMA Pushed ==
  ASSUME NEW r, Runs(r), NEW m,
         m.verified \subseteq r.seen, m.role = "tool" => m.synthetic = FALSE, m.suspects = FALSE, "role" \in DOMAIN m
  PROVE  Runs(Push(r, <<m>>))
<1>. DEFINE q == Push(r, <<m>>)
<1>1. /\ DOMAIN q = RunFields /\ q.pc # "off" /\ q.msgs = r.msgs \o <<m>>
      /\ q.seen = r.seen /\ q.exposed = r.exposed /\ r.exposed \in BOOLEAN
  BY DEF Push, Runs, RunFields
<1>. HIDE DEF q
<1>. QED BY <1>1, RunMore DEF q

\* What two of them leave.
LEMMA PushedTwo ==
  ASSUME NEW r, Runs(r), NEW a, NEW b,
         a.verified \subseteq r.seen, a.role = "tool" => a.synthetic = FALSE, a.suspects = FALSE, "role" \in DOMAIN a,
         b.verified \subseteq r.seen, b.role = "tool" => b.synthetic = FALSE, b.suspects = FALSE, "role" \in DOMAIN b
  PROVE  Runs(Push(r, <<a, b>>))
<1>. DEFINE s == Push(r, <<a>>)
<1>1. Runs(s)
  BY Pushed
<1>2. DOMAIN r = RunFields /\ IsSeq(r.msgs)
  BY DEF Runs, Sound, Honest
<1>3. s.seen = r.seen
  BY <1>2 DEF Push, RunFields
<1>4. Runs(Push(s, <<b>>))
  <2>. HIDE DEF s
  <2>. QED BY <1>1, <1>3, Pushed
<1>5. Push(s, <<b>>) = Push(r, <<a, b>>)
  <2>1. r.msgs \o <<a, b>> = (r.msgs \o <<a>>) \o <<b>>
    BY <1>2, AddedTwo
  <2>. QED BY <1>2, <2>1 DEF Push, RunFields
<1>. QED BY <1>4, <1>5

-----------------------------------------------------------------------------
(* What a step of the run does to the page and the sessions *)

\* A conversation that is not running is left when the case is.
LEMMA BoundIsShown ==
  ASSUME NEW s, Shown(s), NEW c
  PROVE  Shown(bindChatToCase(s, c))
<1>1. Shown(Chat(c))
  BY DEF Shown, Chat, ChatFields, Sound, Honest, IsSeq, Returned, ReturnedBefore
<1>. QED BY <1>1 DEF bindChatToCase

\* What a run is saved as.
LEMMA PersistIsKept ==
  ASSUME NEW s, NEW r, Runs(r), NEW then
  PROVE  KeptRow(persist(s, r, then).row) /\ persist(s, r, then).then = then
<1>1. Sound(kept(r.msgs), r.seen)
  BY KeptIsSound DEF Runs
<1>. QED BY <1>1 DEF persist, KeptRow, RowFields

\* The run goes on.
LEMMA GoesKeeps ==
  ASSUME AgentInv, agent.pc \in {"turn", "wait", "tools"}, NEW q, Runs(q), Goes(q),
         UNCHANGED <<sessions, listed>>, ExposureIsMarked'
  PROVE  AgentInv'
<1>1. agent' = q /\ saving' = saving
  BY DEF Goes
<1>2. Shown(chat')
  BY DEF Goes, Shows, Shown, ChatFields, Runs, Sound, AgentInv
<1>3. SavingInv'
  BY <1>1 DEF AgentInv, SavingInv
<1>4. SessionsInv'
  BY DEF AgentInv, SessionsInv
<1>. QED BY <1>1, <1>2, <1>3, <1>4 DEF AgentInv

\* The run is over.
LEMMA EndsKeeps ==
  ASSUME AgentInv, agent.pc \in {"turn", "wait", "tools"}, NEW q, Runs(q), Ends(q),
         UNCHANGED <<sessions, listed>>, ExposureIsMarked'
  PROVE  AgentInv'
<1>. DEFINE p == persist(chat, q, "end")
<1>1. agent'.pc = "off" /\ saving' = Append(saving, p)
  BY DEF Ends, NotRunning
<1>2. KeptRow(p.row) /\ p.then = "end"
  BY PersistIsKept
<1>. HIDE DEF p
<1>3. Shown(chat')
  BY DEF Ends, Shown, ChatFields, Runs, Sound, AgentInv
<1>4. SavingInv'
  <2>1. IsSeq(saving) /\ Len(saving) \in Nat
    BY DEF AgentInv, SavingInv, IsSeq
  <2>2. /\ IsSeq(saving') /\ Len(saving') = Len(saving) + 1 /\ saving'[Len(saving) + 1] = p
        /\ \A k \in 1 .. Len(saving) : saving'[k] = saving[k]
    BY <1>1, <2>1, Appended
  <2>3. \A k \in 1 .. Len(saving) : KeptRow(saving[k].row) /\ saving[k].then # "run"
    BY DEF AgentInv, SavingInv
  <2>4. ASSUME NEW k \in 1 .. Len(saving')
        PROVE  KeptRow(saving'[k].row) /\ saving'[k].then # "run"
    <3>1. k \in 1 .. Len(saving) \/ k = Len(saving) + 1
      BY <2>1, <2>2
    <3>. QED BY <1>2, <2>2, <2>3, <3>1
  <2>. QED BY <2>2, <2>4 DEF SavingInv
<1>5. SessionsInv'
  BY DEF AgentInv, SessionsInv
<1>. QED BY <1>1, <1>3, <1>4, <1>5 DEF AgentInv

\* The next turn, or the end after the last one.
LEMMA NextTurnKeeps ==
  ASSUME AgentInv, agent.pc \in {"turn", "wait", "tools"}, NEW q, Runs(q), NextTurn(q),
         UNCHANGED <<sessions, listed>>, ExposureIsMarked'
  PROVE  AgentInv'
<1>1. CASE Goes([q EXCEPT !.iter = @ + 1, !.pc = "turn"])
  <2>. DEFINE n == [q EXCEPT !.iter = @ + 1, !.pc = "turn"]
  <2>1. /\ DOMAIN n = RunFields /\ n.pc # "off" /\ n.msgs = q.msgs /\ n.seen = q.seen /\ n.exposed = q.exposed
    BY DEF Runs, RunFields
  <2>. HIDE DEF n
  <2>2. Runs(n)
    BY <2>1, RunSame
  <2>. QED BY <1>1, <2>2, GoesKeeps DEF n
<1>2. CASE Ends(Push(q, <<Says>>))
  <2>1. Runs(Push(q, <<Says>>))
    BY Pushed, PlainMessages
  <2>. QED BY <1>2, <2>1, EndsKeeps
<1>. QED BY <1>1, <1>2 DEF NextTurn

-----------------------------------------------------------------------------
(* The steps of a run *)

\* A step that queues nothing marks nothing.
LEMMA NothingQueued ==
  ASSUME AgentInv, UNCHANGED queued
  PROVE  ExposureIsMarked'
BY DEF AgentInv, ExposureIsMarked

\* A turn is asked for.
LEMMA AskTurnKeeps ==
  ASSUME AgentInv, AskTurn
  PROVE  AgentInv'
<1>1. Runs(agent) /\ agent.pc = "turn"
  BY DEF AskTurn, AgentInv
<1>2. ExposureIsMarked' /\ UNCHANGED <<sessions, listed>>
  BY NothingQueued DEF AskTurn, Untouched
<1>. DEFINE asked == ~agent.wrapping /\ (agent.iter >= Budget \/ chat.wrapUp)
            w == [agent EXCEPT !.wrapping = TRUE]
            r == IF asked THEN Push(w, <<Nudge>>) ELSE agent
            q == [r EXCEPT !.pc = "wait",
                           !.sent = fitToBudget(r.msgs, conversationBudget(Window, Schemas, ~r.wrapping))]
<1>3. Goes(q)
  BY DEF AskTurn
<1>4. Runs(r)
  <2>1. /\ DOMAIN w = RunFields /\ w.pc # "off" /\ w.msgs = agent.msgs /\ w.seen = agent.seen
        /\ w.exposed = agent.exposed
    BY <1>1 DEF Runs, RunFields
  <2>. HIDE DEF w
  <2>2. Runs(w)
    BY <1>1, <2>1, RunSame
  <2>3. Runs(Push(w, <<Nudge>>))
    BY <2>2, Pushed, PlainMessages
  <2>. QED BY <1>1, <2>3
<1>. HIDE DEF r
<1>5. DOMAIN q = RunFields /\ q.pc # "off" /\ q.msgs = r.msgs /\ q.seen = r.seen /\ q.exposed = r.exposed
  BY <1>4 DEF Runs, RunFields
<1>. HIDE DEF q
<1>6. Runs(q)
  BY <1>4, <1>5, RunSame
<1>. QED BY <1>1, <1>2, <1>3, <1>6, GoesKeeps

\* An answer cites as verified what its conversation may cite.
LEMMA AnswerCites ==
  ASSUME NEW r, NEW cites
  PROVE  /\ Answer(r, cites).verified \subseteq r.seen /\ Answer(r, cites).role # "tool"
         /\ Answer(r, cites).suspects = FALSE /\ "role" \in DOMAIN Answer(r, cites)
BY DEF Answer, Says, Message, verifiedIn

\* An answer ends the run, or is sent back.
LEMMA AnswersKeeps ==
  ASSUME AgentInv, agent.pc \in {"turn", "wait", "tools"}, Runs(agent), NEW cites, Answers(agent, cites),
         UNCHANGED <<sessions, listed>>, ExposureIsMarked'
  PROVE  AgentInv'
<1>. DEFINE w == [agent EXCEPT !.uncited = TRUE]
            draft == [Says EXCEPT !.draft = TRUE]
<1>1. CASE NextTurn(Push(w, <<draft, Nudge>>))
  <2>1. /\ DOMAIN w = RunFields /\ w.pc # "off" /\ w.msgs = agent.msgs /\ w.seen = agent.seen
        /\ w.exposed = agent.exposed
    BY DEF Runs, RunFields
  <2>2. draft.verified = {} /\ draft.role # "tool" /\ draft.suspects = FALSE /\ "role" \in DOMAIN draft
    BY DEF Says, Message
  <2>. HIDE DEF w, draft
  <2>3. Runs(w)
    BY <2>1, RunSame
  <2>4. Runs(Push(w, <<draft, Nudge>>))
    BY <2>2, <2>3, PushedTwo, PlainMessages
  <2>. QED BY <1>1, <2>4, NextTurnKeeps
<1>2. CASE Ends(Push(agent, <<Answer(agent, cites)>>))
  <2>1. Runs(Push(agent, <<Answer(agent, cites)>>))
    BY Pushed, AnswerCites
  <2>. QED BY <1>2, <2>1, EndsKeeps
<1>. QED BY <1>1, <1>2 DEF Answers

\* A reply of the model arrives.
LEMMA ReplyArrivesKeeps ==
  ASSUME AgentInv, NEW reply, ReplyArrives(reply)
  PROVE  AgentInv'
<1>1. agent.pc = "wait" /\ Runs(agent)
  BY DEF ReplyArrives, AgentInv
<1>2. ExposureIsMarked' /\ UNCHANGED <<sessions, listed>>
  BY NothingQueued DEF ReplyArrives, Untouched
<1>. DEFINE calls == IF agent.wrapping THEN <<>> ELSE reply.calls
            e == [agent EXCEPT !.empty = TRUE]
            l == [agent EXCEPT !.leaks = @ + 1]
            c == [agent EXCEPT !.pc = "tools", !.todo = calls, !.cut = FALSE]
            said == [Says EXCEPT !.calls = calls]
<1>3. /\ DOMAIN e = RunFields /\ e.pc # "off" /\ e.msgs = agent.msgs /\ e.seen = agent.seen
      /\ e.exposed = agent.exposed
  BY <1>1 DEF Runs, RunFields
<1>4. /\ DOMAIN l = RunFields /\ l.pc # "off" /\ l.msgs = agent.msgs /\ l.seen = agent.seen
      /\ l.exposed = agent.exposed
  BY <1>1 DEF Runs, RunFields
<1>5. /\ DOMAIN c = RunFields /\ c.pc # "off" /\ c.msgs = agent.msgs /\ c.seen = agent.seen
      /\ c.exposed = agent.exposed
  BY <1>1 DEF Runs, RunFields
<1>6. said.verified = {} /\ said.role # "tool" /\ said.suspects = FALSE /\ "role" \in DOMAIN said
  BY DEF Says, Message
<1>7. \/ NextTurn(Push(e, <<Nudge>>)) \/ NextTurn(Push(l, <<Says, Nudge>>))
      \/ Answers(agent, reply.cites) \/ Goes(Push(c, <<said>>))
  BY Zenon DEF ReplyArrives
<1>. HIDE DEF e, l, c, said, calls
<1>8. CASE NextTurn(Push(e, <<Nudge>>))
  <2>1. Runs(e)
    BY <1>1, <1>3, RunSame
  <2>2. Runs(Push(e, <<Nudge>>))
    BY <2>1, Pushed, PlainMessages
  <2>. QED BY <1>1, <1>2, <1>8, <2>2, NextTurnKeeps
<1>9. CASE NextTurn(Push(l, <<Says, Nudge>>))
  <2>1. Runs(l)
    BY <1>1, <1>4, RunSame
  <2>2. Runs(Push(l, <<Says, Nudge>>))
    BY <2>1, PushedTwo, PlainMessages
  <2>. QED BY <1>1, <1>2, <1>9, <2>2, NextTurnKeeps
<1>10. CASE Answers(agent, reply.cites)
  BY <1>1, <1>2, <1>10, AnswersKeeps
<1>11. CASE Goes(Push(c, <<said>>))
  <2>1. Runs(c)
    BY <1>1, <1>5, RunSame
  <2>2. Runs(Push(c, <<said>>))
    BY <1>6, <2>1, Pushed
  <2>. QED BY <1>1, <1>2, <1>11, <2>2, GoesKeeps
<1>. QED BY <1>7, <1>8, <1>9, <1>10, <1>11

\* The model server fails.
LEMMA ModelFailsKeeps ==
  ASSUME AgentInv, ModelFails
  PROVE  AgentInv'
<1>1. agent.pc = "wait" /\ Runs(agent) /\ Ends(Push(agent, <<Says>>))
  BY DEF ModelFails, AgentInv
<1>2. ExposureIsMarked' /\ UNCHANGED <<sessions, listed>>
  BY NothingQueued DEF ModelFails, Untouched
<1>3. Runs(Push(agent, <<Says>>))
  BY <1>1, Pushed, PlainMessages
<1>. QED BY <1>1, <1>2, <1>3, EndsKeeps

\* The run is stopped.
LEMMA AbortedKeeps ==
  ASSUME AgentInv, Aborted
  PROVE  AgentInv'
<1>1. agent.pc \in {"wait", "tools"} /\ Runs(agent) /\ Ends(agent)
  BY DEF Aborted, AgentInv
<1>2. ExposureIsMarked' /\ UNCHANGED <<sessions, listed>>
  BY NothingQueued DEF Aborted, Untouched
<1>. QED BY <1>1, <1>2, EndsKeeps

\* The round of tools is over.
LEMMA RoundOverKeeps ==
  ASSUME AgentInv, RoundOver
  PROVE  AgentInv'
<1>. DEFINE q == [agent EXCEPT !.told = agent.plan]
<1>1. agent.pc = "tools" /\ Runs(agent) /\ NextTurn(q)
  BY DEF RoundOver, AgentInv
<1>2. ExposureIsMarked' /\ UNCHANGED <<sessions, listed>>
  BY NothingQueued DEF RoundOver, Untouched
<1>3. DOMAIN q = RunFields /\ q.pc # "off" /\ q.msgs = agent.msgs /\ q.seen = agent.seen /\ q.exposed = agent.exposed
  BY <1>1 DEF Runs, RunFields
<1>. HIDE DEF q
<1>4. Runs(q)
  BY <1>1, <1>3, RunSame
<1>. QED BY <1>1, <1>2, <1>4, NextTurnKeeps

-----------------------------------------------------------------------------
(* A tool call *)

\* A result that shows nothing is added and its call is done.
LEMMA ToldKeeps ==
  ASSUME AgentInv, agent.pc = "tools", NEW r, Runs(r), Goes(Done(Push(r, <<ToolSays>>))),
         UNCHANGED <<sessions, listed>>, ExposureIsMarked'
  PROVE  AgentInv'
<1>. DEFINE s == Push(r, <<ToolSays>>)
            q == Done(s)
<1>1. Runs(s)
  BY Pushed, PlainMessages
<1>. HIDE DEF s
<1>2. DOMAIN q = RunFields /\ q.pc # "off" /\ q.msgs = s.msgs /\ q.seen = s.seen /\ q.exposed = s.exposed
  BY <1>1 DEF Runs, RunFields, Done
<1>. HIDE DEF q
<1>3. Runs(q)
  BY <1>1, <1>2, RunSame
<1>. QED BY <1>3, GoesKeeps DEF q, s

\* After a stop the calls left get a result each.
LEMMA StopsCallKeeps ==
  ASSUME AgentInv, agent.pc = "tools", Runs(agent), StopsCall(agent), UNCHANGED <<sessions, listed>>
  PROVE  AgentInv'
<1>. DEFINE s == Push(agent, <<ToolSays>>)
            q == [Done(s) EXCEPT !.cut = TRUE]
<1>1. Runs(s)
  BY Pushed, PlainMessages
<1>. HIDE DEF s
<1>2. DOMAIN q = RunFields /\ q.pc # "off" /\ q.msgs = s.msgs /\ q.seen = s.seen /\ q.exposed = s.exposed
  BY <1>1 DEF Runs, RunFields, Done
<1>3. Goes(q) /\ UNCHANGED queued
  BY DEF StopsCall, s
<1>. HIDE DEF q
<1>4. Runs(q)
  BY <1>1, <1>2, RunSame
<1>. QED BY <1>3, <1>4, NothingQueued, GoesKeeps

\* What a read tool shows may be cited, and says whether it addresses the model.
LEMMA ReadsCaseKeeps ==
  ASSUME AgentInv, agent.pc = "tools", Runs(agent), NEW call, ReadsCase(agent, call), UNCHANGED <<sessions, listed>>
  PROVE  AgentInv'
<1>. DEFINE shown == read(agent.case, call)
            refs == refsIn(call, shown)
            suspects == findInstructions(shown)
            failed == call.tool \in {"process_tree", "logon_session", "get_chain", "get_story"} /\ shown = {}
            cached == IF failed THEN agent.cache ELSE agent.cache \cup {call}
            m == [ToolSays EXCEPT !.refs = refs, !.suspects = suspects]
            q == Done(Push([agent EXCEPT !.seen = @ \cup refs, !.exposed = @ \/ suspects, !.cache = cached], <<m>>))
<1>1. Goes(q) /\ UNCHANGED queued
  BY DEF ReadsCase, Result
<1>2. suspects \in BOOLEAN
  BY DEF findInstructions
<1>. HIDE DEF refs, suspects, cached
<1>3. /\ m.verified = {} /\ m.synthetic = FALSE /\ m.role = "tool" /\ m.refs = refs /\ m.suspects = suspects
      /\ "role" \in DOMAIN m
  BY DEF ToolSays, Message
<1>. HIDE DEF m
<1>4. /\ DOMAIN q = RunFields /\ q.pc # "off" /\ q.msgs = agent.msgs \o <<m>>
      /\ q.seen = agent.seen \cup refs
  BY DEF Runs, RunFields, Done, Push
<1>5. q.exposed = (agent.exposed \/ suspects)
  BY DEF Runs, RunFields, Done, Push
<1>. HIDE DEF q
<1>6. q.exposed \in BOOLEAN /\ (agent.exposed => q.exposed) /\ (suspects => q.exposed)
  <2>1. agent.exposed \in BOOLEAN
    BY DEF Runs
  <2>. QED BY <1>2, <1>5, <2>1
<1>7. Runs(q)
  BY <1>3, <1>4, <1>6, RunMore
<1>. QED BY <1>1, <1>7, NothingQueued, GoesKeeps

\* The model changes its plan.
LEMMA UpdatesPlanKeeps ==
  ASSUME AgentInv, agent.pc = "tools", Runs(agent), UpdatesPlan(agent), UNCHANGED <<sessions, listed>>
  PROVE  AgentInv'
<1>. DEFINE r == [agent EXCEPT !.plan = "model"]
<1>1. DOMAIN r = RunFields /\ r.pc # "off" /\ r.msgs = agent.msgs /\ r.seen = agent.seen /\ r.exposed = agent.exposed
  BY DEF Runs, RunFields
<1>2. Goes(Done(Push(r, <<ToolSays>>))) /\ UNCHANGED queued
  BY DEF UpdatesPlan, Result
<1>. HIDE DEF r
<1>3. Runs(r)
  BY <1>1, RunSame
<1>. QED BY <1>2, <1>3, NothingQueued, ToldKeeps

\* A hypothesis is written on the board.
LEMMA RecordHypothesisKeeps ==
  ASSUME AgentInv, agent.pc = "tools", Runs(agent), NEW call, recordHypothesis(agent, call),
         UNCHANGED <<sessions, listed>>
  PROVE  AgentInv'
<1>1. Goes(Done(Push(agent, <<ToolSays>>))) /\ UNCHANGED queued
  BY DEF recordHypothesis, Result
<1>. QED BY <1>1, NothingQueued, ToldKeeps

\* A proposal is queued with what the run knows of the text it has read.
LEMMA QueuesKeeps ==
  ASSUME AgentInv, agent.pc = "tools", Runs(agent), NEW call, Queues(agent, call), UNCHANGED <<sessions, listed>>
  PROVE  AgentInv'
<1>. DEFINE tested == IF call.tool = "propose_rule" THEN testRule(agent.case) ELSE {}
            cites == IF call.tool = "propose_rule" THEN {} ELSE checkCites(call.rows, agent.seen).ok
            p == [case |-> agent.case, tool |-> call.tool, cites |-> cites,
                  exposed |-> agent.exposed, read |-> Exposed(agent.msgs)]
            m == [ToolSays EXCEPT !.refs = tested]
            q == Done(Push([agent EXCEPT !.seen = @ \cup tested], <<m>>))
<1>1. CASE Refused(agent)
  BY <1>1, NothingQueued, ToldKeeps DEF Refused, Result
<1>2. CASE queued' = queued \cup {p} /\ Goes(q)
  <2>1. p.read => p.exposed
    BY DEF Runs
  <2>. HIDE DEF p, tested, cites
  <2>2. ExposureIsMarked'
    BY <1>2, <2>1 DEF AgentInv, ExposureIsMarked
  <2>3. /\ m.verified = {} /\ m.synthetic = FALSE /\ m.role = "tool" /\ m.refs = tested /\ m.suspects = FALSE
        /\ "role" \in DOMAIN m
    BY DEF ToolSays, Message
  <2>. HIDE DEF m
  <2>4. /\ DOMAIN q = RunFields /\ q.pc # "off" /\ q.msgs = agent.msgs \o <<m>>
        /\ q.seen = agent.seen \cup tested /\ q.exposed = agent.exposed /\ q.exposed \in BOOLEAN
    BY DEF Runs, RunFields, Done, Push
  <2>. HIDE DEF q
  <2>5. Runs(q)
    BY <2>3, <2>4, RunMore
  <2>. QED BY <1>2, <2>2, <2>5, GoesKeeps
<1>3. Refused(agent) \/ (queued' = queued \cup {p} /\ Goes(q))
  BY Zenon DEF Queues, Result
<1>. QED BY <1>1, <1>2, <1>3

\* The model ends the run with its answer.
LEMMA FinishesKeeps ==
  ASSUME AgentInv, agent.pc = "tools", Runs(agent), NEW call, Finishes(agent, call), UNCHANGED <<sessions, listed>>
  PROVE  AgentInv'
<1>. DEFINE u == [agent EXCEPT !.uncited = TRUE]
            e == [agent EXCEPT !.told = agent.plan]
<1>1. DOMAIN u = RunFields /\ u.pc # "off" /\ u.msgs = agent.msgs /\ u.seen = agent.seen /\ u.exposed = agent.exposed
  BY DEF Runs, RunFields
<1>2. DOMAIN e = RunFields /\ e.pc # "off" /\ e.msgs = agent.msgs /\ e.seen = agent.seen /\ e.exposed = agent.exposed
  BY DEF Runs, RunFields
<1>3. /\ Goes(Done(Push(u, <<ToolSays>>))) \/ Ends(Push(e, <<ToolSays, Answer(agent, call.rows)>>))
      /\ UNCHANGED queued
  BY DEF Finishes, Result
<1>. HIDE DEF u, e
<1>4. CASE Goes(Done(Push(u, <<ToolSays>>)))
  <2>1. Runs(u)
    BY <1>1, RunSame
  <2>. QED BY <1>3, <1>4, <2>1, NothingQueued, ToldKeeps
<1>5. CASE Ends(Push(e, <<ToolSays, Answer(agent, call.rows)>>))
  <2>1. Runs(e)
    BY <1>2, RunSame
  <2>2. Answer(agent, call.rows).verified \subseteq e.seen
    BY <1>2, AnswerCites
  <2>3. Runs(Push(e, <<ToolSays, Answer(agent, call.rows)>>))
    BY <2>1, <2>2, PushedTwo, PlainMessages, AnswerCites
  <2>. QED BY <1>3, <1>5, <2>3, NothingQueued, EndsKeeps
<1>. QED BY <1>3, <1>4, <1>5

\* One tool call.
LEMMA ToolCallKeeps ==
  ASSUME AgentInv, ToolCall
  PROVE  AgentInv'
<1>. DEFINE call == Head(agent.todo)
<1>1. agent.pc = "tools" /\ Runs(agent) /\ UNCHANGED <<sessions, listed>>
  BY DEF ToolCall, Untouched, AgentInv
<1>2. \/ StopsCall(agent) \/ RepeatsCall(agent) \/ ReadsCase(agent, call) \/ UpdatesPlan(agent)
      \/ recordHypothesis(agent, call) \/ Finishes(agent, call) \/ Queues(agent, call)
  BY Zenon DEF ToolCall
<1>. HIDE DEF call
<1>3. CASE StopsCall(agent)
  BY <1>1, <1>3, StopsCallKeeps
<1>4. CASE RepeatsCall(agent)
  BY <1>1, <1>4, NothingQueued, ToldKeeps DEF RepeatsCall
<1>5. CASE ReadsCase(agent, call)
  BY <1>1, <1>5, ReadsCaseKeeps
<1>6. CASE UpdatesPlan(agent)
  BY <1>1, <1>6, UpdatesPlanKeeps
<1>7. CASE recordHypothesis(agent, call)
  BY <1>1, <1>7, RecordHypothesisKeeps
<1>8. CASE Finishes(agent, call)
  BY <1>1, <1>8, FinishesKeeps
<1>9. CASE Queues(agent, call)
  BY <1>1, <1>9, QueuesKeeps
<1>. QED BY <1>2, <1>3, <1>4, <1>5, <1>6, <1>7, <1>8, <1>9

-----------------------------------------------------------------------------
(* A question, a session saved, the page *)

\* A new conversation may cite nothing yet.
LEMMA NewIsSound ==
  Sound(<<>>, {})
BY DEF Sound, Honest, IsSeq, Returned, ReturnedBefore

\* What is shown after the page is cleared.
LEMMA BlankIsShown ==
  ASSUME NEW s, Shown(s)
  PROVE  Shown(Blank(s)) /\ Blank(s).busy = s.busy
BY NewIsSound DEF Shown, Blank, ChatFields, Sound

\* A run starts from what its conversation may cite and holds.
LEMMA BeginRuns ==
  ASSUME NEW s, Shown(s), s.busy = FALSE, NEW playbook
  PROVE  Runs(Begin(StartFrom(s, playbook))) /\ Begin(StartFrom(s, playbook)).pc = "first"
<1>. DEFINE same == s.case = kase /\ ~playbook
            before == IF same THEN s.messages ELSE <<>>
            seen == IF same THEN s.seen ELSE {}
            from == StartFrom(s, playbook)
            r == Begin(from)
<1>1. Sound(before, seen)
  BY NewIsSound DEF Shown
<1>2. from.msgs = before \o <<Message>> /\ from.seen = seen
  BY DEF StartFrom
<1>. HIDE DEF before, seen, from
<1>3. Message.verified = {} /\ Message.role = "user" /\ Message.synthetic = FALSE /\ "role" \in DOMAIN Message
  BY DEF Message
<1>4. Sound(from.msgs, from.seen)
  <2>. DEFINE m == Message
  <2>1. m.verified \subseteq seen /\ (m.role = "tool" => m.synthetic = FALSE)
    BY <1>3
  <2>2. m.role = "user" /\ m.synthetic = FALSE /\ "role" \in DOMAIN m
    BY <1>3
  <2>. HIDE DEF m
  <2>3. Sound(before \o <<m>>, seen)
    BY <1>1, <2>1, <2>2, SoundMore
  <2>. QED BY <1>2, <2>3 DEF m
<1>7. Len(from.msgs) > 0
  <2>1. IsSeq(before) /\ Len(before) \in Nat
    BY <1>1 DEF Sound, Honest, IsSeq
  <2>2. Len(before \o <<Message>>) = Len(before) + 1
    BY <2>1, Added
  <2>. QED BY <1>2, <2>1, <2>2
<1>5. /\ DOMAIN r = RunFields /\ r.pc = "first" /\ r.msgs = from.msgs /\ r.seen = from.seen
      /\ r.exposed = Exposed(from.msgs)
  BY DEF Begin, RunFields
<1>. HIDE DEF r
<1>6. Exposed(from.msgs) \in BOOLEAN
  BY DEF Exposed
<1>. QED BY <1>4, <1>5, <1>6, <1>7 DEF Runs, r, from

\* A question is asked.
LEMMA SendMessageKeeps ==
  ASSUME AgentInv, NEW playbook, sendMessage(playbook)
  PROVE  AgentInv'
<1>. DEFINE s == IF playbook THEN Blank(chat) ELSE chat
            r == Begin(StartFrom(s, playbook))
            p == persist(s, r, "run")
<1>1. /\ agent.pc = "off" /\ ~chat.busy /\ agent' = r /\ saving' = Append(saving, p)
      /\ chat' = [s EXCEPT !.case = kase, !.busy = TRUE, !.wrapUp = FALSE, !.messages = r.msgs, !.plan = r.told]
      /\ UNCHANGED <<sessions, listed, queued>>
  BY DEF sendMessage
<1>2. Shown(s) /\ s.busy = FALSE
  <2>1. Shown(chat) /\ chat.busy = FALSE
    BY <1>1, Zenon DEF AgentInv, Shown
  <2>. QED BY <2>1, BlankIsShown
<1>. HIDE DEF s
<1>3. Runs(r) /\ r.pc = "first"
  BY <1>2, BeginRuns
<1>. HIDE DEF r
<1>4. KeptRow(p.row) /\ p.then = "run"
  BY <1>3, PersistIsKept
<1>. HIDE DEF p
<1>5. Shown(chat')
  <2>1. Honest(r.msgs)
    BY <1>3 DEF Runs, Sound
  <2>2. DOMAIN chat' = ChatFields /\ chat'.busy = TRUE /\ chat'.messages = r.msgs
    BY <1>1, <1>2 DEF Shown, ChatFields
  <2>. QED BY <2>1, <2>2 DEF Shown
<1>6. SavingInv'
  <2>1. IsSeq(saving) /\ Len(saving) \in Nat
    BY DEF AgentInv, SavingInv, IsSeq
  <2>2. /\ IsSeq(saving') /\ Len(saving') = Len(saving) + 1 /\ saving'[Len(saving) + 1] = p
        /\ \A k \in 1 .. Len(saving) : saving'[k] = saving[k]
    BY <1>1, <2>1, Appended
  <2>3. \A k \in 1 .. Len(saving) : KeptRow(saving[k].row) /\ saving[k].then # "run"
    BY <1>1 DEF AgentInv, SavingInv
  <2>4. ASSUME NEW k \in 1 .. Len(saving')
        PROVE  /\ KeptRow(saving'[k].row)
               /\ saving'[k].then = "run" => k = Len(saving) + 1
    <3>1. k \in 1 .. Len(saving) \/ k = Len(saving) + 1
      BY <2>1, <2>2
    <3>. QED BY <1>4, <2>2, <2>3, <3>1
  <2>5. agent'.pc = "first"
    BY <1>1, <1>3
  <2>. QED BY <2>2, <2>4, <2>5 DEF SavingInv
<1>7. SessionsInv' /\ ExposureIsMarked'
  BY <1>1, NothingQueued DEF AgentInv, SessionsInv
<1>. QED BY <1>1, <1>3, <1>5, <1>6, <1>7 DEF AgentInv

\* The list of sessions is dropped or stays.
LEMMA ListsKeeps ==
  ASSUME NEW c, Lists(c), \A i \in DOMAIN listed : KeptRow(listed[i])
  PROVE  \A i \in DOMAIN listed' : KeptRow(listed'[i])
BY DEF Lists

\* A session is written, and the run that waited for it goes on.
LEMMA SavedKeeps ==
  ASSUME AgentInv, Saved
  PROVE  AgentInv'
<1>. DEFINE p == Head(saving)
            id == IF p.id = 0 THEN nextId ELSE p.id
            added == IF p.id = 0 THEN {nextId} ELSE {}
            Row(i) == IF i \in added THEN p.row ELSE IF i = id THEN [p.row EXCEPT !.case = sessions[i].case]
                      ELSE sessions[i]
<1>1. /\ saving # <<>> /\ saving' = Tail(saving) /\ UNCHANGED queued /\ Lists({kase})
      /\ sessions' = [i \in DOMAIN sessions \cup added |-> Row(i)]
  BY DEF Saved
<1>2. /\ chat' = bindChatToCase([chat EXCEPT !.session = id], kase)
      /\ agent' = IF p.then = "run" THEN [agent EXCEPT !.pc = "turn"] ELSE agent
  BY DEF Saved
<1>3. IsSeq(saving) /\ \A k \in 1 .. Len(saving) : KeptRow(saving[k].row)
  BY DEF AgentInv, SavingInv
<1>4. /\ IsSeq(Tail(saving)) /\ Len(Tail(saving)) = Len(saving) - 1 /\ Len(saving) > 0 /\ p = saving[1]
      /\ \A i \in 1 .. Len(saving) - 1 : Tail(saving)[i] = saving[i + 1]
  BY <1>1, <1>3, Shifted
<1>5. Len(saving) \in Nat
  BY <1>3 DEF IsSeq
<1>6. 1 \in 1 .. Len(saving) /\ KeptRow(p.row)
  BY <1>3, <1>4, <1>5
<1>. HIDE DEF p
<1>7. SessionsInv'
  <2>1. KeptRow([p.row EXCEPT !.case = sessions[id].case])
    BY <1>6 DEF KeptRow, RowFields
  <2>2. \A i \in DOMAIN sessions : KeptRow(sessions[i])
    BY DEF AgentInv, SessionsInv
  <2>. HIDE DEF id, added
  <2>3. \A i \in DOMAIN sessions \cup added : KeptRow(Row(i))
    <3>1. ASSUME NEW i \in DOMAIN sessions \cup added
          PROVE  KeptRow(Row(i))
      <4>1. CASE i \in added
        BY <1>6, <4>1
      <4>2. CASE i \notin added /\ i = id
        BY <2>1, <4>2
      <4>3. CASE i \notin added /\ i # id
        BY <2>2, <4>3
      <4>. QED BY <4>1, <4>2, <4>3
    <3>. QED BY <3>1
  <2>. HIDE DEF Row
  <2>4. \A i \in DOMAIN sessions' : KeptRow(sessions'[i])
    BY <1>1, <2>3
  <2>5. \A i \in DOMAIN listed' : KeptRow(listed'[i])
    BY <1>1, ListsKeeps DEF AgentInv, SessionsInv
  <2>. QED BY <2>4, <2>5 DEF SessionsInv
<1>. HIDE DEF id
<1>8. Shown(chat')
  <2>1. Shown([chat EXCEPT !.session = id])
    BY DEF AgentInv, Shown, ChatFields
  <2>. QED BY <1>2, <2>1, BoundIsShown
<1>9. SavingInv'
  <2>1. ASSUME NEW k \in 1 .. Len(saving')
        PROVE  /\ k + 1 \in 1 .. Len(saving) /\ saving'[k] = saving[k + 1] /\ k + 1 # 1
               /\ \A j \in 1 .. Len(saving') : k + 1 = j + 1 => k = j
    BY <1>1, <1>4, <1>5
  <2>2. ASSUME NEW k \in 1 .. Len(saving'), saving'[k].then = "run"
        PROVE  agent'.pc = "first" /\ \A j \in 1 .. Len(saving') : saving'[j].then = "run" => j = k
    <3>1. k + 1 \in 1 .. Len(saving) /\ saving[k + 1].then = "run"
      BY <2>1, <2>2
    <3>2. /\ agent.pc = "first"
          /\ \A j \in 1 .. Len(saving) : saving[j].then = "run" => j = k + 1
      BY <3>1 DEF AgentInv, SavingInv
    <3>3. p.then # "run"
      BY <1>4, <1>6, <2>1, <3>2
    <3>4. agent' = agent
      BY <1>2, <3>3
    <3>5. ASSUME NEW j \in 1 .. Len(saving'), saving'[j].then = "run"
          PROVE  j = k
      BY <2>1, <3>2, <3>5
    <3>. QED BY <3>2, <3>4, <3>5
  <2>3. IsSeq(saving')
    BY <1>1, <1>4
  <2>4. \A k \in 1 .. Len(saving') : KeptRow(saving'[k].row)
    BY <1>3, <2>1
  <2>. QED BY <2>2, <2>3, <2>4 DEF SavingInv
<1>10. agent'.pc # "off" => Runs(agent')
  <2>1. CASE p.then = "run"
    <3>1. agent.pc = "first"
      BY <1>4, <1>6, <2>1 DEF AgentInv, SavingInv
    <3>2. Runs(agent)
      BY <3>1 DEF AgentInv
    <3>. DEFINE q == [agent EXCEPT !.pc = "turn"]
    <3>3. DOMAIN q = RunFields /\ q.pc # "off" /\ q.msgs = agent.msgs /\ q.seen = agent.seen /\ q.exposed = agent.exposed
      BY <3>2 DEF Runs, RunFields
    <3>4. agent' = q
      BY <1>2, <2>1
    <3>. HIDE DEF q
    <3>. QED BY <3>2, <3>3, <3>4, RunSame
  <2>2. CASE p.then # "run"
    BY <1>2, <2>2 DEF AgentInv
  <2>. QED BY <2>1, <2>2
<1>. QED BY <1>1, <1>7, <1>8, <1>9, <1>10, NothingQueued DEF AgentInv

\* What the analyst does on the page leaves a run that goes on what it is.
LEMMA PageKeeps ==
  ASSUME AgentInv, UNCHANGED <<saving, queued>>,
         agent' = agent \/ (agent.pc # "off" /\ agent' = [agent EXCEPT !.aborted = TRUE]),
         Shown(chat'), SessionsInv'
  PROVE  AgentInv'
<1>1. CASE agent' = agent
  <2>1. SavingInv'
    BY <1>1 DEF AgentInv, SavingInv
  <2>. QED BY <1>1, <2>1, NothingQueued DEF AgentInv
<1>2. CASE agent.pc # "off" /\ agent' = [agent EXCEPT !.aborted = TRUE]
  <2>1. Runs(agent)
    BY <1>2 DEF AgentInv
  <2>2. /\ DOMAIN agent' = RunFields /\ agent'.pc = agent.pc /\ agent'.msgs = agent.msgs /\ agent'.seen = agent.seen
        /\ agent'.exposed = agent.exposed
    BY <1>2, <2>1 DEF Runs, RunFields
  <2>3. Runs(agent')
    BY <1>2, <2>1, <2>2, RunSame
  <2>4. SavingInv'
    BY <2>2 DEF AgentInv, SavingInv
  <2>. QED BY <2>3, <2>4, NothingQueued DEF AgentInv
<1>. QED BY <1>1, <1>2

\* The sessions stay, and the list does or is dropped.
LEMMA ListedKeeps ==
  ASSUME AgentInv, UNCHANGED sessions, NEW c, Lists(c)
  PROVE  SessionsInv'
BY ListsKeeps DEF AgentInv, SessionsInv

\* The analyst turns to another case.
LEMMA SwitchCaseKeeps ==
  ASSUME AgentInv, NEW c, SwitchCase(c)
  PROVE  AgentInv'
<1>1. /\ chat' = bindChatToCase(chat, c) /\ Lists({c})
      /\ UNCHANGED <<agent, saving, sessions, queued>>
  BY DEF SwitchCase, Kept, tables
<1>2. Shown(chat')
  BY <1>1, BoundIsShown DEF AgentInv
<1>. QED BY <1>1, <1>2, ListedKeeps, PageKeeps

\* A list of sessions is read.
LEMMA ListArrivesKeeps ==
  ASSUME AgentInv, NEW c, ListArrives(c)
  PROVE  AgentInv'
<1>1. /\ UNCHANGED <<chat, agent, saving, sessions, queued>>
      /\ listed' = [i \in {i \in DOMAIN sessions : sessions[i].case = c} |-> sessions[i]]
  BY DEF ListArrives, tables
<1>2. SessionsInv'
  BY <1>1 DEF AgentInv, SessionsInv
<1>3. Shown(chat')
  BY <1>1 DEF AgentInv
<1>. QED BY <1>1, <1>2, <1>3, PageKeeps

\* A new conversation.
LEMMA NewChatSessionKeeps ==
  ASSUME AgentInv, newChatSession
  PROVE  AgentInv'
<1>1. chat' = Blank(chat) /\ Lists({}) /\ UNCHANGED <<agent, saving, sessions, queued>>
  BY DEF newChatSession, Kept, tables
<1>2. Shown(chat')
  BY <1>1, BlankIsShown DEF AgentInv
<1>. QED BY <1>1, <1>2, ListedKeeps, PageKeeps

\* A session is opened again.
LEMMA OpenChatSessionKeeps ==
  ASSUME AgentInv, NEW id \in DOMAIN listed, openChatSession(id)
  PROVE  AgentInv'
<1>1. /\ chat' = [chat EXCEPT !.session = id, !.messages = listed[id].messages, !.case = listed[id].case,
                             !.seen = listed[id].seen, !.plan = listed[id].plan]
      /\ Lists({}) /\ UNCHANGED <<agent, saving, sessions, queued>>
  BY DEF openChatSession, Kept, tables
<1>2. Sound(listed[id].messages, listed[id].seen)
  BY DEF AgentInv, SessionsInv, KeptRow
<1>3. Shown(chat')
  <2>1. /\ DOMAIN chat' = ChatFields /\ chat'.busy \in BOOLEAN
        /\ chat'.messages = listed[id].messages /\ chat'.seen = listed[id].seen
    BY <1>1 DEF AgentInv, Shown, ChatFields
  <2>. QED BY <1>2, <2>1 DEF Shown, Sound
<1>. QED BY <1>1, <1>3, ListedKeeps, PageKeeps

\* A session is deleted.
LEMMA DeleteSessionKeeps ==
  ASSUME AgentInv, NEW id, DeleteSession(id)
  PROVE  AgentInv'
<1>1. /\ sessions' = [i \in DOMAIN sessions \ {id} |-> sessions[i]]
      /\ chat' = IF chat.session = id THEN Blank(chat) ELSE chat
      /\ Lists({kase}) /\ UNCHANGED <<agent, saving, queued>>
  BY DEF DeleteSession
<1>2. Shown(chat')
  BY <1>1, BlankIsShown DEF AgentInv
<1>3. SessionsInv'
  <2>1. \A i \in DOMAIN listed' : KeptRow(listed'[i])
    BY <1>1, ListsKeeps DEF AgentInv, SessionsInv
  <2>2. \A i \in DOMAIN sessions' : KeptRow(sessions'[i])
    BY <1>1 DEF AgentInv, SessionsInv
  <2>. QED BY <2>1, <2>2 DEF SessionsInv
<1>. QED BY <1>1, <1>2, <1>3, PageKeeps

\* The analyst stops the run.
LEMMA StopChatKeeps ==
  ASSUME AgentInv, stopChat
  PROVE  AgentInv'
<1>1. /\ agent.pc # "off" /\ agent' = [agent EXCEPT !.aborted = TRUE]
      /\ Lists({}) /\ UNCHANGED <<chat, saving, sessions, queued>>
  BY DEF stopChat, Kept, tables
<1>2. Shown(chat')
  BY <1>1 DEF AgentInv
<1>. QED BY <1>1, <1>2, ListedKeeps, PageKeeps

\* The analyst asks for the answer now.
LEMMA WrapUpChatKeeps ==
  ASSUME AgentInv, wrapUpChat
  PROVE  AgentInv'
<1>1. chat' = [chat EXCEPT !.wrapUp = TRUE] /\ Lists({}) /\ UNCHANGED <<agent, saving, sessions, queued>>
  BY DEF wrapUpChat, Kept, tables
<1>2. Shown(chat')
  BY <1>1 DEF AgentInv, Shown, ChatFields
<1>. QED BY <1>1, <1>2, ListedKeeps, PageKeeps

\* A hypothesis is removed from the board.
LEMMA RemoveHypothesisKeeps ==
  ASSUME AgentInv, NEW c, NEW i, removeHypothesis(c, i)
  PROVE  AgentInv'
<1>1. Lists({}) /\ UNCHANGED <<chat, agent, saving, sessions, queued>>
  BY DEF removeHypothesis
<1>2. Shown(chat')
  BY <1>1 DEF AgentInv
<1>. QED BY <1>1, <1>2, ListedKeeps, PageKeeps

-----------------------------------------------------------------------------
(* The invariant, and what it says of the properties *)

\* A page on which nothing was asked yet.
LEMMA AgentStarts ==
  ASSUME AgentInit
  PROVE  AgentInv
<1>1. Shown(chat)
  <2>1. chat = Chat(kase)
    BY DEF AgentInit
  <2>2. Shown(Chat(kase))
    BY NewIsSound DEF Shown, Chat, ChatFields, Sound
  <2>. QED BY <2>1, <2>2
<1>2. SavingInv
  BY DEF AgentInit, SavingInv, IsSeq
<1>3. SessionsInv
  BY DEF AgentInit, SessionsInv
<1>4. agent.pc = "off"
  BY DEF AgentInit, NotRunning
<1>5. ExposureIsMarked
  BY DEF AgentInit, ExposureIsMarked
<1>. QED BY <1>1, <1>2, <1>3, <1>4, <1>5 DEF AgentInv

\* A step of nobody.
LEMMA StutterKeeps ==
  ASSUME AgentInv, UNCHANGED agentVars
  PROVE  AgentInv'
<1>1. UNCHANGED <<chat, agent, saving, sessions, listed, queued>>
  BY DEF agentVars
<1>2. SavingInv' /\ SessionsInv' /\ ExposureIsMarked'
  BY <1>1 DEF AgentInv, SavingInv, SessionsInv, ExposureIsMarked
<1>3. Shown(chat') /\ (agent'.pc # "off" => Runs(agent'))
  BY <1>1 DEF AgentInv
<1>. QED BY <1>2, <1>3 DEF AgentInv

\* Every step keeps the invariant.
LEMMA AgentStep ==
  ASSUME AgentInv, [AgentNext]_agentVars
  PROVE  AgentInv'
<1>1. ASSUME NEW playbook \in BOOLEAN, sendMessage(playbook) PROVE AgentInv'
  BY <1>1, SendMessageKeeps
<1>2. CASE Saved
  BY <1>2, SavedKeeps
<1>3. CASE AskTurn
  BY <1>3, AskTurnKeeps
<1>4. CASE ModelFails
  BY <1>4, ModelFailsKeeps
<1>5. CASE Aborted
  BY <1>5, AbortedKeeps
<1>6. CASE ToolCall
  BY <1>6, ToolCallKeeps
<1>7. CASE RoundOver
  BY <1>7, RoundOverKeeps
<1>8. ASSUME NEW got, ReplyArrives(got) PROVE AgentInv'
  BY <1>8, ReplyArrivesKeeps
<1>9. ASSUME NEW c \in Case, SwitchCase(c) \/ ListArrives(c) PROVE AgentInv'
  BY <1>9, SwitchCaseKeeps, ListArrivesKeeps
<1>10. CASE newChatSession \/ stopChat \/ wrapUpChat
  BY <1>10, NewChatSessionKeeps, StopChatKeeps, WrapUpChatKeeps
<1>11. ASSUME NEW id \in DOMAIN listed, openChatSession(id) \/ DeleteSession(id) PROVE AgentInv'
  BY <1>11, OpenChatSessionKeeps, DeleteSessionKeeps
<1>12. ASSUME NEW c \in Case, NEW i \in DOMAIN board[c], removeHypothesis(c, i) PROVE AgentInv'
  BY <1>12, RemoveHypothesisKeeps
<1>13. CASE UNCHANGED agentVars
  BY <1>13, StutterKeeps
<1>. QED BY <1>1, <1>2, <1>3, <1>4, <1>5, <1>6, <1>7, <1>8, <1>9, <1>10, <1>11, <1>12, <1>13, Zenon DEF AgentNext

\* The invariant holds of every behaviour of the page, its sessions and the run.
THEOREM AgentInvariant == AgentSpec => []AgentInv
<1>1. AgentInit => AgentInv
  BY AgentStarts
<1>2. AgentInv /\ [AgentNext]_agentVars => AgentInv'
  BY AgentStep
<1>. QED BY <1>1, <1>2, PTL DEF AgentSpec

\* The invariant covers every conversation that is shown, kept or under way.
LEMMA TranscriptsAreHonest ==
  ASSUME AgentInv
  PROVE  VerifiedWasReturned
<1> SUFFICES ASSUME NEW msgs \in Transcripts, NEW i \in DOMAIN msgs
             PROVE  msgs[i].verified \subseteq ReturnedBefore(msgs, i)
  BY DEF VerifiedWasReturned
<1>1. Honest(msgs)
  <2>1. CASE msgs = chat.messages
    BY <2>1 DEF AgentInv, Shown
  <2>2. CASE \E k \in DOMAIN sessions : msgs = sessions[k].messages
    BY <2>2 DEF AgentInv, SessionsInv, KeptRow, Sound
  <2>3. CASE agent.pc # "off" /\ msgs = agent.msgs
    BY <2>3 DEF AgentInv, Runs, Sound
  <2>. QED BY <2>1, <2>2, <2>3 DEF Transcripts
<1>2. i \in 1 .. Len(msgs)
  BY <1>1 DEF Honest, IsSeq
<1>. QED BY <1>1, <1>2 DEF Honest

\* A citation shown as verified was returned by a tool earlier in the same conversation (ai/evidence.ts,
\* ai/chat.ts): on the page, in the run that goes on behind it, and in every session kept.
THEOREM VerifiedWereReturned == AgentSpec => []VerifiedWasReturned
<1>1. AgentInv => VerifiedWasReturned
  BY TranscriptsAreHonest
<1>. QED BY <1>1, AgentInvariant, PTL

\* A proposal made after its conversation held text addressed to a model is marked as exposed
\* (ai/chat.ts, ai/injection.ts), however that conversation was left, saved and opened again.
THEOREM ExposuresAreMarked == AgentSpec => []ExposureIsMarked
<1>1. AgentInv => ExposureIsMarked
  BY DEF AgentInv
<1>. QED BY <1>1, AgentInvariant, PTL

-----------------------------------------------------------------------------
(* The rounds of a conversation *)

\* The part of a sequence from one position to another.
LEMMA PartOf ==
  ASSUME NEW s, IsSeq(s), NEW a \in Int, NEW b \in Int, 1 <= a, a <= b + 1, b <= Len(s)
  PROVE  SubSeq(s, a, b) = [i \in 1 .. (b - a + 1) |-> s[i + a - 1]]
<1>. DEFINE S == {s[i] : i \in 1 .. Len(s)}
            u == SubSeq(s, a, b)
<1>1. s \in Seq(S) /\ Len(s) \in Nat
  BY SeqOfOwn DEF IsSeq
<1>. HIDE DEF S
<1>2. a \in 1 .. Len(s) + 1 /\ b \in a - 1 .. Len(s)
  BY <1>1
<1>3. u \in Seq(S) /\ Len(u) = b - a + 1 /\ \A i \in 1 .. b - a + 1 : u[i] = s[a + i - 1]
  BY <1>1, <1>2, SubSeqProperties
<1>. HIDE DEF u
<1>4. u = [i \in 1 .. (b - a + 1) |-> u[i]]
  BY <1>3
<1>5. \A i \in 1 .. b - a + 1 : a + i - 1 = i + a - 1
  OBVIOUS
<1>6. u = [i \in 1 .. (b - a + 1) |-> s[i + a - 1]]
  BY <1>3, <1>4, <1>5
<1>. QED BY <1>6 DEF u

\* Positions are finitely many.
LEMMA PositionsAreFinite ==
  ASSUME NEW N \in Nat, NEW S, S \subseteq 1 .. N
  PROVE  IsFiniteSet(S)
<1>1. IsFiniteSet(1 .. N)
  BY FS_Interval
<1>2. S \in SUBSET (1 .. N)
  OBVIOUS
<1>. QED BY <1>1, <1>2, FS_Subset

\* Only one position has so many up to it.
LEMMA NthIsUnique ==
  ASSUME NEW N \in Nat, NEW S, S \subseteq 1 .. N, NEW k \in S
  PROVE  Nth(S, Cardinality({j \in S : j <= k})) = k
<1>. DEFINE n == Cardinality({j \in S : j <= k})
            x == Nth(S, n)
<1>1. n \in 1 .. Cardinality(S)
  <2>1. n \in Nat \ {0} /\ n <= Cardinality(S)
    BY RankGrows
  <2>2. IsFiniteSet(S)
    BY PositionsAreFinite
  <2>3. Cardinality(S) \in Nat
    BY <2>2, FS_CardinalityType
  <2>. HIDE DEF n
  <2>. QED BY <2>1, <2>3
<1>2. x \in S /\ Cardinality({j \in S : j <= x}) = n
  <2>. HIDE DEF n
  <2>. QED BY <1>1, NthIsThere
<1>. HIDE DEF x
<1>3. x < k => Cardinality({j \in S : j <= x}) < n
  BY <1>2, RankGrows
<1>4. k < x => n < Cardinality({j \in S : j <= x})
  BY <1>2, RankGrows
<1>5. n \in Nat /\ k \in Int /\ x \in Int
  BY <1>1, <1>2
<1>. HIDE DEF n
<1>6. x = k
  BY <1>2, <1>3, <1>4, <1>5
<1>. QED BY <1>6 DEF x, n

\* The positions in order: none is between one and the next.
LEMMA NthInOrder ==
  ASSUME NEW N \in Nat, NEW S, S \subseteq 1 .. N, NEW k \in 1 .. Cardinality(S)
  PROVE  /\ Cardinality(S) \in Nat /\ Nth(S, k) \in S /\ Nth(S, k) \in 1 .. N
         /\ \A x \in S : Nth(S, k) < x => k < Cardinality(S) /\ Nth(S, k + 1) <= x
         /\ k < Cardinality(S) => Nth(S, k + 1) \in S /\ Nth(S, k) < Nth(S, k + 1)
<1>. DEFINE rank(x) == Cardinality({j \in S : j <= x})
            h == Nth(S, k)
            c == Cardinality(S)
            next == Nth(S, k + 1)
<1>1. c \in Nat
  <2>1. IsFiniteSet(S)
    BY PositionsAreFinite
  <2>. QED BY <2>1, FS_CardinalityType
<1>2. h \in S /\ rank(h) = k
  BY NthIsThere
<1>3. k < c => next \in S /\ rank(next) = k + 1
  <2>1. k < c => k + 1 \in 1 .. c
    <3>. HIDE DEF c
    <3>. QED BY <1>1
  <2>. QED BY <2>1, NthIsThere
<1>4. \A i, j \in S : rank(i) \in Nat /\ rank(i) <= c /\ (i < j => rank(i) < rank(j))
  BY RankGrows
<1>5. h \in 1 .. N /\ \A x \in S : x \in Int
  <2>1. \A x \in S : x \in 1 .. N
    OBVIOUS
  <2>. HIDE DEF h
  <2>. QED BY <1>2, <2>1
<1>. HIDE DEF rank, h, c, next
<1>6. k \in Int
  BY <1>1 DEF c
<1>7. ASSUME NEW x \in S, h < x
      PROVE  k < c /\ next <= x
  <2>1. rank(h) < rank(x) /\ rank(x) <= c /\ rank(x) \in Nat
    BY <1>2, <1>4, <1>7
  <2>2. k < c
    BY <1>1, <1>2, <1>6, <2>1
  <2>3. ~(x < next)
    <3>1. x < next => rank(x) < k + 1
      BY <1>3, <1>4, <2>2
    <3>. QED BY <1>2, <1>6, <2>1, <3>1
  <2>4. next \in Int /\ x \in Int
    BY <1>3, <1>5, <2>2
  <2>. QED BY <2>2, <2>3, <2>4
<1>8. ASSUME k < c
      PROVE  next \in S /\ h < next
  <2>1. next \in S /\ rank(next) = k + 1
    BY <1>3, <1>8
  <2>2. ~(next < h) /\ next # h
    BY <1>2, <1>4, <1>6, <2>1
  <2>. QED BY <1>2, <1>5, <2>1, <2>2
<1>. QED BY <1>1, <1>2, <1>5, <1>7, <1>8 DEF h, c, next

\* A conversation begins with a question.
Talk(msgs) == IsSeq(msgs) /\ Len(msgs) > 0 /\ msgs[1].role = "user"

\* The positions rounds begin at.
LEMMA HeadsAre ==
  ASSUME NEW msgs, Talk(msgs)
  PROVE  /\ Len(msgs) \in Nat /\ DOMAIN msgs = 1 .. Len(msgs)
         /\ Heads(msgs) \subseteq 1 .. Len(msgs) /\ 1 \in Heads(msgs) /\ (Len(msgs) > 1 => 2 \in Heads(msgs))
         /\ Cardinality(Heads(msgs)) \in Nat \ {0} /\ Nth(Heads(msgs), 1) = 1
         /\ Len(msgs) > 1 => Nth(Heads(msgs), 2) = 2
         /\ Cardinality(Heads(msgs)) > 1 => Len(msgs) > 1
<1>. DEFINE H == Heads(msgs)
            N == Len(msgs)
<1>1. N \in Nat /\ DOMAIN msgs = 1 .. N /\ N > 0
  BY DEF Talk, IsSeq
<1>2. H \subseteq 1 .. N
  BY <1>1 DEF Heads
<1>3. 1 \in H
  <2>1. 1 .. 1 - 1 = {}
    OBVIOUS
  <2>2. ~Joins(msgs, 1)
    BY <2>1 DEF Joins
  <2>. QED BY <1>1, <2>2 DEF Heads
<1>4. N > 1 => 2 \in H
  <2>1. \A a \in 1 .. 2 - 1 : a = 1
    OBVIOUS
  <2>2. ~Joins(msgs, 2)
    BY <2>1 DEF Joins, Talk
  <2>. QED BY <1>1, <2>2 DEF Heads
<1>. HIDE DEF H
<1>5. IsFiniteSet(H)
  BY <1>1, <1>2, PositionsAreFinite
<1>6. Cardinality(H) \in Nat /\ Cardinality(H) # 0
  BY <1>3, <1>5, FS_CardinalityType, FS_EmptySet
<1>7. {j \in H : j <= 1} = {1}
  <2>1. \A j \in H : j \in Int /\ j >= 1
    BY <1>1, <1>2
  <2>2. \A j \in H : j <= 1 <=> j = 1
    BY <2>1
  <2>. QED BY <1>3, <2>2, Zenon
<1>8. Nth(H, 1) = 1
  <2>1. Cardinality({1}) = 1
    BY FS_Singleton
  <2>2. Nth(H, Cardinality({j \in H : j <= 1})) = 1
    BY <1>1, <1>2, <1>3, NthIsUnique
  <2>. QED BY <1>7, <2>1, <2>2
<1>9. ASSUME N > 1 PROVE Nth(H, 2) = 2
  <2>1. {j \in H : j <= 2} = {1, 2}
    <3>1. \A j \in H : j \in Int /\ j >= 1
      BY <1>1, <1>2
    <3>2. \A j \in H : j <= 2 <=> j = 1 \/ j = 2
      BY <3>1
    <3>. QED BY <1>3, <1>4, <1>9, <3>2, Zenon
  <2>2. Cardinality({1, 2}) = 2
    <3>1. IsFiniteSet({1}) /\ Cardinality({1}) = 1
      BY FS_Singleton
    <3>2. {1, 2} = {1} \cup {2} /\ 2 \notin {1}
      OBVIOUS
    <3>. QED BY <3>1, <3>2, FS_AddElement
  <2>3. Nth(H, Cardinality({j \in H : j <= 2})) = 2
    BY <1>1, <1>2, <1>4, <1>9, NthIsUnique
  <2>. QED BY <2>1, <2>2, <2>3
<1>10. Cardinality(H) > 1 => N > 1
  <2>1. CASE N = 1
    <3>1. H = {1}
      <4>1. \A j \in H : j = 1
        BY <1>1, <1>2, <2>1
      <4>. QED BY <1>3, <4>1
    <3>2. Cardinality({1}) = 1
      BY FS_Singleton
    <3>3. Cardinality(H) = 1
      BY <3>1, <3>2, Zenon
    <3>. QED BY <3>3
  <2>. QED BY <1>1, <2>1
<1>. QED BY <1>1, <1>2, <1>3, <1>4, <1>6, <1>8, <1>9, <1>10 DEF H, N

\* A conversation with other words, but said by the same, has the same rounds.
LEMMA SameHeads ==
  ASSUME NEW u, NEW v, IsSeq(u), IsSeq(v), Len(u) = Len(v), \A i \in 1 .. Len(u) : u[i].role = v[i].role
  PROVE  Heads(u) = Heads(v)
<1>1. DOMAIN u = 1 .. Len(u) /\ DOMAIN v = 1 .. Len(u) /\ Len(u) \in Nat
  BY DEF IsSeq
<1>2. ASSUME NEW i \in 1 .. Len(u)
      PROVE  Joins(u, i) <=> Joins(v, i)
  <2>1. \A a \in 1 .. i - 1 : a \in 1 .. Len(u) /\ \A j \in a + 1 .. i - 1 : j \in 1 .. Len(u)
    BY <1>1
  <2>2. u[i].role = v[i].role
    OBVIOUS
  <2>3. \A a \in 1 .. i - 1 : /\ u[a].role = v[a].role
                              /\ \A j \in a + 1 .. i - 1 : u[j].role = v[j].role
    BY <2>1
  <2>. QED BY <2>2, <2>3 DEF Joins
<1>. QED BY <1>1, <1>2 DEF Heads

\* A round: its positions are those from its head up to the next.
LEMMA RoundsAre ==
  ASSUME NEW msgs, Talk(msgs)
  PROVE  /\ Len(rounds(msgs)) = Cardinality(Heads(msgs)) /\ DOMAIN rounds(msgs) = 1 .. Cardinality(Heads(msgs))
         /\ \A k \in 1 .. Cardinality(Heads(msgs)) :
              LET h == Nth(Heads(msgs), k)
                  e == RoundEnd(msgs, k)
              IN  /\ h \in 1 .. Len(msgs) /\ e \in 1 .. Len(msgs) /\ h <= e /\ h \in Heads(msgs)
                  /\ \A x \in Heads(msgs) : x <= h \/ x > e
                  /\ rounds(msgs)[k] = [i \in 1 .. (e - h + 1) |-> msgs[i + h - 1]]
<1>. DEFINE H == Heads(msgs)
            N == Len(msgs)
            c == Cardinality(H)
<1>1. N \in Nat /\ DOMAIN msgs = 1 .. N /\ H \subseteq 1 .. N /\ c \in Nat \ {0}
  BY HeadsAre
<1>2. rounds(msgs) = [k \in 1 .. c |-> SubSeq(msgs, Nth(H, k), RoundEnd(msgs, k))]
  BY DEF rounds
<1>. HIDE DEF H
<1>3. Len(rounds(msgs)) = c /\ DOMAIN rounds(msgs) = 1 .. c
  <2>. DEFINE r == rounds(msgs)
  <2>1. r = [k \in 1 .. c |-> r[k]]
    BY <1>2
  <2>. HIDE DEF c, r
  <2>2. Len(r) = c
    BY <1>1, <2>1, FunctionIsSeq
  <2>. QED BY <2>1, <2>2 DEF r
<1>4. ASSUME NEW k \in 1 .. c
      PROVE  LET h == Nth(H, k)
                 e == RoundEnd(msgs, k)
             IN  /\ h \in 1 .. N /\ e \in 1 .. N /\ h <= e /\ h \in H
                 /\ \A x \in H : x <= h \/ x > e
                 /\ rounds(msgs)[k] = [i \in 1 .. (e - h + 1) |-> msgs[i + h - 1]]
  <2>. DEFINE h == Nth(H, k)
              e == RoundEnd(msgs, k)
              next == Nth(H, k + 1)
  <2>1. /\ h \in H /\ h \in 1 .. N /\ \A x \in H : h < x => k < c /\ next <= x
        /\ k < c => next \in H /\ h < next
    BY <1>1, NthInOrder
  <2>2. e = IF k = c THEN N ELSE next - 1
    BY DEF RoundEnd, H
  <2>3. rounds(msgs)[k] = SubSeq(msgs, h, e)
    BY <1>2
  <2>4. k \in Int /\ k <= c /\ c \in Int
    BY <1>1
  <2>. HIDE DEF h, e, next, c
  <2>5. \A x \in H : x \in 1 .. N
    BY <1>1
  <2>6. e \in 1 .. N /\ h <= e
    <3>1. CASE k = c
      BY <1>1, <2>1, <2>2, <3>1
    <3>2. CASE k # c
      <4>1. k < c
        BY <2>4, <3>2
      <4>2. next \in H /\ h < next
        BY <2>1, <4>1
      <4>3. next \in 1 .. N
        BY <2>5, <4>2
      <4>4. e = next - 1
        BY <2>2, <3>2
      <4>. QED BY <1>1, <2>1, <4>2, <4>3, <4>4
    <3>. QED BY <3>1, <3>2
  <2>7. \A x \in H : x <= h \/ x > e
    <3>. SUFFICES ASSUME NEW x \in H, ~(x <= h) PROVE x > e
      OBVIOUS
    <3>1. h < x /\ x \in Int /\ h \in Int
      BY <2>1, <2>5
    <3>2. k < c /\ next <= x /\ next \in 1 .. N
      BY <2>1, <2>5, <3>1
    <3>. QED BY <2>2, <2>4, <3>1, <3>2
  <2>8. SubSeq(msgs, h, e) = [i \in 1 .. (e - h + 1) |-> msgs[i + h - 1]]
    <3>1. IsSeq(msgs) /\ h \in Int /\ e \in Int /\ 1 <= h /\ h <= e + 1 /\ e <= Len(msgs)
      BY <2>1, <2>6 DEF Talk
    <3>. QED BY <3>1, PartOf
  <2>. QED BY <2>1, <2>3, <2>6, <2>7, <2>8 DEF h, e
<1>. QED BY <1>3, <1>4 DEF H

-----------------------------------------------------------------------------
(* Rounds left out, and rounds compacted *)

\* A function on 1..n into a set is a sequence over it.
LEMMA ListedIsSeq ==
  ASSUME NEW n \in Nat, NEW S, NEW s \in [1 .. n -> S]
  PROVE  s \in Seq(S) /\ Len(s) = n
OBVIOUS

\* What is left when n rounds after the first message are left out: the question and what begins with round n + 2.
LEMMA LeftIs ==
  ASSUME NEW msgs, Talk(msgs), NEW n \in Nat \ {0}, n + 2 <= Cardinality(Heads(msgs))
  PROVE  LET s == Nth(Heads(msgs), n + 2) - 2
             left == LeaveOut(msgs, n)
         IN  /\ s \in Nat /\ s + 2 \in Heads(msgs) /\ s + 2 <= Len(msgs) /\ Talk(left) /\ Len(left) = Len(msgs) - s
             /\ left[1] = msgs[1] /\ \A i \in 2 .. Len(msgs) - s : left[i] = msgs[i + s]
<1>. DEFINE H == Heads(msgs)
            N == Len(msgs)
            b == Nth(H, n + 2)
            s == b - 2
            first == SubSeq(msgs, 1, 1)
            rest == SubSeq(msgs, b, N)
            left == LeaveOut(msgs, n)
            c == Cardinality(H)
<1>1. N \in Nat /\ H \subseteq 1 .. N /\ c \in Nat /\ N > 1 /\ Nth(H, 2) = 2 /\ 2 \in H /\ IsSeq(msgs)
  <2>1. c > 1
    BY HeadsAre
  <2>. QED BY <2>1, HeadsAre DEF Talk
<1>2. left = first \o rest
  <2>1. Nth(H, 2) - 1 = 1 /\ n # 0
    BY <1>1
  <2>. QED BY <2>1 DEF LeaveOut
<1>. HIDE DEF H
<1>3. b \in H /\ Cardinality({j \in H : j <= b}) = n + 2
  <2>1. n + 2 \in 1 .. c
    <3>. HIDE DEF c
    <3>. QED BY <1>1 DEF c, H
  <2>. QED BY <1>1, <2>1, NthIsThere
<1>4. b \in 1 .. N
  <2>. HIDE DEF b
  <2>. QED BY <1>1, <1>3
<1>5. b >= 2
  <2>1. Cardinality({j \in H : j <= 2}) = 2
    <3>1. 2 \in 1 .. c
      <4>. HIDE DEF c
      <4>1. n + 2 <= c
        BY DEF c, H
      <4>. QED BY <1>1, <4>1
    <3>2. Cardinality({j \in H : j <= Nth(H, 2)}) = 2
      <4>. HIDE DEF N
      <4>. QED BY <1>1, <3>1, NthIsThere
    <3>. QED BY <1>1, <3>2
  <2>2. b < 2 => Cardinality({j \in H : j <= b}) < Cardinality({j \in H : j <= 2})
    <3>. HIDE DEF b
    <3>. QED BY <1>1, <1>3, RankGrows
  <2>. HIDE DEF b
  <2>. QED BY <1>3, <1>4, <2>1, <2>2
<1>. HIDE DEF b, c
<1>6. first = [i \in 1 .. 1 |-> msgs[i]] /\ rest = [i \in 1 .. N - b + 1 |-> msgs[i + b - 1]]
  <2>1. SubSeq(msgs, 1, 1) = [i \in 1 .. (1 - 1 + 1) |-> msgs[i + 1 - 1]]
    BY <1>1, PartOf
  <2>2. first = [i \in 1 .. 1 |-> msgs[i]]
    BY <2>1
  <2>3. 1 <= b /\ b <= N + 1 /\ N <= Len(msgs)
    BY <1>1, <1>4
  <2>4. rest = [i \in 1 .. N - b + 1 |-> msgs[i + b - 1]]
    BY <1>1, <1>4, <2>3, PartOf
  <2>. QED BY <2>2, <2>4
<1>. DEFINE S == {msgs[i] : i \in 1 .. N}
<1>7. first \in Seq(S) /\ Len(first) = 1 /\ first[1] = msgs[1]
  <2>1. msgs[1] \in S
    BY <1>1
  <2>. DEFINE u == [i \in 1 .. 1 |-> msgs[i]]
  <2>2. u = [i \in 1 .. 1 |-> u[i]] /\ u[1] = msgs[1]
    OBVIOUS
  <2>3. first = u
    BY <1>6
  <2>. HIDE DEF first, S, u
  <2>4. \A i \in 1 .. 1 : i = 1
    OBVIOUS
  <2>5. u \in [1 .. 1 -> S]
    BY <2>1, <2>2, <2>4
  <2>6. u \in Seq(S) /\ Len(u) = 1
    BY <2>5, ListedIsSeq
  <2>. QED BY <2>2, <2>3, <2>6
<1>8. rest \in Seq(S) /\ Len(rest) = N - b + 1 /\ \A i \in 1 .. N - b + 1 : rest[i] = msgs[i + b - 1]
  <2>1. N - b + 1 \in Nat /\ \A i \in 1 .. N - b + 1 : i + b - 1 \in 1 .. N
    BY <1>1, <1>4
  <2>2. rest \in [1 .. N - b + 1 -> S]
    <3>1. rest = [i \in 1 .. N - b + 1 |-> msgs[i + b - 1]]
      BY <1>6
    <3>2. \A i \in 1 .. N - b + 1 : msgs[i + b - 1] \in S
      BY <2>1
    <3>. HIDE DEF rest, S
    <3>. QED BY <3>1, <3>2
  <2>3. \A i \in 1 .. N - b + 1 : rest[i] = msgs[i + b - 1]
    BY <1>6
  <2>. HIDE DEF rest, S
  <2>. QED BY <2>1, <2>2, <2>3
<1>. HIDE DEF first, rest, S
<1>9. /\ left \in Seq(S) /\ Len(left) = 1 + (N - b + 1)
      /\ \A i \in 1 .. 1 + (N - b + 1) : left[i] = IF i <= 1 THEN first[i] ELSE rest[i - 1]
  <2>1. /\ first \o rest \in Seq(S) /\ Len(first \o rest) = Len(first) + Len(rest)
        /\ \A i \in 1 .. Len(first) + Len(rest) : (first \o rest)[i] = IF i <= Len(first) THEN first[i] ELSE rest[i - Len(first)]
    BY <1>7, <1>8, ConcatProperties
  <2>2. Len(first) = 1 /\ Len(rest) = N - b + 1
    BY <1>7, <1>8
  <2>. HIDE DEF left, N
  <2>. QED BY <1>2, <2>1, <2>2
<1>. HIDE DEF left
<1>10. IsSeq(left)
  BY <1>9, IsOne
<1>11. left[1] = msgs[1]
  BY <1>1, <1>4, <1>7, <1>9
<1>12. ASSUME NEW i \in 2 .. N - s
       PROVE  left[i] = msgs[i + s]
  <2>1. i \in 1 .. 1 + (N - b + 1) /\ ~(i <= 1) /\ i - 1 \in 1 .. N - b + 1 /\ (i - 1) + b - 1 = i + s
    BY <1>1, <1>4
  <2>2. left[i] = rest[i - 1]
    BY <1>9, <2>1
  <2>3. rest[i - 1] = msgs[(i - 1) + b - 1]
    BY <1>8, <2>1
  <2>. QED BY <2>1, <2>2, <2>3
<1>13. s \in Nat /\ s + 2 = b /\ b <= N /\ 1 + (N - b + 1) = N - s /\ N - s > 0
  BY <1>1, <1>4, <1>5
<1>14. Talk(left)
  BY <1>9, <1>10, <1>11, <1>13 DEF Talk
<1>. HIDE DEF s
<1>15. /\ s \in Nat /\ s + 2 \in H /\ s + 2 <= N /\ Talk(left) /\ Len(left) = N - s
       /\ left[1] = msgs[1] /\ \A i \in 2 .. N - s : left[i] = msgs[i + s]
  BY <1>3, <1>9, <1>11, <1>12, <1>13, <1>14
<1>. QED BY <1>15 DEF H, N, b, s, left

\* The rounds of what is left begin at the question and where those left did.
LEMMA HeadsLeft ==
  ASSUME NEW msgs, Talk(msgs), NEW left, Talk(left), NEW s \in Nat, s + 2 \in Heads(msgs), s + 2 <= Len(msgs),
         Len(left) = Len(msgs) - s, left[1] = msgs[1], \A i \in 2 .. Len(msgs) - s : left[i] = msgs[i + s]
  PROVE  /\ 2 \in Heads(left)
         /\ \A i \in 2 .. Len(left) : i \in Heads(left) <=> i + s \in Heads(msgs)
<1>. DEFINE N == Len(msgs)
            M == Len(left)
<1>1. N \in Nat /\ DOMAIN msgs = 1 .. N /\ DOMAIN left = 1 .. M /\ M = N - s /\ 2 <= M
  BY HeadsAre
<1>2. msgs[1].role = "user" /\ left[1].role = "user"
  BY DEF Talk
<1>3. \A i \in 2 .. M : left[i] = msgs[i + s] /\ i \in 1 .. M /\ i + s \in 1 .. N
  BY <1>1
<1>4. ~Joins(msgs, s + 2)
  BY DEF Heads
<1>5. ASSUME NEW i \in 2 .. M, Joins(left, i)
      PROVE  Joins(msgs, i + s)
  <2>1. PICK a \in 1 .. i - 1 : left[a].role = "assistant" /\ \A j \in a + 1 .. i - 1 : left[j].role = "tool"
    BY <1>5 DEF Joins
  <2>2. a # 1
    BY <1>2, <2>1
  <2>3. a \in 2 .. M /\ a + s \in 1 .. (i + s) - 1
    BY <1>1, <2>1, <2>2
  <2>4. ASSUME NEW j \in (a + s) + 1 .. (i + s) - 1
        PROVE  msgs[j].role = "tool"
    <3>1. j - s \in 2 .. M /\ j - s \in a + 1 .. i - 1 /\ (j - s) + s = j
      BY <1>1, <2>3
    <3>2. left[j - s].role = "tool"
      BY <2>1, <3>1
    <3>3. left[j - s] = msgs[(j - s) + s]
      BY <1>3, <3>1
    <3>. QED BY <3>1, <3>2, <3>3
  <2>5. msgs[a + s].role = "assistant" /\ msgs[i + s].role = "tool"
    BY <1>3, <1>5, <2>1, <2>3 DEF Joins
  <2>. QED BY <2>3, <2>4, <2>5 DEF Joins
<1>6. ASSUME NEW i \in 2 .. M, Joins(msgs, i + s)
      PROVE  Joins(left, i)
  <2>1. PICK a \in 1 .. (i + s) - 1 : msgs[a].role = "assistant" /\ \A j \in a + 1 .. (i + s) - 1 : msgs[j].role = "tool"
    BY <1>6 DEF Joins
  <2>2. msgs[i + s].role = "tool"
    BY <1>6 DEF Joins
  <2>3. a >= s + 2
    <3>. SUFFICES ASSUME a < s + 2 PROVE FALSE
      BY <1>1, <2>1
    <3>1. \A j \in a + 1 .. (s + 2) - 1 : msgs[j].role = "tool"
      <4>1. \A j \in a + 1 .. (s + 2) - 1 : j \in a + 1 .. (i + s) - 1
        OBVIOUS
      <4>. QED BY <2>1, <4>1
    <3>2. msgs[s + 2].role = "tool"
      <4>1. CASE i = 2
        BY <2>2, <4>1
      <4>2. CASE i # 2
        <5>1. s + 2 \in a + 1 .. (i + s) - 1
          BY <4>2
        <5>. QED BY <2>1, <5>1
      <4>. QED BY <4>1, <4>2
    <3>3. a \in 1 .. (s + 2) - 1
      OBVIOUS
    <3>. QED BY <1>4, <2>1, <3>1, <3>2, <3>3 DEF Joins
  <2>4. a - s \in 2 .. M /\ a - s \in 1 .. i - 1 /\ (a - s) + s = a
    BY <1>1, <2>1, <2>3
  <2>5. ASSUME NEW j \in (a - s) + 1 .. i - 1
        PROVE  left[j].role = "tool"
    <3>1. j \in 2 .. M /\ j + s \in a + 1 .. (i + s) - 1
      BY <1>1, <2>4
    <3>. QED BY <1>3, <2>1, <3>1
  <2>6. left[a - s].role = "assistant" /\ left[i].role = "tool"
    BY <1>3, <2>1, <2>2, <2>4
  <2>. QED BY <2>4, <2>5, <2>6 DEF Joins
<1>7. \A i \in 2 .. M : i \in Heads(left) <=> i + s \in Heads(msgs)
  BY <1>1, <1>3, <1>5, <1>6 DEF Heads
<1>8. 2 \in 2 .. M /\ 2 + s = s + 2
  BY <1>1
<1>. QED BY <1>7, <1>8

\* As many positions as there are s further on.
LEMMA ShiftedCount ==
  ASSUME NEW N \in Nat, NEW A, A \subseteq 1 .. N, NEW s \in Nat, NEW B, B \subseteq Nat,
         \A j \in Nat : j \in A <=> j + s \in B, \A k \in B : k > s
  PROVE  Cardinality(A) = Cardinality(B)
<1>. DEFINE f == [j \in A |-> j + s]
<1>1. \A j \in A : j \in Nat
  OBVIOUS
<1>2. f \in Surjection(A, B)
  <2>1. \A j \in A : f[j] \in B
    BY <1>1
  <2>2. \A k \in B : \E j \in A : f[j] = k
    <3>. SUFFICES ASSUME NEW k \in B PROVE \E j \in A : f[j] = k
      OBVIOUS
    <3>1. k \in Nat /\ k - s \in Nat /\ (k - s) + s = k
      OBVIOUS
    <3>2. k - s \in A
      BY <3>1
    <3>. QED BY <3>1, <3>2
  <2>. QED BY <2>1, <2>2 DEF Surjection
<1>3. f \in Injection(A, B)
  <2>1. \A i, j \in A : f[i] = f[j] => i = j
    BY <1>1
  <2>2. f \in [A -> B]
    BY <1>2 DEF Surjection
  <2>3. DOMAIN f = A
    OBVIOUS
  <2>. HIDE DEF f
  <2>. QED BY <2>1, <2>2, <2>3 DEF Injection, IsInjective
<1>4. f \in Bijection(A, B)
  BY <1>2, <1>3 DEF Bijection
<1>5. IsFiniteSet(A)
  BY PositionsAreFinite
<1>6. ExistsBijection(A, B)
  BY <1>4 DEF ExistsBijection
<1>. QED BY <1>5, <1>6, FS_Bijection

\* How many positions there are up to one, and from one to another.
Rank(S, x) == Cardinality({j \in S : j <= x})
Between(S, b, x) == Cardinality({j \in S : b < j /\ j <= x})

\* The positions up to one split at another.
LEMMA SplitCount ==
  ASSUME NEW N \in Nat, NEW H, H \subseteq 1 .. N, NEW b \in Nat, NEW x \in Nat, b <= x
  PROVE  Rank(H, x) = Rank(H, b) + Between(H, b, x) /\ Rank(H, b) \in Nat /\ Between(H, b, x) \in Nat
<1>. DEFINE P == {j \in H : j <= b}
            Q == {j \in H : b < j /\ j <= x}
            R == {j \in H : j <= x}
<1>1. P \subseteq 1 .. N /\ Q \subseteq 1 .. N
  OBVIOUS
<1>2. \A j \in H : j \in Int
  OBVIOUS
<1>3. R = P \cup Q /\ P \cap Q = {}
  <2>1. \A j \in H : (j <= x <=> j <= b \/ (b < j /\ j <= x)) /\ ~(j <= b /\ b < j)
    BY <1>2
  <2>. QED BY <2>1, Zenon
<1>. HIDE DEF P, Q, R
<1>4. IsFiniteSet(P) /\ IsFiniteSet(Q)
  BY <1>1, PositionsAreFinite
<1>5. Cardinality(P \cup Q) = Cardinality(P) + Cardinality(Q) - Cardinality(P \cap Q)
  BY <1>4, FS_Union
<1>6. Cardinality(P) \in Nat /\ Cardinality(Q) \in Nat /\ Cardinality({}) = 0
  BY <1>4, FS_CardinalityType, FS_EmptySet
<1>7. Cardinality(R) = Cardinality(P) + Cardinality(Q)
  <2>1. Cardinality(R) = Cardinality(P \cup Q) /\ Cardinality(P \cap Q) = 0
    BY <1>3, <1>6, Zenon
  <2>. QED BY <1>5, <1>6, <2>1
<1>. QED BY <1>6, <1>7 DEF P, Q, R, Rank, Between

\* K are the positions H when the n after the first are left out: from the second on they are s earlier.
Moved(N, H, s, n, K) ==
    /\ N \in Nat /\ H \subseteq 1 .. N /\ s \in Nat /\ s + 2 <= N /\ s + 2 \in H /\ n \in Nat /\ Rank(H, s + 2) = n + 2
    /\ K \subseteq 1 .. N - s /\ 1 \in K /\ 2 \in K /\ \A i \in 2 .. N - s : i \in K <=> i + s \in H

\* Each round that is left is as many places earlier as rounds are left out.
LEMMA RanksLeft ==
  ASSUME NEW N, NEW H, NEW s, NEW n, NEW K, Moved(N, H, s, n, K)
  PROVE  /\ \A i \in 2 .. N - s : Rank(H, i + s) = Rank(K, i) + n
         /\ Cardinality(H) = Cardinality(K) + n
<1>0. /\ N \in Nat /\ H \subseteq 1 .. N /\ s \in Nat /\ s + 2 <= N /\ s + 2 \in H /\ n \in Nat /\ Rank(H, s + 2) = n + 2
      /\ K \subseteq 1 .. N - s /\ 1 \in K /\ 2 \in K /\ \A i \in 2 .. N - s : i \in K <=> i + s \in H
  BY DEF Moved
<1>1. N - s \in Nat /\ 2 <= N - s /\ Cardinality({j \in H : j <= s + 2}) = n + 2
  BY <1>0 DEF Rank
<1>2. Cardinality({j \in K : j <= 2}) = 2
  <2>1. {j \in K : j <= 2} = {1} \cup {2}
    <3>1. \A j \in K : j \in Int /\ j >= 1
      BY <1>0, <1>1
    <3>2. \A j \in K : j <= 2 <=> j = 1 \/ j = 2
      BY <3>1
    <3>. QED BY <1>0, <3>2, Zenon
  <2>2. IsFiniteSet({1}) /\ Cardinality({1}) = 1 /\ 2 \notin {1}
    <3>1. 2 \notin {1}
      OBVIOUS
    <3>. QED BY <3>1, FS_Singleton, Zenon
  <2>3. Cardinality({1} \cup {2}) = Cardinality({1}) + 1
    <3>1. Cardinality({1} \cup {2}) = (IF 2 \in {1} THEN Cardinality({1}) ELSE Cardinality({1}) + 1)
      BY <2>2, FS_AddElement, Zenon
    <3>. QED BY <2>2, <3>1, Zenon
  <2>4. Cardinality({j \in K : j <= 2}) = Cardinality({1}) + 1 /\ Cardinality({1}) = 1
    BY <2>1, <2>2, <2>3, Zenon
  <2>. QED BY <2>4
<1>3. ASSUME NEW i \in 2 .. N - s
      PROVE  Cardinality({j \in H : j <= i + s}) = Cardinality({j \in K : j <= i}) + n
  <2>. DEFINE A == {j \in K : 2 < j /\ j <= i}
              B == {j \in H : s + 2 < j /\ j <= i + s}
              k == Cardinality({j \in K : j <= i})
              h == Cardinality({j \in H : j <= i + s})
  <2>1. k = 2 + Cardinality(A) /\ Cardinality(A) \in Nat
    <3>1. i \in Nat /\ 2 <= i
      BY <1>0, <1>1
    <3>. HIDE DEF A, k
    <3>2. Rank(K, i) = Rank(K, 2) + Between(K, 2, i) /\ Between(K, 2, i) \in Nat
      BY <1>0, <1>1, <3>1, SplitCount
    <3>. QED BY <1>2, <3>2 DEF A, k, Rank, Between
  <2>2. h = (n + 2) + Cardinality(B) /\ Cardinality(B) \in Nat
    <3>1. i + s \in Nat /\ s + 2 \in Nat /\ s + 2 <= i + s
      BY <1>0, <1>1
    <3>. HIDE DEF B, h
    <3>2. Rank(H, i + s) = Rank(H, s + 2) + Between(H, s + 2, i + s) /\ Between(H, s + 2, i + s) \in Nat
      BY <1>0, <3>1, SplitCount
    <3>. QED BY <1>1, <3>2 DEF B, h, Rank, Between
  <2>3. Cardinality(A) = Cardinality(B)
    <3>1. A \subseteq 1 .. N - s
      BY <1>0
    <3>2. B \subseteq Nat /\ \A j \in B : j > s
      <4>1. \A j \in H : j \in Nat /\ (s + 2 < j => j > s)
        BY <1>0
      <4>2. \A j \in B : j \in H /\ s + 2 < j
        OBVIOUS
      <4>. HIDE DEF B
      <4>. QED BY <4>1, <4>2
    <3>3. \A j \in Nat : j \in A <=> j + s \in B
      <4>. SUFFICES ASSUME NEW j \in Nat PROVE j \in A <=> j + s \in B
        OBVIOUS
      <4>1. (2 < j /\ j <= i) <=> (s + 2 < j + s /\ j + s <= i + s)
        BY <1>0, <1>1
      <4>2. 2 < j /\ j <= i => (j \in K <=> j + s \in H)
        BY <1>0, <1>1
      <4>. QED BY <4>1, <4>2
    <3>. HIDE DEF A, B
    <3>. QED BY <1>0, <1>1, <3>1, <3>2, <3>3, ShiftedCount
  <2>. HIDE DEF A, B, k, h
  <2>4. h = k + n
    BY <1>0, <2>1, <2>2, <2>3
  <2>. QED BY <2>4 DEF h, k
<1>4. Cardinality(H) = Cardinality(K) + n
  <2>1. N - s \in 2 .. N - s /\ (N - s) + s = N
    BY <1>0, <1>1
  <2>2. Cardinality({j \in H : j <= (N - s) + s}) = Cardinality({j \in K : j <= N - s}) + n
    BY <1>3, <2>1
  <2>3. {j \in H : j <= (N - s) + s} = H
    <3>1. \A j \in H : j <= (N - s) + s
      BY <1>0, <2>1
    <3>. QED BY <3>1, Zenon
  <2>4. {j \in K : j <= N - s} = K
    <3>1. \A j \in K : j <= N - s
      BY <1>0, <1>1
    <3>. QED BY <3>1, Zenon
  <2>. QED BY <1>0, <2>2, <2>3, <2>4
<1>. QED BY <1>3, <1>4 DEF Rank

\* The rounds of what is left are the first round and those after the ones left out.
LEMMA RoundsLeft ==
  ASSUME NEW msgs, Talk(msgs), NEW n \in Nat, n = 0 \/ n + 2 <= Cardinality(Heads(msgs))
  PROVE  LET left == LeaveOut(msgs, n)
             all == rounds(msgs)
         IN  /\ Talk(left) /\ Len(rounds(left)) = Len(all) - n
             /\ \A k \in 1 .. Len(all) - n : rounds(left)[k] = all[IF k = 1 THEN 1 ELSE k + n]
<1>1. CASE n = 0
  <2>1. LeaveOut(msgs, n) = msgs
    BY <1>1 DEF LeaveOut
  <2>2. \A k \in 1 .. Len(rounds(msgs)) - n : k + n = k
    BY <1>1, RoundsAre, HeadsAre
  <2>3. Len(rounds(msgs)) - n = Len(rounds(msgs))
    BY <1>1, RoundsAre, HeadsAre
  <2>. QED BY <1>1, <2>1, <2>2, <2>3
<1>2. CASE n # 0
  <2>. DEFINE H == Heads(msgs)
              N == Len(msgs)
              s == Nth(H, n + 2) - 2
              left == LeaveOut(msgs, n)
              K == Heads(left)
              c == Cardinality(H)
              d == Cardinality(K)
  <2>1. /\ s \in Nat /\ s + 2 \in H /\ s + 2 <= N /\ Talk(left) /\ Len(left) = N - s
        /\ left[1] = msgs[1] /\ \A i \in 2 .. N - s : left[i] = msgs[i + s]
    BY <1>2, LeftIs
  <2>. HIDE DEF left
  <2>2. 2 \in K /\ \A i \in 2 .. N - s : i \in K <=> i + s \in H
    <3>. HIDE DEF s
    <3>1. 2 \in K /\ \A i \in 2 .. Len(left) : i \in K <=> i + s \in H
      BY <2>1, HeadsLeft
    <3>. QED BY <2>1, <3>1
  <2>3. N \in Nat /\ H \subseteq 1 .. N /\ c \in Nat /\ n + 2 \in 1 .. c /\ Nth(H, 1) = 1
    <3>1. c \in Nat /\ n + 2 <= c
      BY <1>2, HeadsAre
    <3>. HIDE DEF c
    <3>2. n + 2 \in 1 .. c
      BY <3>1
    <3>. QED BY <3>1, <3>2, HeadsAre
  <2>4. K \subseteq 1 .. N - s /\ 1 \in K /\ d \in Nat /\ Nth(K, 1) = 1 /\ Nth(K, 2) = 2 /\ N - s \in Nat
    <3>1. Len(left) > 1
      BY <2>1, <2>3
    <3>. HIDE DEF s
    <3>. QED BY <2>1, <2>3, <3>1, HeadsAre
  <2>5. Cardinality({j \in H : j <= s + 2}) = n + 2
    <3>1. Cardinality({j \in H : j <= Nth(H, n + 2)}) = n + 2
      <4>. HIDE DEF H, N
      <4>. QED BY <2>3, NthIsThere
    <3>2. s + 2 = Nth(H, n + 2)
      <4>1. Nth(H, n + 2) \in H
        <5>. HIDE DEF H, N
        <5>. QED BY <2>3, NthIsThere
      <4>2. Nth(H, n + 2) \in Int
        <5>1. H \subseteq Int
          BY <2>3
        <5>. HIDE DEF H
        <5>. QED BY <4>1, <5>1
      <4>. QED BY <4>2
    <3>. QED BY <3>1, <3>2
  <2>. HIDE DEF s, H, N, K
  <2>6. /\ \A i \in 2 .. N - s : Cardinality({j \in H : j <= i + s}) = Cardinality({j \in K : j <= i}) + n
        /\ c = d + n
    <3>. SUFFICES (\A i \in 2 .. N - s : Rank(H, i + s) = Rank(K, i) + n) /\ c = d + n
      BY DEF Rank
    <3>1. /\ N \in Nat /\ H \subseteq 1 .. N /\ s \in Nat /\ s + 2 <= N /\ s + 2 \in H
          /\ K \subseteq 1 .. N - s /\ 1 \in K /\ 2 \in K
      BY <2>1, <2>2, <2>3, <2>4
    <3>2. \A i \in 2 .. N - s : i \in K <=> i + s \in H
      BY <2>2
    <3>3. Moved(N, H, s, n, K)
      BY <2>5, <3>1, <3>2 DEF Moved, Rank
    <3>4. Cardinality(H) = Cardinality(K) + n
      BY <3>3, RanksLeft
    <3>5. \A i \in 2 .. N - s : Rank(H, i + s) = Rank(K, i) + n
      BY <3>3, RanksLeft
    <3>. HIDE DEF c, d
    <3>. QED BY <3>4, <3>5 DEF c, d
  <2>7. d >= 2 /\ d = c - n
    <3>1. n + 2 <= c
      BY <2>3
    <3>. HIDE DEF c, d
    <3>. QED BY <2>3, <2>4, <2>6, <3>1
  <2>. HIDE DEF c, d
  <2>8. ASSUME NEW k \in 2 .. d
        PROVE  Nth(K, k) + s = Nth(H, k + n) /\ Nth(K, k) \in 2 .. N - s
    <3>. DEFINE h == Nth(H, k + n)
                i == h - s
    <3>1. k + n \in 1 .. c
      BY <2>3, <2>4, <2>6
    <3>2. h \in H /\ Cardinality({j \in H : j <= h}) = k + n
      BY <2>3, <3>1, NthIsThere DEF c
    <3>3. h \in 1 .. N
      <4>. HIDE DEF h
      <4>. QED BY <2>3, <3>2
    <3>. HIDE DEF h
    <3>4. h >= s + 2
      <4>1. h < s + 2 => Cardinality({j \in H : j <= h}) < Cardinality({j \in H : j <= s + 2})
        BY <2>1, <2>3, <3>2, RankGrows
      <4>2. ~(h < s + 2)
        BY <2>3, <2>4, <2>5, <3>2, <4>1
      <4>. QED BY <2>1, <3>3, <4>2
    <3>5. i \in 2 .. N - s /\ i + s = h
      BY <2>1, <2>3, <3>3, <3>4
    <3>. HIDE DEF i
    <3>6. i \in K
      BY <2>2, <3>2, <3>5
    <3>7. Cardinality({j \in K : j <= i}) = k
      <4>1. Cardinality({j \in K : j <= i}) \in Nat
        BY <2>4, <3>6, RankGrows
      <4>2. k + n = Cardinality({j \in K : j <= i}) + n
        BY <2>6, <3>2, <3>5
      <4>. QED BY <2>4, <4>1, <4>2
    <3>8. Nth(K, k) = i
      BY <2>4, <3>6, <3>7, NthIsUnique
    <3>. QED BY <3>5, <3>8 DEF h
  <2>9. /\ Len(rounds(msgs)) = c /\ Len(rounds(left)) = d
        /\ \A k \in 1 .. c : rounds(msgs)[k] = [i \in 1 .. (RoundEnd(msgs, k) - Nth(H, k) + 1) |-> msgs[i + Nth(H, k) - 1]]
        /\ \A k \in 1 .. d : rounds(left)[k] = [i \in 1 .. (RoundEnd(left, k) - Nth(K, k) + 1) |-> left[i + Nth(K, k) - 1]]
    BY <2>1, RoundsAre DEF c, d, H, K
  <2>10. \A k \in 1 .. c : RoundEnd(msgs, k) = IF k = c THEN N ELSE Nth(H, k + 1) - 1
    BY DEF RoundEnd, c, H, N
  <2>11. \A k \in 1 .. d : RoundEnd(left, k) = IF k = d THEN N - s ELSE Nth(K, k + 1) - 1
    BY <2>1 DEF RoundEnd, d, K
  <2>12. rounds(left)[1] = rounds(msgs)[1]
    <3>1. 1 \in 1 .. d /\ 1 # d /\ 1 \in 1 .. c /\ 1 # c
      BY <2>3, <2>4, <2>7
    <3>2. RoundEnd(left, 1) = 1 /\ RoundEnd(msgs, 1) = 1
      <4>1. Nth(H, 2) = 2
        <5>1. Len(msgs) > 1
          BY <2>1, <2>3 DEF N
        <5>. QED BY <5>1, HeadsAre DEF H
      <4>2. RoundEnd(left, 1) = Nth(K, 1 + 1) - 1 /\ RoundEnd(msgs, 1) = Nth(H, 1 + 1) - 1
        BY <2>10, <2>11, <3>1
      <4>. QED BY <2>4, <4>1, <4>2
    <3>. DEFINE u == [i \in 1 .. (1 - 1 + 1) |-> msgs[i + 1 - 1]]
                v == [i \in 1 .. (1 - 1 + 1) |-> left[i + 1 - 1]]
    <3>3. rounds(msgs)[1] = u /\ rounds(left)[1] = v
      BY <2>3, <2>4, <2>9, <3>1, <3>2
    <3>4. \A i \in 1 .. (1 - 1 + 1) : i + 1 - 1 = 1
      OBVIOUS
    <3>5. u = v
      BY <2>1, <3>4
    <3>. QED BY <3>3, <3>5
  <2>13. ASSUME NEW k \in 2 .. d
         PROVE  rounds(left)[k] = rounds(msgs)[k + n]
    <3>. DEFINE h == Nth(K, k)
                e == RoundEnd(left, k)
                f == RoundEnd(msgs, k + n)
                g == Nth(H, k + n)
    <3>1. /\ k \in 1 .. d /\ k + n \in 1 .. c /\ (k = d <=> k + n = c) /\ (k # d => k + 1 \in 2 .. d)
          /\ (k + 1) + n = (k + n) + 1
      BY <2>3, <2>4, <2>6
    <3>2. h + s = g /\ h \in 2 .. N - s
      BY <2>8
    <3>3. e + s = f /\ e \in Int /\ e <= N - s
      <4>1. CASE k = d
        <5>1. e = N - s /\ f = N
          BY <2>10, <2>11, <3>1, <4>1
        <5>. QED BY <2>1, <2>3, <5>1
      <4>2. CASE k # d
        <5>1. e = Nth(K, k + 1) - 1 /\ f = Nth(H, (k + n) + 1) - 1
          BY <2>10, <2>11, <3>1, <4>2
        <5>2. Nth(K, k + 1) + s = Nth(H, (k + 1) + n) /\ Nth(K, k + 1) \in 2 .. N - s
          BY <2>8, <3>1, <4>2
        <5>. DEFINE x == Nth(K, k + 1)
                    y == Nth(H, (k + n) + 1)
        <5>3. e = x - 1 /\ f = y - 1 /\ x + s = y /\ x \in 2 .. N - s
          <6>1. (k + 1) + n = (k + n) + 1
            BY <3>1
          <6>. HIDE DEF e, f
          <6>. QED BY <5>1, <5>2, <6>1
        <5>. HIDE DEF e, f, x, y
        <5>. QED BY <2>1, <2>3, <5>3
      <4>. QED BY <4>1, <4>2
    <3>4. /\ rounds(left)[k] = [i \in 1 .. (e - h + 1) |-> left[i + h - 1]]
          /\ rounds(msgs)[k + n] = [i \in 1 .. (f - g + 1) |-> msgs[i + g - 1]]
      BY <2>9, <3>1
    <3>. HIDE DEF h, e, f, g
    <3>5. e - h + 1 = f - g + 1
      BY <2>1, <3>2, <3>3
    <3>6. \A i \in 1 .. (e - h + 1) : left[i + h - 1] = msgs[i + g - 1]
      <4>. SUFFICES ASSUME NEW i \in 1 .. (e - h + 1) PROVE left[i + h - 1] = msgs[i + g - 1]
        OBVIOUS
      <4>1. i + h - 1 \in 2 .. N - s /\ (i + h - 1) + s = i + g - 1
        BY <2>1, <2>3, <3>2, <3>3
      <4>. QED BY <2>1, <4>1
    <3>. QED BY <3>4, <3>5, <3>6
  <2>14. \A k \in 1 .. d : rounds(left)[k] = rounds(msgs)[IF k = 1 THEN 1 ELSE k + n]
    <3>1. \A k \in 1 .. d : k = 1 \/ k \in 2 .. d
      BY <2>4
    <3>. QED BY <2>12, <2>13, <3>1
  <2>15. /\ Talk(left) /\ Len(rounds(left)) = Len(rounds(msgs)) - n
         /\ \A k \in 1 .. Len(rounds(msgs)) - n : rounds(left)[k] = rounds(msgs)[IF k = 1 THEN 1 ELSE k + n]
    BY <2>1, <2>7, <2>9, <2>14
  <2>. QED BY <2>15 DEF left
<1>. QED BY <1>1, <1>2

\* Who says each message of a conversation is known.
Voiced(msgs) == \A i \in 1 .. Len(msgs) : "role" \in DOMAIN msgs[i]

\* A compacted message is said by the same.
LEMMA CompactedRole ==
  ASSUME NEW m, "role" \in DOMAIN m
  PROVE  compactToolResult(m).role = m.role
<1>. DEFINE compact == [m EXCEPT !.compacted = TRUE]
<1>1. compact.role = m.role
  OBVIOUS
<1>. HIDE DEF compact
<1>2. compactToolResult(m) = IF Weight(m) = 1 THEN m ELSE compact
  BY DEF compactToolResult, compact
<1>. QED BY <1>1, <1>2

\* Rounds stay what they are when some are compacted: each one whole, or each message of it.
LEMMA KeptInRounds ==
  ASSUME NEW msgs, Talk(msgs), Voiced(msgs), NEW q
  PROVE  LET all == Keeping(msgs, q)
         IN  /\ Talk(all) /\ Len(rounds(all)) = Len(rounds(msgs))
             /\ \A k \in 1 .. Len(rounds(msgs)) : rounds(all)[k] \in {rounds(msgs)[k], Compacted(rounds(msgs)[k])}
<1>. DEFINE N == Len(msgs)
            H == Heads(msgs)
            T == Newest(ToolRounds(msgs), q)
            Whole(i) == \E h \in T : InRound(msgs, h, i)
            all == Keeping(msgs, q)
            c == Cardinality(H)
<1>1. N \in Nat /\ N > 0 /\ DOMAIN msgs = 1 .. N /\ IsSeq(msgs) /\ H \subseteq 1 .. N
  BY HeadsAre DEF Talk
<1>2. all = [i \in 1 .. N |-> IF Whole(i) THEN msgs[i] ELSE compactToolResult(msgs[i])]
  BY <1>1 DEF Keeping
<1>3. T \subseteq H
  BY DEF Newest, ToolRounds
<1>. HIDE DEF all, Whole, T
<1>4. all = [i \in 1 .. N |-> all[i]]
  BY <1>2
<1>5. IsSeq(all) /\ Len(all) = N
  <2>. HIDE DEF N
  <2>. QED BY <1>1, <1>4, FunctionIsSeq
<1>6. \A i \in 1 .. N : all[i].role = msgs[i].role
  <2>. SUFFICES ASSUME NEW i \in 1 .. N PROVE all[i].role = msgs[i].role
    OBVIOUS
  <2>1. compactToolResult(msgs[i]).role = msgs[i].role
    BY CompactedRole DEF Voiced
  <2>. QED BY <1>2, <2>1
<1>7. Talk(all)
  <2>1. msgs[1].role = "user" /\ 1 \in 1 .. N
    BY <1>1 DEF Talk
  <2>2. all[1].role = msgs[1].role
    BY <1>6, <2>1
  <2>3. all[1].role = "user"
    BY <2>1, <2>2, Zenon
  <2>4. Len(all) > 0
    BY <1>1, <1>5
  <2>. QED BY <1>5, <2>3, <2>4 DEF Talk
<1>8. Heads(all) = H
  <2>1. \A i \in 1 .. Len(all) : all[i].role = msgs[i].role
    BY <1>5, <1>6
  <2>. QED BY <1>1, <1>5, <2>1, SameHeads
<1>9. \A k : RoundEnd(all, k) = RoundEnd(msgs, k)
  BY <1>5, <1>8 DEF RoundEnd
<1>10. /\ Len(rounds(all)) = c /\ Len(rounds(msgs)) = c
       /\ \A k \in 1 .. c : rounds(all)[k] = [i \in 1 .. (RoundEnd(msgs, k) - Nth(H, k) + 1) |-> all[i + Nth(H, k) - 1]]
  BY <1>7, <1>8, <1>9, RoundsAre
<1>11. \A k \in 1 .. c :
         /\ Nth(H, k) \in 1 .. N /\ RoundEnd(msgs, k) \in 1 .. N /\ Nth(H, k) <= RoundEnd(msgs, k) /\ Nth(H, k) \in H
         /\ \A x \in H : x <= Nth(H, k) \/ x > RoundEnd(msgs, k)
         /\ rounds(msgs)[k] = [i \in 1 .. (RoundEnd(msgs, k) - Nth(H, k) + 1) |-> msgs[i + Nth(H, k) - 1]]
  BY RoundsAre
<1>12. ASSUME NEW k \in 1 .. c
       PROVE  rounds(all)[k] \in {rounds(msgs)[k], Compacted(rounds(msgs)[k])}
  <2>. DEFINE h == Nth(H, k)
              e == RoundEnd(msgs, k)
              round == rounds(msgs)[k]
  <2>1. /\ h \in 1 .. N /\ e \in 1 .. N /\ h <= e /\ h \in H /\ \A x \in H : x <= h \/ x > e
        /\ round = [i \in 1 .. (e - h + 1) |-> msgs[i + h - 1]]
        /\ rounds(all)[k] = [i \in 1 .. (e - h + 1) |-> all[i + h - 1]]
    BY <1>10, <1>11
  <2>. HIDE DEF h, e, round, c
  <2>2. \A i \in 1 .. (e - h + 1) : i + h - 1 \in 1 .. N /\ h <= i + h - 1 /\ i + h - 1 <= e
    BY <1>1, <2>1
  <2>3. ASSUME NEW i \in 1 .. (e - h + 1)
        PROVE  Whole(i + h - 1) <=> h \in T
    <3>. DEFINE p == i + h - 1
    <3>1. p \in 1 .. N /\ h <= p /\ p <= e
      BY <2>2
    <3>. HIDE DEF p
    <3>2. ASSUME NEW g \in T, InRound(msgs, g, p)
          PROVE  g = h
      <4>1. g \in H /\ g \in 1 .. N
        BY <1>1, <1>3
      <4>2. g <= p /\ \A j \in g + 1 .. p : j \notin H
        BY <3>2 DEF InRound
      <4>. HIDE DEF H
      <4>3. g <= h
        BY <2>1, <3>1, <4>1, <4>2
      <4>4. ~(g < h)
        <5>1. g < h => h \in g + 1 .. p
          BY <2>1, <3>1, <4>1
        <5>. QED BY <2>1, <4>2, <5>1
      <4>. QED BY <2>1, <4>1, <4>3, <4>4
    <3>3. InRound(msgs, h, p)
      <4>1. \A j \in h + 1 .. p : ~(j <= h) /\ ~(j > e)
        BY <2>1, <3>1
      <4>2. \A j \in h + 1 .. p : j \notin H
        BY <2>1, <4>1
      <4>. QED BY <3>1, <4>2 DEF InRound
    <3>4. Whole(p) <=> h \in T
      BY <3>2, <3>3 DEF Whole
    <3>. QED BY <3>4 DEF p
  <2>4. CASE h \in T
    <3>1. \A i \in 1 .. (e - h + 1) : all[i + h - 1] = msgs[i + h - 1]
      BY <1>2, <2>2, <2>3, <2>4
    <3>2. rounds(all)[k] = round
      BY <2>1, <3>1
    <3>. QED BY <3>2 DEF round
  <2>5. CASE h \notin T
    <3>1. \A i \in 1 .. (e - h + 1) : all[i + h - 1] = compactToolResult(msgs[i + h - 1])
      BY <1>2, <2>2, <2>3, <2>5
    <3>2. DOMAIN round = 1 .. (e - h + 1) /\ \A i \in 1 .. (e - h + 1) : round[i] = msgs[i + h - 1]
      BY <2>1
    <3>3. Compacted(round) = [i \in 1 .. (e - h + 1) |-> compactToolResult(round[i])]
      BY <3>2 DEF Compacted
    <3>4. rounds(all)[k] = Compacted(round)
      BY <2>1, <3>1, <3>2, <3>3
    <3>. QED BY <3>4 DEF round
  <2>. QED BY <2>4, <2>5
<1>. QED BY <1>7, <1>10, <1>12 DEF all

\* There is a least number of rounds to leave out, and the two newest heads of rounds stay.
LEMMA FitIsFound ==
  ASSUME NEW all, Talk(all), NEW budget
  PROVE  LET n == CHOOSE n \in 0 .. Len(all) : Fits(all, budget, n) /\ \A k \in 0 .. n - 1 : ~Fits(all, budget, k)
         IN  n \in Nat /\ (n = 0 \/ n + 2 <= Cardinality(Heads(all)))
<1>. DEFINE c == Cardinality(Heads(all))
            N == Len(all)
            Fit(n) == Fits(all, budget, n)
            S == {n \in 0 .. N : Fit(n)}
            Least(n) == Fit(n) /\ \A k \in 0 .. n - 1 : ~Fit(k)
            n == CHOOSE n \in 0 .. N : Least(n)
<1>1. N \in Nat /\ c \in Nat /\ c <= N
  <2>1. N \in Nat /\ Heads(all) \subseteq 1 .. N
    BY HeadsAre
  <2>. HIDE DEF N
  <2>2. IsFiniteSet(1 .. N) /\ Cardinality(1 .. N) = N
    <3>1. 1 \in Int /\ N \in Int /\ ~(1 > N) => N - 1 + 1 = N
      BY <2>1
    <3>2. IsFiniteSet(1 .. N) /\ Cardinality(1 .. N) = IF 1 > N THEN 0 ELSE N - 1 + 1
      BY <2>1, FS_Interval
    <3>. QED BY <2>1, <3>2
  <2>3. Heads(all) \in SUBSET (1 .. N)
    BY <2>1
  <2>4. Cardinality(Heads(all)) <= Cardinality(1 .. N) /\ IsFiniteSet(Heads(all))
    BY <2>2, <2>3, FS_Subset
  <2>5. c \in Nat
    BY <2>4, FS_CardinalityType
  <2>. QED BY <2>1, <2>2, <2>4, <2>5
<1>2. \A k \in Nat : ~Fit(k) => k + 2 < c
  <2>1. \A k : ~Fit(k) => ~(c - k <= 2)
    BY DEF Fits
  <2>. HIDE DEF c, Fit
  <2>. QED BY <1>1, <2>1
<1>. HIDE DEF Fit, c, N
<1>3. S \subseteq Nat /\ N \in S
  <2>1. N \in 0 .. N /\ Fit(N)
    BY <1>1, <1>2
  <2>. QED BY <1>1, <2>1
<1>4. PICK x \in S : \A y \in S : x <= y
  <2>. HIDE DEF S
  <2>. QED BY <1>3, LeastOf
<1>5. x \in 0 .. N /\ Least(x)
  <2>1. x \in 0 .. N /\ Fit(x)
    OBVIOUS
  <2>2. ASSUME NEW k \in 0 .. x - 1
        PROVE  ~Fit(k)
    <3>1. k \in 0 .. N /\ ~(x <= k)
      BY <1>1, <2>1
    <3>. QED BY <1>4, <3>1
  <2>. QED BY <2>1, <2>2
<1>6. n \in 0 .. N /\ Least(n)
  <2>. HIDE DEF Least
  <2>. QED BY <1>5
<1>. HIDE DEF n
<1>7. n \in Nat
  BY <1>6
<1>8. n # 0 => n + 2 <= c
  <2>. SUFFICES ASSUME n # 0 PROVE n + 2 <= c
    OBVIOUS
  <2>1. n - 1 \in 0 .. n - 1 /\ n - 1 \in Nat
    BY <1>7
  <2>2. (n - 1) + 2 < c
    BY <1>2, <1>6, <2>1
  <2>. QED BY <1>1, <1>7, <2>2
<1>. QED BY <1>7, <1>8 DEF n, c, N, Fit

\* What is sent of a conversation: its first round and the newest, each one whole or compacted.
FromRounds(msgs, part) ==
  LET all == rounds(msgs)
      sent == rounds(part)
      n == Len(all) - Len(sent)
  IN  /\ n >= 0 /\ sent # <<>>
      /\ \A k \in DOMAIN sent : LET from == all[IF k = 1 THEN 1 ELSE k + n] IN sent[k] \in {from, Compacted(from)}

\* That is what fits.
LEMMA FitsInRounds ==
  ASSUME NEW msgs, Talk(msgs), Voiced(msgs), NEW budget
  PROVE  FromRounds(msgs, fitToBudget(msgs, budget))
<1>. DEFINE all == Shaped(msgs, budget)
            n == CHOOSE n \in 0 .. Len(all) : Fits(all, budget, n) /\ \A k \in 0 .. n - 1 : ~Fits(all, budget, k)
            part == LeaveOut(all, n)
            R == rounds(msgs)
            A == rounds(all)
            P == rounds(part)
<1>1. fitToBudget(msgs, budget) = part
  BY DEF fitToBudget
<1>2. Talk(all) /\ Len(A) = Len(R) /\ \A k \in 1 .. Len(R) : A[k] \in {R[k], Compacted(R[k])}
  <2>1. all = Keeping(msgs, KEEP_ROUNDS) \/ all = Keeping(msgs, 1)
    BY DEF Shaped
  <2>. HIDE DEF all
  <2>. QED BY <2>1, KeptInRounds
<1>. HIDE DEF all
<1>3. n \in Nat /\ (n = 0 \/ n + 2 <= Cardinality(Heads(all)))
  BY <1>2, FitIsFound
<1>. HIDE DEF n
<1>4. Talk(part) /\ Len(P) = Len(A) - n /\ \A k \in 1 .. Len(A) - n : P[k] = A[IF k = 1 THEN 1 ELSE k + n]
  BY <1>2, <1>3, RoundsLeft
<1>5. Len(A) = Cardinality(Heads(all)) /\ Len(A) \in Nat \ {0}
  BY <1>2, RoundsAre, HeadsAre
<1>6. DOMAIN P = 1 .. Len(P) /\ Len(P) \in Nat \ {0}
  <2>. HIDE DEF part
  <2>. QED BY <1>4, RoundsAre, HeadsAre
<1>. HIDE DEF part, A, P, R
<1>7. Len(R) - Len(P) = n
  BY <1>2, <1>3, <1>4, <1>5
<1>8. P # <<>>
  <2>1. Len(<<>>) = 0
    OBVIOUS
  <2>. QED BY <1>6, <2>1
<1>9. ASSUME NEW k \in 1 .. Len(P)
      PROVE  P[k] \in {R[IF k = 1 THEN 1 ELSE k + n], Compacted(R[IF k = 1 THEN 1 ELSE k + n])}
  <2>. DEFINE m == IF k = 1 THEN 1 ELSE k + n
  <2>1. m \in 1 .. Len(R) /\ k \in 1 .. Len(A) - n
    BY <1>2, <1>3, <1>4, <1>5, <1>6
  <2>2. P[k] = A[m]
    BY <1>4, <2>1
  <2>. HIDE DEF m
  <2>3. P[k] \in {R[m], Compacted(R[m])}
    BY <1>2, <2>1, <2>2
  <2>. QED BY <2>3 DEF m
<1>10. FromRounds(msgs, part)
  BY <1>3, <1>6, <1>7, <1>8, <1>9 DEF FromRounds, R, P
<1>. QED BY <1>1, <1>10

-----------------------------------------------------------------------------
(* What a run sends *)

\* What a run sends while it waits.
LEMMA SentIs ==
  SentInRounds <=> (agent.pc = "wait" => FromRounds(agent.msgs, agent.sent))
BY Zenon DEF SentInRounds, FromRounds

\* The next turn is not asked for yet.
LEMMA TurnedWaits ==
  ASSUME NEW r, DOMAIN r = RunFields, NextTurn(r)
  PROVE  agent'.pc # "wait"
<1>. DEFINE q == [r EXCEPT !.iter = @ + 1, !.pc = "turn"]
<1>1. q.pc = "turn"
  BY DEF RunFields
<1>2. agent' = q \/ agent' = NotRunning
  BY Zenon DEF NextTurn, Goes, Ends
<1>. HIDE DEF q
<1>3. NotRunning.pc = "off"
  BY DEF NotRunning
<1>. QED BY <1>1, <1>2, <1>3

\* A result leaves the run at its tools.
LEMMA ResultWaits ==
  ASSUME NEW r, DOMAIN r = RunFields, r.pc = "tools", NEW ms, Goes(Done(Push(r, ms)))
  PROVE  agent'.pc # "wait"
<1>. DEFINE q == Done(Push(r, ms))
<1>1. q.pc = r.pc
  BY DEF RunFields, Done, Push
<1>2. agent' = q
  BY DEF Goes
<1>. QED BY <1>1, <1>2

\* What is sent is what of the conversation fits.
LEMMA AskTurnSends ==
  ASSUME AgentInv, AskTurn
  PROVE  SentInRounds'
<1>. DEFINE asked == ~agent.wrapping /\ (agent.iter >= Budget \/ chat.wrapUp)
            w == [agent EXCEPT !.wrapping = TRUE]
            r == IF asked THEN Push(w, <<Nudge>>) ELSE agent
            budget == conversationBudget(Window, Schemas, ~r.wrapping)
            q == [r EXCEPT !.pc = "wait", !.sent = fitToBudget(r.msgs, budget)]
<1>1. Runs(agent) /\ agent.pc = "turn" /\ agent' = q
  BY DEF AskTurn, AgentInv, Goes
<1>2. Runs(r)
  <2>1. /\ DOMAIN w = RunFields /\ w.pc # "off" /\ w.msgs = agent.msgs /\ w.seen = agent.seen
        /\ w.exposed = agent.exposed
    BY <1>1 DEF Runs, RunFields
  <2>. HIDE DEF w
  <2>2. Runs(w)
    BY <1>1, <2>1, RunSame
  <2>3. Runs(Push(w, <<Nudge>>))
    BY <2>2, Pushed, PlainMessages
  <2>. QED BY <1>1, <2>3
<1>. HIDE DEF r
<1>3. Talk(r.msgs) /\ Voiced(r.msgs)
  <2>1. Honest(r.msgs) /\ Len(r.msgs) > 0 /\ Len(r.msgs) \in Nat
    BY <1>2 DEF Runs, Sound, Honest, IsSeq
  <2>2. 1 \in 1 .. Len(r.msgs)
    BY <2>1
  <2>. QED BY <2>1, <2>2 DEF Honest, Talk, Voiced
<1>. HIDE DEF budget
<1>4. FromRounds(r.msgs, fitToBudget(r.msgs, budget))
  BY <1>3, FitsInRounds
<1>5. q.msgs = r.msgs /\ q.sent = fitToBudget(r.msgs, budget)
  BY <1>2 DEF Runs, RunFields
<1>. HIDE DEF q
<1>6. FromRounds(agent'.msgs, agent'.sent)
  BY <1>1, <1>4, <1>5
<1>. QED BY <1>6, Zenon DEF SentInRounds, FromRounds

\* A reply ends the waiting.
LEMMA ReplyWaits ==
  ASSUME AgentInv, NEW reply, ReplyArrives(reply)
  PROVE  agent'.pc # "wait"
<1>1. DOMAIN agent = RunFields
  BY DEF ReplyArrives, AgentInv, Runs
<1>. DEFINE calls == IF agent.wrapping THEN <<>> ELSE reply.calls
            e == Push([agent EXCEPT !.empty = TRUE], <<Nudge>>)
            l == Push([agent EXCEPT !.leaks = @ + 1], <<Says, Nudge>>)
            u == Push([agent EXCEPT !.uncited = TRUE], <<[Says EXCEPT !.draft = TRUE], Nudge>>)
            c == Push([agent EXCEPT !.pc = "tools", !.todo = calls, !.cut = FALSE], <<[Says EXCEPT !.calls = calls]>>)
<1>2. NextTurn(e) \/ NextTurn(l) \/ NextTurn(u) \/ agent' = NotRunning \/ agent' = c
  BY Zenon DEF ReplyArrives, Answers, Goes, Ends
<1>3. DOMAIN e = RunFields /\ DOMAIN l = RunFields /\ DOMAIN u = RunFields /\ c.pc = "tools"
  BY <1>1 DEF Push, RunFields
<1>4. NotRunning.pc # "wait"
  BY DEF NotRunning
<1>. HIDE DEF e, l, u, c
<1>. QED BY <1>2, <1>3, <1>4, TurnedWaits

\* A tool call is no question to the model.
LEMMA ToolWaits ==
  ASSUME AgentInv, ToolCall
  PROVE  agent'.pc # "wait"
<1>. DEFINE call == Head(agent.todo)
<1>1. agent.pc = "tools" /\ DOMAIN agent = RunFields
  BY DEF ToolCall, AgentInv, Runs
<1>2. \/ StopsCall(agent) \/ RepeatsCall(agent) \/ ReadsCase(agent, call) \/ UpdatesPlan(agent)
      \/ recordHypothesis(agent, call) \/ Finishes(agent, call) \/ Queues(agent, call)
  BY Zenon DEF ToolCall
<1>. HIDE DEF call
<1>3. CASE StopsCall(agent)
  <2>. DEFINE q == [Done(Push(agent, <<ToolSays>>)) EXCEPT !.cut = TRUE]
  <2>1. q.pc = "tools"
    BY <1>1 DEF Done, Push, RunFields
  <2>2. agent' = q
    BY <1>3 DEF StopsCall, Goes
  <2>. QED BY <2>1, <2>2
<1>4. CASE RepeatsCall(agent) \/ recordHypothesis(agent, call)
  <2>1. Goes(Done(Push(agent, <<ToolSays>>)))
    BY <1>4 DEF RepeatsCall, recordHypothesis, Result
  <2>. QED BY <1>1, <2>1, ResultWaits
<1>5. CASE ReadsCase(agent, call)
  <2>1. \E seen, exposed, cache, m :
          Goes(Done(Push([agent EXCEPT !.seen = seen, !.exposed = exposed, !.cache = cache], <<m>>)))
    BY <1>5, Zenon DEF ReadsCase, Result
  <2>2. PICK seen, exposed, cache, m :
          Goes(Done(Push([agent EXCEPT !.seen = seen, !.exposed = exposed, !.cache = cache], <<m>>)))
    BY <2>1
  <2>. DEFINE r == [agent EXCEPT !.seen = seen, !.exposed = exposed, !.cache = cache]
  <2>3. DOMAIN r = RunFields /\ r.pc = "tools"
    BY <1>1 DEF RunFields
  <2>. HIDE DEF r
  <2>. QED BY <2>2, <2>3, ResultWaits DEF r
<1>6. CASE UpdatesPlan(agent)
  <2>. DEFINE r == [agent EXCEPT !.plan = "model"]
  <2>1. DOMAIN r = RunFields /\ r.pc = "tools"
    BY <1>1 DEF RunFields
  <2>2. Goes(Done(Push(r, <<ToolSays>>)))
    BY <1>6 DEF UpdatesPlan, Result
  <2>. HIDE DEF r
  <2>. QED BY <2>1, <2>2, ResultWaits
<1>7. CASE Finishes(agent, call)
  <2>. DEFINE r == [agent EXCEPT !.uncited = TRUE]
  <2>1. DOMAIN r = RunFields /\ r.pc = "tools"
    BY <1>1 DEF RunFields
  <2>2. Goes(Done(Push(r, <<ToolSays>>))) \/ agent' = NotRunning
    BY <1>7 DEF Finishes, Result, Ends
  <2>3. NotRunning.pc # "wait"
    BY DEF NotRunning
  <2>. HIDE DEF r
  <2>. QED BY <2>1, <2>2, <2>3, ResultWaits
<1>8. CASE Queues(agent, call)
  <2>1. \/ Goes(Done(Push(agent, <<ToolSays>>)))
        \/ \E seen, m : Goes(Done(Push([agent EXCEPT !.seen = seen], <<m>>)))
    BY <1>8, Zenon DEF Queues, Refused, Result
  <2>2. ASSUME NEW seen, NEW m, Goes(Done(Push([agent EXCEPT !.seen = seen], <<m>>)))
        PROVE  agent'.pc # "wait"
    <3>. DEFINE r == [agent EXCEPT !.seen = seen]
    <3>1. DOMAIN r = RunFields /\ r.pc = "tools"
      BY <1>1 DEF RunFields
    <3>. HIDE DEF r
    <3>. QED BY <2>2, <3>1, ResultWaits DEF r
  <2>. QED BY <1>1, <2>1, <2>2, ResultWaits
<1>. QED BY <1>2, <1>3, <1>4, <1>5, <1>6, <1>7, <1>8

\* Nothing else sends, and nothing changes what was sent.
LEMMA SentStep ==
  ASSUME AgentInv, SentInRounds, [AgentNext]_agentVars
  PROVE  SentInRounds'
<1>1. CASE AskTurn
  BY <1>1, AskTurnSends
<1>2. CASE agent' = agent
  BY <1>2 DEF SentInRounds
<1>3. CASE agent'.pc # "wait"
  BY <1>3 DEF SentInRounds
<1>4. ASSUME NEW playbook, sendMessage(playbook)
      PROVE  agent'.pc # "wait"
  BY <1>4 DEF sendMessage, Begin
<1>5. CASE Saved
  <2>. DEFINE p == Head(saving)
  <2>1. /\ saving # <<>> /\ IsSeq(saving)
        /\ agent' = IF p.then = "run" THEN [agent EXCEPT !.pc = "turn"] ELSE agent
    BY <1>5 DEF Saved, AgentInv, SavingInv
  <2>2. 1 \in 1 .. Len(saving) /\ p = saving[1]
    BY <2>1, Shifted DEF IsSeq
  <2>. HIDE DEF p
  <2>3. CASE p.then = "run"
    <3>1. agent.pc = "first"
      BY <2>2, <2>3 DEF AgentInv, SavingInv
    <3>2. DOMAIN agent = RunFields
      BY <3>1 DEF AgentInv, Runs
    <3>3. agent'.pc = "turn"
      BY <2>1, <2>3, <3>2 DEF RunFields
    <3>. QED BY <1>3, <3>3
  <2>4. CASE p.then # "run"
    BY <1>2, <2>1, <2>4
  <2>. QED BY <2>3, <2>4
<1>6. CASE ModelFails \/ Aborted
  <2>1. agent' = NotRunning
    BY <1>6 DEF ModelFails, Aborted, Ends
  <2>. QED BY <1>3, <2>1 DEF NotRunning
<1>7. CASE RoundOver
  <2>. DEFINE r == [agent EXCEPT !.told = agent.plan]
  <2>1. DOMAIN r = RunFields /\ NextTurn(r)
    BY <1>7 DEF RoundOver, AgentInv, Runs
  <2>. HIDE DEF r
  <2>. QED BY <1>3, <2>1, TurnedWaits
<1>8. CASE stopChat
  <2>1. agent.pc # "off" /\ agent' = [agent EXCEPT !.aborted = TRUE]
    BY <1>8 DEF stopChat
  <2>2. DOMAIN agent = RunFields
    BY <2>1 DEF AgentInv, Runs
  <2>3. agent'.pc = agent.pc /\ agent'.msgs = agent.msgs /\ agent'.sent = agent.sent
    BY <2>1, <2>2 DEF RunFields
  <2>. QED BY <2>3 DEF SentInRounds
<1>9. ASSUME NEW c, SwitchCase(c) \/ ListArrives(c)
      PROVE  agent' = agent
  BY <1>9 DEF SwitchCase, ListArrives
<1>10. ASSUME newChatSession \/ wrapUpChat
       PROVE  agent' = agent
  BY <1>10 DEF newChatSession, wrapUpChat
<1>11. ASSUME NEW id, openChatSession(id) \/ DeleteSession(id)
       PROVE  agent' = agent
  BY <1>11 DEF openChatSession, DeleteSession
<1>12. ASSUME NEW c, NEW i, removeHypothesis(c, i)
       PROVE  agent' = agent
  BY <1>12 DEF removeHypothesis
<1>13. ASSUME UNCHANGED agentVars
       PROVE  agent' = agent
  BY <1>13 DEF agentVars
<1>. QED BY <1>1, <1>2, <1>3, <1>4, <1>5, <1>6, <1>7, <1>8, <1>9, <1>10, <1>11, <1>12, <1>13, ReplyWaits, ToolWaits, Zenon
         DEF AgentNext

\* What a model is sent of a conversation (ai/context.ts) is its first message, then whole rounds up to the newest,
\* some of them compacted: no tool's result without its call, whatever window and weights.
THEOREM SentByRounds == AgentSpec => []SentInRounds
<1>1. AgentInit => SentInRounds
  BY DEF AgentInit, NotRunning, SentInRounds
<1>2. AgentInv /\ SentInRounds /\ [AgentNext]_agentVars => SentInRounds'
  BY SentStep
<1>. QED BY <1>1, <1>2, AgentInvariant, PTL DEF AgentSpec
=============================================================================
