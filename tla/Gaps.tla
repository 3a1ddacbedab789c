-------------------------------- MODULE Gaps --------------------------------
(***************************************************************************)
(* What the evidence of a case cannot show (data/evidenceGaps.ts): records *)
(* missing from a log's numbering or between its files, chunks that fail   *)
(* their checksum, write times that step back, logs and exports that start *)
(* late or stop early.  The statements are printed first under "Where it   *)
(* stops"; a statement is its kind, how serious it is and what it is       *)
(* about, its wording is left out.  Times are minutes.                     *)
(***************************************************************************)
EXTENDS Integers, FiniteSets, SequencesExt

CONSTANTS
    LATE,            \* LATE_MS: a log that starts within this of the first finding does not start late
    MARK_TOLERANCE,  \* a record this close to a clock change may be on either side of it
    BUFFER,          \* BUFFER_MS: records buffered over a restart are written within this of it
    STEP_REPORT,     \* a shorter step back in one log alone is write order
    CLOCK_LOGS,      \* so many logs of one computer stepping back together: its clock was set back
    SET_BACK_REPORT, \* a clock set back by less does not blur the order
    EXPORT_CAPS      \* what one search of the Unified Audit Log returns at most

GapNone == "none"
Says(kind, severity, about) == [kind |-> kind, severity |-> severity, about |-> about]
When(condition, said) == IF condition THEN said ELSE {}
LeastOf(S) == CHOOSE x \in S : \A y \in S : x <= y
GreatestOf(S) == CHOOSE x \in S : \A y \in S : x >= y
EarliestOf(S) == CHOOSE x \in S : \A y \in S : x.from <= y.from

-----------------------------------------------------------------------------
(* The files: a file's numbering is [file, channel, computer, channels, computers, names, first, last, holes,
   bad, badHeader, header, firstTs, steps, clock, starts]; its evidence is in `file`. *)

\* one log from one computer: a forwarded file has no single name
homogeneous(s) == s.channel # GapNone /\ s.computer # GapNone /\ s.channels <= 1 /\ s.computers <= 1

namesOf(s) == s.names \cup ({s.computer} \ {GapNone})

fileSequences(evidence) == FlattenSeq([i \in DOMAIN evidence |-> evidence[i].sequences])
filesOf(evidence) == UNION {ToSet(evidence[i].sequences) : i \in DOMAIN evidence}

\* what the parsers leave of the files of a case: finitely many, each with finitely many steps, and the numbers of
\* a file that is one log's are those of its first and its last record
FilesAre(files) ==
    /\ IsFiniteSet(files)
    /\ \A s \in files : /\ homogeneous(s) => s.first \in Int /\ s.last \in Int /\ s.first <= s.last
                        /\ IsFiniteSet(s.steps) /\ \A x \in s.steps : x[2] \in Int /\ x[3] \in Int

\* missing counts the holes' records; a hole is <<first, last>>
Missing(s) == {n \in s.first .. s.last : \E hole \in s.holes : hole[1] <= n /\ n <= hole[2]}

fileStatements(s) ==
    When(Missing(s) # {}, {Says("record-holes", "high", <<s.file, Missing(s)>>)})
    \cup When(s.bad > 0, {Says("checksum", "high", s.file)})
    \cup When(s.badHeader > 0 \/ ~s.header, {Says("checksum", "medium", s.file)})

-----------------------------------------------------------------------------
(* Write times that step back: <<record, from, to>> *)

ClockChanges(files, name) == {c \in UNION {s.clock : s \in files} : c.computer = name}
LogStarts(files, name) == {l.ts : l \in {l \in UNION {s.starts : s \in files} : l.computer = name}}

ByClock(from, to, c) ==
    \/ c.new < c.old /\ from <= c.old + MARK_TOLERANCE /\ to >= c.new - MARK_TOLERANCE
    \/ /\ c.new > c.old
       /\ to >= c.old - BUFFER /\ to <= c.old + MARK_TOLERANCE
       /\ from >= c.new - MARK_TOLERANCE /\ from <= c.new + BUFFER
ByStart(from, to, t) == to <= t + MARK_TOLERANCE /\ from >= t - MARK_TOLERANCE /\ from <= t + BUFFER

\* what the computer's clock or its log service accounts for
explained(files, s, step) ==
    \E name \in namesOf(s) :
        \/ \E c \in ClockChanges(files, name) : ByClock(step[2], step[3], c)
        \/ \E t \in LogStarts(files, name) : ByStart(step[2], step[3], t)

\* the recorded changes of one computer, once per moment however many logs recorded them
SameChange(c, d) ==
    /\ c.computer = d.computer
    /\ c.old - d.old \in -MARK_TOLERANCE .. MARK_TOLERANCE /\ c.new - d.new \in -MARK_TOLERANCE .. MARK_TOLERANCE
RecordedSetBacks(seqs) ==
    FoldLeft(LAMBDA seen, s : seen \cup {c \in s.clock : c.old - c.new >= SET_BACK_REPORT /\ ~\E d \in seen : SameChange(c, d)},
             {}, seqs)

\* a machine renamed during setup logs under each of its names, all in the same files
Machine(files, name) ==
    LET single == {s \in files : s.channels <= 1}
        names == {name} \cup UNION {namesOf(s) : s \in single}
        Closed(S) == name \in S /\ \A s \in single : namesOf(s) \cap S # {} => namesOf(s) \subseteq S
    IN  CHOOSE S \in SUBSET names : Closed(S) /\ \A T \in SUBSET names : Closed(T) => S \subseteq T

StepOf(s, x) == [s |-> s, rid |-> x[1], from |-> x[2], to |-> x[3]]
Unexplained(files) == UNION {{StepOf(s, x) : x \in {x \in s.steps : ~explained(files, s, x)}} : s \in files}
OfOneLog(step) == step.s.computer # GapNone /\ step.s.channels <= 1

\* the steps of one machine in time order, cut into runs of BUFFER from the first of each: the times a run
\* begins at are the first one, and each that no run before it has within BUFFER of its own beginning
Beginnings(times) ==
    CHOOSE S \in SUBSET times : \A t \in times : t \in S <=> ~\E s \in S : s < t /\ t - s <= BUFFER
Run(steps, start) == {x \in steps : start <= x.from /\ x.from - start <= BUFFER}
Runs(steps) == {Run(steps, start) : start \in Beginnings({x.from : x \in steps})}
LogsOf(run) == {x.s.file : x \in run}
Together(run) == Cardinality(LogsOf(run)) >= CLOCK_LOGS
MachineRuns(files, steps) ==
    UNION {Runs({x \in steps : Machine(files, x.s.computer) = m}) : m \in {Machine(files, x.s.computer) : x \in steps}}

SetBackOf(run) ==
    [computer |-> EarliestOf(run).s.computer, old |-> GreatestOf({x.from : x \in run}), new |-> LeastOf({x.to : x \in run})]
Alone(steps, runs) == {x \in steps : ~OfOneLog(x)} \cup UNION {r \in runs : ~Together(r)}

LongSteps(steps, runs) == {x \in Alone(steps, runs) : x.from - x.to >= STEP_REPORT}
StepStatements(steps, runs, recorded) ==
    {Says("clock-set-back", "low", c) : c \in recorded \cup {SetBackOf(r) : r \in {r \in runs : Together(r)}}}
    \cup {Says("time-backwards", "medium", <<file, {x.rid : x \in {x \in LongSteps(steps, runs) : x.s.file = file}}>>) :
          file \in {x.s.file : x \in LongSteps(steps, runs)}}

timeStatements(files, recorded) ==
    LET Of(steps) == StepStatements(steps, MachineRuns(files, {x \in steps : OfOneLog(x)}), recorded)
    IN  Of(Unexplained(files))

-----------------------------------------------------------------------------
(* Between the files of one log *)

LogOf(s) == <<s.computer, s.channel>>
FilesOf(files, log) == {s \in files : homogeneous(s) /\ LogOf(s) = log}

\* how far the files that begin before this one reach
\* faulty: the file before is taken for the one that reaches furthest
Reaching_Faulty(before) == (CHOOSE s \in before : \A u \in before : u.first <= s.first).last
Reaching(before) == GreatestOf({s.last : s \in before})

Between(reach, next) ==
    When(next.first > reach + 1, {Says("missing-between-files", "medium", <<LogOf(next), (reach + 1) .. (next.first - 1)>>)})
Before(next, files) == {s \in files : s.first < next.first}
BetweenOf(files) ==
    UNION {Between(Reaching(Before(next, files)), next) : next \in {s \in files : Before(s, files) # {}}}

LogsIn(files) == {LogOf(s) : s \in {s \in files : homogeneous(s)}}
betweenFiles(files) == UNION {BetweenOf(FilesOf(files, log)) : log \in LogsIn(files)}

-----------------------------------------------------------------------------
(* Logs and exports that start late or stop early *)

FirstRecordOf(files) == LeastOf({s.firstTs : s \in files})
startsLate(files, start) ==
    LET late == {log \in LogsIn(files) : FirstRecordOf(FilesOf(files, log)) > start + LATE}
    IN  {Says("log-starts-late", "medium", <<computer, {log[2] : log \in {l \in late : l[1] = computer}}>>) : computer \in {log[1] : log \in late}}

\* an evidence and the parsed members of a package: [name, format, status, count, duplicates, cut]
Parsed(e) == {e.own} \cup {f \in e.members : f.status = "parsed"}
exportCaps(e) ==
    {Says("export-cap", "high", f.name) : f \in {f \in Parsed(e) : f.format = "ual" /\ f.count + f.duplicates \in EXPORT_CAPS}}
xmlExports(e) == {Says("xml-export", "low", f.name) : f \in {f \in Parsed(e) : f.format = "event-xml"}}
\* `cut` is "limit" for a reason that names the parse limit, "note" for a note that says how much was kept
readInPart(e) ==
    {Says("read-in-part", "high", f.name) : f \in {f \in e.members : f.status = "error" /\ f.cut = "limit"}}
    \cup {Says("read-in-part", "medium", f.name) : f \in {f \in e.members : f.cut = "note"}}

\* the mailboxes whose item reads were throttled, each from its first time
throttledStatements(throttled) ==
    {Says("mail-throttled", "high", <<user, LeastOf({t.ts : t \in {t \in throttled : t.user = user}})>>) : user \in {t.user : t \in throttled}}

SignInsLate(signIns, start) ==
    {Says("signins-start-late", "medium", ts) : ts \in {ts \in signIns : ts > start + LATE}}

\* `starts` holds the time of the first finding that matters, if there is one; `signIns` that of the first sign-in
evidenceGaps(evidence, starts, signIns, throttled) ==
    LET Of(files) ==
            (UNION {fileStatements(s) : s \in files}) \cup betweenFiles(files)
            \cup timeStatements(files, RecordedSetBacks(fileSequences(evidence)))
            \cup UNION {startsLate(files, t) \cup SignInsLate(signIns, t) : t \in starts}
    IN  Of(filesOf(evidence))
        \cup (UNION {exportCaps(evidence[i]) \cup xmlExports(evidence[i]) \cup readInPart(evidence[i]) : i \in DOMAIN evidence})
        \cup throttledStatements(throttled)

\* the first finding that matters: not a false positive, medium severity or above
incidentStart(findings) ==
    LET timed == {f.ts : f \in {f \in findings : f.status # "false_positive" /\ f.ts # 0 /\ f.sev \in {"critical", "high", "medium"}}}
    IN  IF timed = {} THEN {} ELSE {LeastOf(timed)}

-----------------------------------------------------------------------------
(* What must hold of the statements *)

\* The record numbers of a log, from the lowest of its files to the highest, are each in the range of
\* one of the files or said to be in none of them, and never both.  Files may overlap, come in any
\* order, and one may hold the whole range of another.
NumbersAccounted(files) ==
    \A log \in LogsIn(files) :
        LET of == FilesOf(files, log)
            span == LeastOf({s.first : s \in of}) .. GreatestOf({s.last : s \in of})
            inFile == UNION {s.first .. s.last : s \in of}
            between == UNION {x.about[2] : x \in {x \in betweenFiles(files) : x.about[1] = log}}
        IN  between = span \ inFile

\* Every step back of a minute or more that no clock change or service start explains is said once: its
\* record is in a statement about its file, or its moment in one about its machine's clock.
StepsAccounted(files, recorded) ==
    \A x \in Unexplained(files) : x.from - x.to >= STEP_REPORT =>
        \E y \in timeStatements(files, recorded) :
            \/ y.kind = "time-backwards" /\ y.about[1] = x.s.file /\ x.rid \in y.about[2]
            \/ /\ y.kind = "clock-set-back" /\ y.about.new <= x.to /\ y.about.old >= x.from
               /\ Machine(files, y.about.computer) = Machine(files, x.s.computer)
=============================================================================
