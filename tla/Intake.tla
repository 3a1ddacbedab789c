------------------------------- MODULE Intake -------------------------------
(***************************************************************************)
(* How a dropped file leaves the browser.  requestIngest holds files back  *)
(* until the analyst has read where they go, or has said what to do with a *)
(* large file or an archive; a queue per drop then takes the files one by  *)
(* one, and a file that is uploaded in chunks resumes an earlier upload,   *)
(* follows the server's offset, and falls back to a single request.        *)
(* The server's staging area is one step per request here; its threads are *)
(* in Staging.                                                             *)
(***************************************************************************)
EXTENDS Integers, Sequences, FiniteSets

CONSTANTS
    Doc,           \* files on the analyst's disk
    DocIs,         \* [Doc -> [size, evtx, header, archive]]: chunks, name ends in .evtx, real header
    Drop,          \* drops of files on the page, and the queue each one starts
    BIG, CHUNK_ABOVE, \* thresholdBytes(), CHUNK_ABOVE_BYTES: sizes in chunks
    Mode, LIMIT,   \* what health says: "full" or "browser-only", and how large a file may be
    Local,         \* the page is served from a loopback address
    MaxFaults      \* bound: how often a request fails, is lost, or the server loses an upload

ASSUME IntakeAssumption ==
    /\ Local \in BOOLEAN /\ Mode \in {"full", "browser-only"}
    /\ {BIG, CHUNK_ABOVE, LIMIT, MaxFaults} \subseteq Nat
    /\ \A f \in Doc : DocIs[f].size \in Nat \ {0} /\ (DocIs[f].archive => ~DocIs[f].evtx)

VARIABLES
    health,     \* the last health answer: Mode, or "none" before one and after a failure
    notice,     \* dataNotice: "unknown", "required" or "acknowledged"
    noted,      \* the tier whose notice this browser keeps as read, "none" before
    polls,      \* tiers of health answers whose read of the kept notice is under way
    storage,    \* where the case is kept: "browser" or "server"
    parseHere,  \* the case's parseEvtxInBrowser
    pending,    \* pendingIngest: <<>> or one [docs, reason]
    queue,      \* [Drop -> the queue ingestFiles works off for it]
    resume,     \* [Doc -> upload of the resume record, 0 when there is none]
    uploads,    \* the server's uploads: Seq of [doc, data, complete, gone], data the chunks it took
    unread,     \* history: files of which something left before a notice was read
    faults

intakeVars ==
    <<health, notice, noted, polls, storage, parseHere, pending, queue, resume, uploads, unread, faults>>

IdleQueue == [pc |-> "new", todo |-> {}, doc |-> {}, up |-> 0, offset |-> 0, tries |-> 0]

(* deployment(): the page's tier, from its host name and the last health answer. *)
Tier(mode) ==
    IF Local THEN "this-machine" ELSE IF mode = "browser-only" THEN "uploaded-not-kept" ELSE "self-hosted"

(* An .evtx file of a browser case that asked for it; the name is all that is looked at. *)
parsedInBrowser(f) == storage # "server" /\ parseHere /\ DocIs[f].evtx

(***************************************************************************)
(* Health and the notice                                                   *)
(***************************************************************************)
Fault == faults < MaxFaults /\ faults' = faults + 1

(* An answer, or none: the poll fails. *)
Poll(mode) ==
    /\ mode # health
    /\ IF mode = "none" THEN Fault ELSE UNCHANGED faults
    /\ health' = mode
    /\ notice' = IF mode # "none" /\ Tier(mode) = "this-machine" THEN "acknowledged" ELSE notice
    /\ polls' = IF mode # "none" /\ Tier(mode) # "this-machine" THEN polls \cup {Tier(mode)} ELSE polls
    /\ UNCHANGED <<noted, storage, parseHere, pending, queue, resume, uploads, unread>>

(* The poll's read of the kept notice: read for another tier, it is asked again. *)
ReadNotice ==
    /\ \E tier \in polls :
         /\ notice' = IF noted = tier THEN "acknowledged" ELSE "required"
         /\ polls' = polls \ {tier}
    /\ UNCHANGED <<health, noted, storage, parseHere, pending, queue, resume, uploads, unread, faults>>

(***************************************************************************)
(* requestIngest                                                           *)
(***************************************************************************)
Small(docs) == {f \in docs : health = "none" \/ parsedInBrowser(f) \/ DocIs[f].size <= LIMIT}
Asked(docs) == IF storage = "server" THEN docs ELSE Small(docs)

MustRead_Faulty(docs) == \* faulty: before the first answer of the server nothing is asked
    notice = "required" /\ \E f \in docs : ~parsedInBrowser(f)

(* Before the server has answered, a page of another host asks first. *)
MustRead(docs) ==
    /\ \E f \in docs : ~parsedInBrowser(f)
    /\ notice = "required" \/ (notice = "unknown" /\ Tier(health) # "this-machine")

ReasonToAsk(docs, noticeRead) ==
    IF ~noticeRead /\ MustRead(docs) THEN "notice"
    ELSE IF storage # "server" /\ \E f \in docs : DocIs[f].size > BIG THEN "big"
    ELSE IF \E f \in docs : DocIs[f].archive THEN "archive"
    ELSE "none"

(* The files asked for, after those above the server's limit are refused: held back in place of what
   was, or a new queue. *)
Request(d, asked, noticeRead, held) ==
    LET docs == Asked(asked)
        reason == ReasonToAsk(docs, noticeRead)
    IN  CASE docs = {} -> pending' = held /\ UNCHANGED queue
          [] docs # {} /\ reason # "none" ->
                 pending' = <<[docs |-> docs, reason |-> reason]>> /\ UNCHANGED queue
          [] OTHER -> /\ pending' = held
                      /\ queue' = [queue EXCEPT ![d] = [IdleQueue EXCEPT !.pc = "next", !.todo = docs]]

DropDocs(d) ==
    /\ queue[d].pc = "new"
    /\ \E docs \in (SUBSET Doc) \ {{}} : Request(d, docs, FALSE, pending)
    /\ UNCHANGED <<health, notice, noted, polls, storage, parseHere, resume, uploads, unread, faults>>

Cancel ==
    /\ pending # <<>> /\ pending' = <<>>
    /\ UNCHANGED <<health, notice, noted, polls, storage, parseHere, queue, resume, uploads, unread, faults>>

acknowledgeNotice(d) ==
    /\ pending # <<>> /\ pending[1].reason = "notice" /\ queue[d].pc = "new"
    /\ noted' = Tier(health) /\ notice' = "acknowledged"
    /\ Request(d, pending[1].docs, TRUE, <<>>)
    /\ UNCHANGED <<health, polls, storage, parseHere, resume, uploads, unread, faults>>

canConvert == storage # "server" /\ health # "browser-only"

(* The other questions: with a large file the case may be converted to the server's store first. *)
proceedPending(d, convert) ==
    /\ pending # <<>> /\ pending[1].reason # "notice" /\ queue[d].pc = "new"
    /\ convert => pending[1].reason = "big" /\ canConvert
    /\ storage' = IF convert THEN "server" ELSE storage
    /\ pending' = <<>>
    /\ queue' = [queue EXCEPT ![d] = [IdleQueue EXCEPT !.pc = "next", !.todo = pending[1].docs]]
    /\ UNCHANGED <<health, notice, noted, polls, parseHere, resume, uploads, unread, faults>>

(***************************************************************************)
(* ingestFiles: one file of a queue at a time                              *)
(***************************************************************************)
DocOf(d) == CHOOSE f \in queue[d].doc : TRUE
Upload(d) == uploads[queue[d].up]
Received(u) == Len(uploads[u].data)
QueueTo(d, label) == queue' = [queue EXCEPT ![d].pc = label]
Ended(d) == queue' = [queue EXCEPT ![d] = [IdleQueue EXCEPT !.pc = "next", !.todo = queue[d].todo]]
Leaves(d) == unread' = IF Local \/ noted # "none" THEN unread ELSE unread \cup queue[d].doc
QueueOnly == UNCHANGED <<health, notice, noted, polls, storage, parseHere, pending>>
(* Parsed here with the right header, in chunks, or in one request. *)
Route(f) ==
    IF storage = "server" THEN "find"
    ELSE IF parsedInBrowser(f) /\ DocIs[f].header THEN "here"
    ELSE IF DocIs[f].size > CHUNK_ABOVE THEN "find" ELSE "single"

NextDoc(d) ==
    /\ queue[d].pc = "next"
    /\ IF queue[d].todo = {} THEN queue' = [queue EXCEPT ![d] = [IdleQueue EXCEPT !.pc = "over"]]
       ELSE \E f \in queue[d].todo :
              queue' = [queue EXCEPT ![d] = [IdleQueue EXCEPT !.pc = Route(f), !.todo = queue[d].todo \ {f},
                                                              !.doc = {f}]]
    /\ QueueOnly /\ UNCHANGED <<resume, uploads, unread, faults>>

(* Sent whole, or parsed by the worker of this page. *)
SendWhole(d) ==
    /\ queue[d].pc \in {"single", "here"}
    /\ IF queue[d].pc = "single" THEN Leaves(d) ELSE UNCHANGED unread
    /\ Ended(d)
    /\ QueueOnly /\ UNCHANGED <<resume, uploads, faults>>

(***************************************************************************)
(* chunkedUpload                                                           *)
(***************************************************************************)
Resumable(f) ==
    /\ resume[f] # 0
    /\ LET u == uploads[resume[f]] IN ~u.gone /\ ~u.complete /\ u.data # <<>>

findResumable(d) ==
    /\ queue[d].pc = "find"
    /\ LET f == DocOf(d) IN
       \/ /\ Resumable(f) /\ faults' = faults
          /\ queue' = [queue EXCEPT ![d].up = resume[f], ![d].offset = Received(resume[f]), ![d].pc = "put"]
       \/ /\ IF Resumable(f) THEN Fault ELSE faults' = faults
          /\ QueueTo(d, "init")
    /\ QueueOnly /\ UNCHANGED <<resume, uploads, unread>>

(* An upload that fails: a server case says so on the evidence, a browser case sends the file whole. *)
Failed(d) ==
    IF storage = "server" THEN Ended(d)
    ELSE queue' = [queue EXCEPT ![d] = [IdleQueue EXCEPT !.pc = "single", !.todo = queue[d].todo,
                                                         !.doc = queue[d].doc]]

InitUpload(d) ==
    /\ queue[d].pc = "init"
    /\ LET u == Len(uploads) + 1 IN
       /\ uploads' = Append(uploads, [doc |-> DocOf(d), data |-> <<>>, complete |-> FALSE, gone |-> FALSE])
       /\ \/ /\ queue' = [queue EXCEPT ![d].up = u, ![d].offset = 0, ![d].pc = "put"]
             /\ resume' = [resume EXCEPT ![DocOf(d)] = u] /\ UNCHANGED faults
          \/ Fault /\ Failed(d) /\ UNCHANGED resume      \* the answer is lost
    /\ Leaves(d) /\ QueueOnly

(* What the server does with a chunk: it takes it at the offset it is at, and no other. *)
Open(d) == ~Upload(d).gone /\ ~Upload(d).complete

Accepts_Faulty(d) ==
    Open(d) /\ Received(queue[d].up) < DocIs[DocOf(d)].size \* faulty: sent without its offset

Accepts(d) == Open(d) /\ Received(queue[d].up) = queue[d].offset

Stored(d) ==
    IF Accepts(d) THEN [uploads EXCEPT ![queue[d].up].data = Append(@, queue[d].offset + 1)] ELSE uploads

(* The answer, or a 409 with the server's offset: the upload goes on from there. *)
Continue(d) ==
    /\ queue' = [queue EXCEPT ![d].offset = Len(uploads'[queue[d].up].data), ![d].tries = 0]
    /\ resume' = [resume EXCEPT ![DocOf(d)] = queue[d].up]

putChunk(d) ==
    /\ queue[d].pc = "put" /\ queue[d].offset < DocIs[DocOf(d)].size
    /\ uploads' = Stored(d)
    /\ \/ Open(d) /\ Continue(d) /\ UNCHANGED faults
       \/ /\ IF Open(d) THEN Fault ELSE UNCHANGED faults  \* a 5xx; 404, or 409 without an offset
          /\ IF queue[d].tries = 2 THEN Failed(d) ELSE queue' = [queue EXCEPT ![d].tries = @ + 1]
          /\ UNCHANGED resume
       \/ Fault /\ Failed(d) /\ UNCHANGED resume           \* no answer: fetch rejects
    /\ Leaves(d) /\ QueueOnly

CompleteUpload(d) ==
    /\ queue[d].pc = "put" /\ queue[d].offset >= DocIs[DocOf(d)].size
    /\ LET whole == ~Upload(d).gone /\ Received(queue[d].up) = DocIs[Upload(d).doc].size
       IN  /\ uploads' = IF whole THEN [uploads EXCEPT ![queue[d].up].complete = TRUE] ELSE uploads
           /\ \/ whole /\ QueueTo(d, "post") /\ resume' = [resume EXCEPT ![DocOf(d)] = 0] /\ UNCHANGED faults
              \/ (IF whole THEN Fault ELSE UNCHANGED faults) /\ Failed(d) /\ UNCHANGED resume
    /\ QueueOnly /\ UNCHANGED unread

(* The parse of the staged upload: the server removes it when it has read it. *)
PostIngest(d) ==
    /\ queue[d].pc = "post"
    /\ uploads' = [uploads EXCEPT ![queue[d].up].gone = TRUE]
    /\ Ended(d)
    /\ QueueOnly /\ UNCHANGED <<resume, unread, faults>>

(* The sweeper, a restart, or the removal of the evidence takes the upload away. *)
LoseUpload ==
    /\ Fault
    /\ \E u \in DOMAIN uploads : ~uploads[u].gone /\ uploads' = [uploads EXCEPT ![u].gone = TRUE]
    /\ QueueOnly /\ UNCHANGED <<queue, resume, unread>>

(* The tab is reloaded: queues and questions are lost, what IndexedDB keeps is not. *)
Reload ==
    /\ Fault
    /\ health' = "none" /\ notice' = "unknown" /\ polls' = {} /\ pending' = <<>>
    /\ queue' = [d \in Drop |-> IF queue[d].pc = "new" THEN IdleQueue ELSE [IdleQueue EXCEPT !.pc = "over"]]
    /\ UNCHANGED <<noted, storage, parseHere, resume, uploads, unread>>

(***************************************************************************)
IntakeInit ==
    /\ health = "none" /\ notice = "unknown" /\ noted = "none" /\ polls = {}
    /\ storage \in {"browser", "server"} /\ parseHere \in BOOLEAN
    /\ pending = <<>> /\ queue = [d \in Drop |-> IdleQueue]
    /\ resume = [f \in Doc |-> 0] /\ uploads = <<>> /\ unread = {} /\ faults = 0

QueueStep(d) ==
    \/ NextDoc(d) \/ SendWhole(d) \/ findResumable(d) \/ InitUpload(d) \/ putChunk(d)
    \/ CompleteUpload(d) \/ PostIngest(d)

IntakeNext ==
    \/ \E mode \in {"none", Mode} : Poll(mode)
    \/ ReadNotice \/ Cancel \/ LoseUpload \/ Reload
    \/ \E d \in Drop : DropDocs(d) \/ acknowledgeNotice(d) \/ QueueStep(d)
    \/ \E d \in Drop, convert \in BOOLEAN : proceedPending(d, convert)

IntakeSpec == IntakeInit /\ [][IntakeNext]_intakeVars

(***************************************************************************)
(* Properties                                                              *)
(***************************************************************************)
(* Whatever the order of the health answers, the reads of the kept notice, reloads and drops: no part
   of a file leaves for another machine before the notice was read, but for a file named .evtx that
   is taken for one that stays here. *)
NoticeRespected == \A f \in unread : DocIs[f].evtx /\ parseHere

(* Lost answers, retries, resumed uploads and two queues that send one file at a time: an upload a
   queue has ended holds each chunk of its file once, in order, and none believes the server has more
   than it has. *)
UploadWhole ==
    \A d \in Drop : queue[d].up # 0 /\ ~Upload(d).gone =>
        /\ queue[d].offset <= Received(queue[d].up)
        /\ queue[d].pc = "post" => Upload(d).data = [n \in 1..DocIs[DocOf(d)].size |-> n]

(***************************************************************************)
(* What the docs say and the code does not do: see the README, Disagreements. *)
(***************************************************************************)
(* ingest.ts: "files that are all parsed here go nowhere, so there is nothing to be told about first". *)
NoticeBeforeUpload == unread = {}
=============================================================================
