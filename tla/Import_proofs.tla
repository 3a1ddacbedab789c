---------------------------- MODULE Import_proofs ----------------------------
(***************************************************************************)
(* Proofs about importing evidence in the browser.  How a dropped file     *)
(* leaves the browser: for any files, any drops and thresholds, and any    *)
(* order of health answers, reloads, lost answers and retries, what left   *)
(* before the analyst read a notice is named .evtx in a case that parses   *)
(* those here, and an upload a queue has ended holds its file, whole and   *)
(* in order.  What an import writes: for any tabs, any imports, files of   *)
(* any length, any batch size and any number of closed tabs, repairs and   *)
(* removals, a repair never touches the rows of an import that runs or     *)
(* that ended done, and an import marked done holds its whole file; while  *)
(* one of them runs at a time, the facets and the indicators count the     *)
(* rows of the case.                                                       *)
(***************************************************************************)
EXTENDS Intake, BrowserImport, FiniteSetTheorems, TLAPS

(***************************************************************************)
(* Routing and uploading (Intake)                                          *)
(***************************************************************************)
(* The inductive invariant *)

QueueFields == {"pc", "todo", "doc", "up", "offset", "tries"}
Sending == {"put", "post"}
Carrying == {"single", "here", "find", "init"} \cup Sending
UploadRecord == [doc : Doc, data : Seq(Nat), complete : BOOLEAN, gone : BOOLEAN]

\* The files whose name and case say that this page parses them.
Stays == {f \in Doc : DocIs[f].evtx /\ parseHere}

\* Nobody has read a notice, on a page for which there is one.
Unread == ~Local /\ noted = "none"

\* What is under way was asked for by the analyst: a notice that was not read holds back all but the
\* files that stay.
Notices ==
  /\ polls \subseteq {"self-hosted", "uploaded-not-kept", "this-machine"}
  /\ notice \in {"unknown", "required", "acknowledged"} /\ (Unread => notice # "acknowledged")
  /\ Unread /\ pending # <<>> /\ pending[1].reason # "notice" => pending[1].docs \subseteq Stays
  /\ Unread => \A d \in Drop : queue[d].todo \cup queue[d].doc \subseteq Stays
  /\ unread \subseteq Stays

Questions == pending # <<>> => pending[1].docs \in SUBSET Doc

QueueShape(d) ==
  /\ DOMAIN queue[d] = QueueFields
  /\ queue[d].todo \in SUBSET Doc /\ queue[d].doc \in SUBSET Doc
  /\ queue[d].up \in Nat /\ queue[d].offset \in Nat
  /\ queue[d].pc \in Carrying => \E f \in Doc : queue[d].doc = {f}
  /\ queue[d].up # 0 <=> queue[d].pc \in Sending

\* An upload of the server: its chunks are in order, and it is complete when it has them all.
UploadShape(u) ==
  /\ \A n \in DOMAIN uploads[u].data : uploads[u].data[n] = n
  /\ Len(uploads[u].data) <= DocIs[uploads[u].doc].size
  /\ uploads[u].complete => Len(uploads[u].data) = DocIs[uploads[u].doc].size

\* A queue sends to an upload of its own file, and never from beyond what the server has.
QueueSends(d) ==
  queue[d].up # 0 =>
    /\ queue[d].up \in DOMAIN uploads
    /\ queue[d].doc = {uploads[queue[d].up].doc}
    /\ queue[d].offset <= Len(uploads[queue[d].up].data)
    /\ queue[d].pc = "post" => uploads[queue[d].up].complete

\* The resume record of a file names an upload of that file.
Resumes(f) ==
  /\ resume[f] \in Nat
  /\ resume[f] # 0 => resume[f] \in DOMAIN uploads /\ uploads[resume[f]].doc = f

IntakeInv ==
  /\ Notices /\ Questions
  /\ DOMAIN queue = Drop /\ DOMAIN resume = Doc /\ uploads \in Seq(UploadRecord)
  /\ \A d \in Drop : QueueShape(d) /\ QueueSends(d)
  /\ \A u \in DOMAIN uploads : UploadShape(u)
  /\ \A f \in Doc : Resumes(f)

-----------------------------------------------------------------------------
(* Frames *)

\* What the server has of an upload is not taken back: an upload that is gone keeps its record.
UploadsGrow ==
  \A u \in DOMAIN uploads :
    /\ u \in DOMAIN uploads' /\ uploads'[u].doc = uploads[u].doc
    /\ Len(uploads[u].data) <= Len(uploads'[u].data)
    /\ uploads[u].complete => uploads'[u].complete

\* The uploads as the invariant wants them, after a step.
UploadsRight ==
  /\ UploadsGrow /\ uploads' \in Seq(UploadRecord)
  /\ \A u \in DOMAIN uploads' : UploadShape(u)'

\* A step that leaves the uploads alone leaves them right.
LEMMA UploadsSame == ASSUME IntakeInv, uploads' = uploads PROVE UploadsRight
<1>1. \A u \in DOMAIN uploads : uploads[u] \in UploadRecord /\ UploadShape(u)
  BY DEF IntakeInv
<1>2. \A u \in DOMAIN uploads : Len(uploads[u].data) \in Nat
  BY <1>1 DEF UploadRecord
<1> QED BY <1>1, <1>2 DEF IntakeInv, UploadsRight, UploadsGrow, UploadShape

\* A queue that does nothing, whatever the server takes meanwhile.
LEMMA QueueSame ==
  ASSUME IntakeInv, NEW d \in Drop, queue'[d] = queue[d], UploadsRight
  PROVE  QueueShape(d)' /\ QueueSends(d)'
<1>1. QueueShape(d) /\ QueueSends(d)
  BY DEF IntakeInv
<1>2. QueueShape(d)'
  BY <1>1 DEF QueueShape
<1>3. ASSUME queue[d].up # 0
      PROVE  Len(uploads[queue[d].up].data) \in Nat /\ Len(uploads'[queue[d].up].data) \in Nat
  <2>1. queue[d].up \in DOMAIN uploads /\ queue[d].up \in DOMAIN uploads'
    BY <1>1, <1>3 DEF QueueSends, UploadsRight, UploadsGrow
  <2>2. uploads[queue[d].up] \in UploadRecord /\ uploads'[queue[d].up] \in UploadRecord
    BY <2>1 DEF IntakeInv, UploadsRight
  <2> QED BY <2>2 DEF UploadRecord
<1>4. QueueSends(d)'
  BY <1>1, <1>3 DEF QueueSends, QueueShape, UploadsRight, UploadsGrow
<1> QED BY <1>2, <1>4

\* A queue that has no upload.
LEMMA QueueRests ==
  ASSUME NEW d \in Drop, DOMAIN queue'[d] = QueueFields,
         queue'[d].pc \in {"new", "next", "over", "single", "here", "find"},
         queue'[d].todo \in SUBSET Doc, queue'[d].doc \in SUBSET Doc, queue'[d].up = 0, queue'[d].offset = 0,
         queue'[d].pc \in Carrying => \E f \in Doc : queue'[d].doc = {f}
  PROVE  QueueShape(d)' /\ QueueSends(d)'
BY DEF QueueShape, QueueSends, Sending

\* One step of one queue.
LEMMA QueueMoves ==
  ASSUME IntakeInv, NEW d \in Drop, QueueOnly,
         DOMAIN queue' = Drop, \A e \in Drop \ {d} : queue'[e] = queue[e],
         queue'[d].todo \cup queue'[d].doc \subseteq queue[d].todo \cup queue[d].doc,
         unread' = unread \/ Leaves(d),
         QueueShape(d)', QueueSends(d)', UploadsRight,
         DOMAIN resume' = Doc, \A f \in Doc : Resumes(f)'
  PROVE  IntakeInv'
<1>1. Questions'
  BY DEF IntakeInv, Questions, QueueOnly
<1>2. Notices'
  <2>1. Notices /\ UNCHANGED <<polls, noted, notice, pending, parseHere>>
    BY DEF IntakeInv, QueueOnly
  <2>2. Unread' = Unread /\ Stays' = Stays
    BY <2>1 DEF Unread, Stays
  <2>3. Unread => \A e \in Drop : queue'[e].todo \cup queue'[e].doc \subseteq Stays
    BY <2>1 DEF Notices
  <2>4. unread' \subseteq Stays
    BY <2>1 DEF Notices, Leaves, Unread
  <2> QED BY <2>1, <2>2, <2>3, <2>4 DEF Notices
<1>3. \A e \in Drop : QueueShape(e)' /\ QueueSends(e)'
  BY QueueSame
<1> QED BY <1>1, <1>2, <1>3 DEF IntakeInv, UploadsRight

\* A step that changes no upload and no resume record keeps what the resume records name.
LEMMA ResumesSame ==
  ASSUME IntakeInv, resume' = resume, UploadsRight
  PROVE  DOMAIN resume' = Doc /\ \A f \in Doc : Resumes(f)'
BY DEF IntakeInv, Resumes, UploadsRight, UploadsGrow

-----------------------------------------------------------------------------
(* Health, the notice and what is asked for *)

\* deployment() names one of three tiers.
LEMMA TierIs == \A mode : Tier(mode) \in {"self-hosted", "uploaded-not-kept", "this-machine"}
BY DEF Tier

\* A step that leaves the queues, the uploads and the resume records alone.
LEMMA QuietStep ==
  ASSUME IntakeInv, UNCHANGED <<queue, uploads, resume>>, Notices', Questions'
  PROVE  IntakeInv'
<1>1. UploadsRight
  BY UploadsSame
<1>2. \A d \in Drop : QueueShape(d)' /\ QueueSends(d)'
  BY <1>1, QueueSame
<1>3. DOMAIN resume' = Doc /\ \A f \in Doc : Resumes(f)'
  BY <1>1, ResumesSame
<1> QED BY <1>1, <1>2, <1>3 DEF IntakeInv, UploadsRight

\* A health answer, the read of the kept notice and a cancelled question.
LEMMA NoticeSteps ==
  ASSUME IntakeInv, (\E mode \in {"none", Mode} : Poll(mode)) \/ ReadNotice \/ Cancel
  PROVE  IntakeInv'
<1>0. Notices /\ Questions
  BY DEF IntakeInv
<1>1. ASSUME NEW mode \in {"none", Mode}, Poll(mode) PROVE IntakeInv'
  <2>1. /\ UNCHANGED <<noted, parseHere, pending, queue, resume, uploads, unread>>
        /\ polls' \subseteq polls \cup {Tier(mode)}
        /\ notice' = notice \/ (notice' = "acknowledged" /\ Tier(mode) = "this-machine")
    BY <1>1 DEF Poll
  <2>2. Tier(mode) = "this-machine" => Local
    BY DEF Tier
  <2>3. Notices' /\ Questions'
    BY <1>0, <2>1, <2>2, TierIs DEF Notices, Questions, Unread, Stays
  <2> QED BY <2>1, <2>3, QuietStep
<1>2. CASE ReadNotice
  <2>1. /\ UNCHANGED <<noted, parseHere, pending, queue, resume, uploads, unread>>
        /\ polls' \subseteq polls
    BY <1>2 DEF ReadNotice
  <2>2. notice' = "required" \/ (notice' = "acknowledged" /\ noted \in polls)
    BY <1>2 DEF ReadNotice
  <2>3. Notices' /\ Questions'
    BY <1>0, <2>1, <2>2 DEF Notices, Questions, Unread, Stays
  <2> QED BY <2>1, <2>3, QuietStep
<1>3. CASE Cancel
  <2>1. /\ UNCHANGED <<noted, notice, polls, parseHere, queue, resume, uploads, unread>> /\ pending' = <<>>
    BY <1>3 DEF Cancel
  <2>2. Notices' /\ Questions'
    BY <1>0, <2>1 DEF Notices, Questions, Unread, Stays
  <2> QED BY <2>1, <2>2, QuietStep
<1> QED BY <1>1, <1>2, <1>3

Asks(docs, reason) == pending' = <<[docs |-> docs, reason |-> reason]>> /\ queue' = queue
Starts(d, docs) == queue' = [queue EXCEPT ![d] = [IdleQueue EXCEPT !.pc = "next", !.todo = docs]]

\* What requestIngest does with the files of a drop: it holds them back, or starts a queue.
LEMMA RequestDoes ==
  ASSUME NEW d \in Drop, NEW asked \in SUBSET Doc, NEW noticeRead \in BOOLEAN, NEW held,
         Request(d, asked, noticeRead, held)
  PROVE  \/ pending' = held /\ queue' = queue
         \/ \E docs \in SUBSET asked, reason \in {"notice", "big", "archive", "none"} :
              /\ ~noticeRead /\ reason # "notice" => ~MustRead(docs)
              /\ Asks(docs, reason) \/ (pending' = held /\ reason = "none" /\ Starts(d, docs))
<1> DEFINE docs == Asked(asked)
           reason == ReasonToAsk(docs, noticeRead)
<1>1. docs \in SUBSET asked
  BY DEF Asked, Small
<1>2. reason \in {"notice", "big", "archive", "none"} /\ (~noticeRead /\ reason # "notice" => ~MustRead(docs))
  BY DEF ReasonToAsk
<1>3. \/ pending' = held /\ queue' = queue
      \/ Asks(docs, reason)
      \/ pending' = held /\ reason = "none" /\ Starts(d, docs)
  BY DEF Request, Asks, Starts
<1> HIDE DEF docs, reason
<1> QED BY <1>1, <1>2, <1>3

\* Files that no notice held back, on a page for which there is one, stay here.
LEMMA NotHeldBack ==
  ASSUME Notices, NEW docs \in SUBSET Doc, ~MustRead(docs), Unread
  PROVE  docs \subseteq Stays
<1>1. Tier(health) # "this-machine"
  BY DEF Tier, Unread
<1> QED BY <1>1 DEF Notices, MustRead, parsedInBrowser, Stays

\* A queue starts, or a question is put: what they take on is some files of what was asked for.
LEMMA RequestKeeps ==
  ASSUME IntakeInv, NEW d \in Drop, NEW asked \in SUBSET Doc, NEW noticeRead \in BOOLEAN, NEW held,
         Request(d, asked, noticeRead, held), held \in {pending, <<>>},
         UNCHANGED <<polls, parseHere, resume, uploads, unread>>,
         IF noticeRead THEN noted' # "none" /\ notice' = "acknowledged" ELSE UNCHANGED <<noted, notice>>
  PROVE  IntakeInv'
<1>0. Notices /\ Questions /\ DOMAIN queue = Drop
  BY DEF IntakeInv
<1>1. UploadsRight /\ DOMAIN resume' = Doc /\ \A f \in Doc : Resumes(f)'
  BY UploadsSame, ResumesSame
<1>2. CASE pending' = held /\ queue' = queue
  <2>1. Notices' /\ Questions'
    BY <1>0, <1>2 DEF Notices, Questions, Unread, Stays
  <2> QED BY <1>2, <2>1, QuietStep
<1>3. ASSUME NEW docs \in SUBSET asked, NEW reason \in {"notice", "big", "archive", "none"},
             ~noticeRead /\ reason # "notice" => ~MustRead(docs),
             Asks(docs, reason)
      PROVE  IntakeInv'
  <2>0. pending'[1].docs = docs /\ pending'[1].reason = reason /\ queue' = queue
    BY <1>3 DEF Asks
  <2>1. Questions'
    BY <2>0 DEF Questions
  <2>2. Unread' => Unread /\ ~noticeRead
    BY DEF Unread
  <2>3. Unread' /\ reason # "notice" => docs \subseteq Stays
    BY <1>0, <1>3, <2>2, NotHeldBack
  <2>4. Notices'
    BY <1>0, <2>0, <2>2, <2>3 DEF Notices, Unread, Stays
  <2> QED BY <2>0, <2>1, <2>4, QuietStep
<1>4. ASSUME NEW docs \in SUBSET asked, ~noticeRead => ~MustRead(docs), pending' = held, Starts(d, docs)
      PROVE  IntakeInv'
  <2>1. Questions'
    BY <1>0, <1>4 DEF Questions
  <2>2. Unread' => Unread /\ ~noticeRead
    BY DEF Unread
  <2>3. Unread' => docs \subseteq Stays
    BY <1>0, <1>4, <2>2, NotHeldBack
  <2>4. DOMAIN queue' = Drop /\ \A e \in Drop \ {d} : queue'[e] = queue[e]
    BY <1>0, <1>4 DEF Starts
  <2>5. /\ DOMAIN queue'[d] = QueueFields /\ queue'[d].pc = "next" /\ queue'[d].todo = docs
        /\ queue'[d].doc = {} /\ queue'[d].up = 0 /\ queue'[d].offset = 0
    BY <1>0, <1>4 DEF Starts, IdleQueue, QueueFields
  <2>6. QueueShape(d)' /\ QueueSends(d)'
    BY <2>5, QueueRests DEF Carrying, Sending
  <2>7. Notices'
    BY <1>0, <1>4, <2>2, <2>3, <2>4, <2>5 DEF Notices, Unread, Stays
  <2>8. \A e \in Drop : QueueShape(e)' /\ QueueSends(e)'
    BY <1>1, <2>4, <2>6, QueueSame
  <2> QED BY <1>1, <2>1, <2>4, <2>7, <2>8 DEF IntakeInv, UploadsRight
<1> QED BY <1>2, <1>3, <1>4, RequestDoes

\* A drop of files, a notice that is read, a question that is answered.
LEMMA Questioned ==
  ASSUME IntakeInv, NEW d \in Drop,
         DropDocs(d) \/ acknowledgeNotice(d) \/ \E convert \in BOOLEAN : proceedPending(d, convert)
  PROVE  IntakeInv'
<1>0. Notices /\ Questions /\ DOMAIN queue = Drop
  BY DEF IntakeInv
<1>1. pending # <<>> => pending[1].docs \in SUBSET Doc
  BY <1>0 DEF Questions
<1>2. CASE DropDocs(d)
  <2>1. PICK docs \in SUBSET Doc : Request(d, docs, FALSE, pending)
    BY <1>2 DEF DropDocs
  <2>2. UNCHANGED <<noted, notice, polls, parseHere, resume, uploads, unread>>
    BY <1>2 DEF DropDocs
  <2> QED BY <2>1, <2>2, RequestKeeps
<1>3. CASE acknowledgeNotice(d)
  <2>1. /\ pending # <<>> /\ Request(d, pending[1].docs, TRUE, <<>>)
        /\ noted' = Tier(health) /\ notice' = "acknowledged"
        /\ UNCHANGED <<polls, parseHere, resume, uploads, unread>>
    BY <1>3 DEF acknowledgeNotice
  <2>2. noted' # "none"
    BY <2>1, TierIs
  <2> QED BY <1>1, <2>1, <2>2, RequestKeeps
<1>4. CASE \E convert \in BOOLEAN : proceedPending(d, convert)
  <2> DEFINE docs == pending[1].docs
  <2>1. /\ pending # <<>> /\ pending[1].reason # "notice" /\ pending' = <<>>
        /\ queue' = [queue EXCEPT ![d] = [IdleQueue EXCEPT !.pc = "next", !.todo = docs]]
        /\ UNCHANGED <<noted, notice, polls, parseHere, resume, uploads, unread>>
    BY <1>4 DEF proceedPending
  <2>2. docs \in SUBSET Doc
    BY <1>1, <2>1
  <2>3. Unread => docs \subseteq Stays
    BY <1>0, <2>1 DEF Notices
  <2> HIDE DEF docs
  <2>4. UploadsRight /\ DOMAIN resume' = Doc /\ \A f \in Doc : Resumes(f)'
    BY <2>1, UploadsSame, ResumesSame
  <2>5. DOMAIN queue' = Drop /\ \A e \in Drop \ {d} : queue'[e] = queue[e]
    BY <1>0, <2>1
  <2>6. /\ DOMAIN queue'[d] = QueueFields /\ queue'[d].pc = "next" /\ queue'[d].todo = docs
        /\ queue'[d].doc = {} /\ queue'[d].up = 0 /\ queue'[d].offset = 0
    BY <1>0, <2>1 DEF IdleQueue, QueueFields
  <2>7. QueueShape(d)' /\ QueueSends(d)'
    BY <2>2, <2>6, QueueRests DEF Carrying, Sending
  <2>8. Notices' /\ Questions'
    BY <1>0, <2>1, <2>3, <2>5, <2>6 DEF Notices, Questions, Unread, Stays
  <2>9. \A e \in Drop : QueueShape(e)' /\ QueueSends(e)'
    BY <2>4, <2>5, <2>7, QueueSame
  <2> QED BY <2>4, <2>5, <2>8, <2>9 DEF IntakeInv, UploadsRight
<1> QED BY <1>2, <1>3, <1>4

-----------------------------------------------------------------------------
(* The queues *)

\* A queue takes its next file, or sends one whole.
LEMMA QueueTakes ==
  ASSUME IntakeInv, NEW d \in Drop, NextDoc(d) \/ SendWhole(d)
  PROVE  IntakeInv'
<1>0. /\ DOMAIN queue = Drop /\ QueueShape(d) /\ QueueSends(d)
  BY DEF IntakeInv
<1>1. CASE NextDoc(d)
  <2>1. /\ DOMAIN queue' = Drop /\ \A e \in Drop \ {d} : queue'[e] = queue[e]
        /\ QueueOnly /\ UNCHANGED <<resume, uploads, unread>>
    BY <1>0, <1>1 DEF NextDoc
  <2>2. CASE queue[d].todo = {}
    <3>1. queue' = [queue EXCEPT ![d] = [IdleQueue EXCEPT !.pc = "over"]]
      BY <1>1, <2>2 DEF NextDoc
    <3>2. /\ DOMAIN queue'[d] = QueueFields /\ queue'[d].pc = "over" /\ queue'[d].todo = {}
          /\ queue'[d].doc = {} /\ queue'[d].up = 0 /\ queue'[d].offset = 0
      BY <1>0, <3>1 DEF IdleQueue, QueueFields
    <3>3. QueueShape(d)' /\ QueueSends(d)'
      BY <3>2, QueueRests DEF Carrying, Sending
    <3> QED BY <2>1, <3>2, <3>3, QueueMoves, UploadsSame, ResumesSame
  <2>3. CASE queue[d].todo # {}
    <3>1. PICK f \in queue[d].todo :
            queue' = [queue EXCEPT ![d] = [IdleQueue EXCEPT !.pc = Route(f), !.todo = queue[d].todo \ {f}, !.doc = {f}]]
      BY <1>1, <2>3 DEF NextDoc
    <3>2. Route(f) \in {"find", "here", "single"}
      BY DEF Route
    <3>3. /\ DOMAIN queue'[d] = QueueFields /\ queue'[d].pc \in {"find", "here", "single"}
          /\ queue'[d].todo = queue[d].todo \ {f}
          /\ queue'[d].doc = {f} /\ queue'[d].up = 0 /\ queue'[d].offset = 0
      BY <1>0, <3>1, <3>2 DEF IdleQueue, QueueFields
    <3>4. f \in Doc
      BY <1>0 DEF QueueShape
    <3>5. QueueShape(d)' /\ QueueSends(d)'
      BY <1>0, <3>3, <3>4, QueueRests DEF QueueShape
    <3> QED BY <2>1, <3>3, <3>5, QueueMoves, UploadsSame, ResumesSame
  <2> QED BY <2>2, <2>3
<1>2. CASE SendWhole(d)
  <2>1. /\ DOMAIN queue' = Drop /\ \A e \in Drop \ {d} : queue'[e] = queue[e]
        /\ QueueOnly /\ UNCHANGED <<resume, uploads>> /\ (unread' = unread \/ Leaves(d))
    BY <1>0, <1>2 DEF SendWhole, Ended
  <2>2. /\ DOMAIN queue'[d] = QueueFields /\ queue'[d].pc = "next" /\ queue'[d].todo = queue[d].todo
        /\ queue'[d].doc = {} /\ queue'[d].up = 0 /\ queue'[d].offset = 0
    BY <1>0, <1>2 DEF SendWhole, Ended, IdleQueue, QueueFields
  <2>3. QueueShape(d)' /\ QueueSends(d)'
    BY <1>0, <2>2, QueueRests DEF QueueShape, Carrying, Sending
  <2> QED BY <2>1, <2>2, <2>3, QueueMoves, UploadsSame, ResumesSame
<1> QED BY <1>1, <1>2

\* The file of a queue that carries one.
LEMMA DocIsIts == ASSUME NEW d \in Drop, NEW f \in Doc, queue[d].doc = {f} PROVE DocOf(d) = f
BY DEF DocOf

\* An upload that fails leaves the queue at its next file, or with the file to send whole.
LEMMA FailedRests ==
  ASSUME IntakeInv, NEW d \in Drop, Failed(d), queue[d].pc \in Carrying
  PROVE  /\ DOMAIN queue' = Drop /\ \A e \in Drop \ {d} : queue'[e] = queue[e]
         /\ queue'[d].todo = queue[d].todo /\ queue'[d].doc \subseteq queue[d].doc
         /\ QueueShape(d)' /\ QueueSends(d)'
<1>0. DOMAIN queue = Drop /\ QueueShape(d)
  BY DEF IntakeInv
<1>1. /\ DOMAIN queue' = Drop /\ \A e \in Drop \ {d} : queue'[e] = queue[e]
  BY <1>0 DEF Failed, Ended
<1>2. /\ DOMAIN queue'[d] = QueueFields /\ queue'[d].todo = queue[d].todo
      /\ queue'[d].up = 0 /\ queue'[d].offset = 0
      /\ \/ queue'[d].pc = "next" /\ queue'[d].doc = {}
         \/ queue'[d].pc = "single" /\ queue'[d].doc = queue[d].doc
  BY <1>0 DEF Failed, Ended, IdleQueue, QueueFields
<1>3. QueueShape(d)' /\ QueueSends(d)'
  <2>1. queue'[d].todo \in SUBSET Doc /\ queue'[d].doc \in SUBSET Doc
    BY <1>0, <1>2 DEF QueueShape
  <2>2. queue'[d].pc \in {"next", "single"} /\ (queue'[d].pc \in Carrying => queue'[d].doc = queue[d].doc)
    BY <1>2 DEF Carrying, Sending
  <2>3. queue'[d].pc \in Carrying => \E f \in Doc : queue'[d].doc = {f}
    BY <1>0, <2>2 DEF QueueShape
  <2> QED BY <1>2, <2>1, <2>2, <2>3, QueueRests
<1> QED BY <1>1, <1>2, <1>3

-----------------------------------------------------------------------------
(* The uploads *)

\* One upload changes: it keeps its file and its chunks, and is still right.
LEMMA UploadChanged ==
  ASSUME IntakeInv, NEW u \in DOMAIN uploads, NEW r \in UploadRecord, uploads' = [uploads EXCEPT ![u] = r],
         r.doc = uploads[u].doc, Len(uploads[u].data) <= Len(r.data), uploads[u].complete => r.complete,
         \A n \in DOMAIN r.data : r.data[n] = n, Len(r.data) <= DocIs[r.doc].size,
         r.complete => Len(r.data) = DocIs[r.doc].size
  PROVE  UploadsRight /\ uploads'[u] = r
<1>0. uploads \in Seq(UploadRecord) /\ \A v \in DOMAIN uploads : UploadShape(v) /\ uploads[v] \in UploadRecord
  BY DEF IntakeInv
<1>1. /\ uploads' \in Seq(UploadRecord) /\ DOMAIN uploads' = DOMAIN uploads
      /\ uploads'[u] = r /\ \A v \in DOMAIN uploads \ {u} : uploads'[v] = uploads[v]
  BY <1>0
<1>2. \A v \in DOMAIN uploads : Len(uploads[v].data) \in Nat
  BY <1>0 DEF UploadRecord
<1>3. UploadsGrow
  BY <1>1, <1>2 DEF UploadsGrow
<1>4. \A v \in DOMAIN uploads' : UploadShape(v)'
  BY <1>0, <1>1 DEF UploadShape
<1> QED BY <1>1, <1>3, <1>4 DEF UploadsRight

\* The server begins an upload.
LEMMA UploadBegun ==
  ASSUME IntakeInv, NEW f \in Doc,
         uploads' = Append(uploads, [doc |-> f, data |-> <<>>, complete |-> FALSE, gone |-> FALSE])
  PROVE  UploadsRight /\ Len(uploads) + 1 \in DOMAIN uploads' /\ uploads'[Len(uploads) + 1].doc = f
<1> DEFINE r == [doc |-> f, data |-> <<>>, complete |-> FALSE, gone |-> FALSE]
<1>0. uploads \in Seq(UploadRecord) /\ \A v \in DOMAIN uploads : UploadShape(v) /\ uploads[v] \in UploadRecord
  BY DEF IntakeInv
<1>1. /\ r \in UploadRecord /\ r.doc = f /\ r.data = <<>> /\ ~r.complete
  BY DEF UploadRecord
<1>2. DocIs[f].size \in Nat
  BY IntakeAssumption
<1> HIDE DEF r
<1>3. uploads' = Append(uploads, r)
  BY DEF r
<1>4. /\ uploads' \in Seq(UploadRecord) /\ DOMAIN uploads' = DOMAIN uploads \cup {Len(uploads) + 1}
      /\ uploads'[Len(uploads) + 1] = r /\ \A v \in DOMAIN uploads : uploads'[v] = uploads[v]
  BY <1>0, <1>1, <1>3
<1>5. \A v \in DOMAIN uploads : Len(uploads[v].data) \in Nat
  BY <1>0 DEF UploadRecord
<1>6. UploadsGrow
  BY <1>4, <1>5 DEF UploadsGrow
<1>7. \A v \in DOMAIN uploads : UploadShape(v)'
  BY <1>0, <1>4 DEF UploadShape
<1>8. Len(r.data) = 0 /\ DOMAIN r.data = {}
  BY <1>1
<1>9. ASSUME NEW v \in DOMAIN uploads', v \notin DOMAIN uploads PROVE UploadShape(v)'
  BY <1>1, <1>2, <1>4, <1>8, <1>9 DEF UploadShape
<1> QED BY <1>1, <1>4, <1>6, <1>7, <1>9 DEF UploadsRight

\* The queue that carries a file: the file is in Doc, and what it sends to is an upload of it.
LEMMA Carried ==
  ASSUME IntakeInv, NEW d \in Drop, queue[d].pc \in Carrying
  PROVE  /\ DocOf(d) \in Doc /\ queue[d].doc = {DocOf(d)} /\ DocIs[DocOf(d)].size \in Nat
         /\ queue[d].pc \in Sending =>
              /\ queue[d].up \in DOMAIN uploads /\ queue[d].up # 0 /\ uploads[queue[d].up] \in UploadRecord
              /\ uploads[queue[d].up].doc = DocOf(d) /\ Len(uploads[queue[d].up].data) \in Nat
<1>0. QueueShape(d) /\ QueueSends(d) /\ uploads \in Seq(UploadRecord)
  BY DEF IntakeInv
<1>1. PICK f \in Doc : queue[d].doc = {f}
  BY <1>0 DEF QueueShape
<1>2. DocOf(d) = f
  BY <1>1, DocIsIts
<1>3. DocIs[f].size \in Nat
  BY IntakeAssumption
<1>4. ASSUME queue[d].pc \in Sending
      PROVE  /\ queue[d].up \in DOMAIN uploads /\ queue[d].up # 0 /\ uploads[queue[d].up] \in UploadRecord
             /\ uploads[queue[d].up].doc = f /\ Len(uploads[queue[d].up].data) \in Nat
  <2>1. queue[d].up # 0 /\ queue[d].up \in DOMAIN uploads /\ {f} = {uploads[queue[d].up].doc}
    BY <1>0, <1>1, <1>4 DEF QueueShape, QueueSends
  <2>2. uploads[queue[d].up] \in UploadRecord
    BY <1>0, <2>1
  <2>3. Len(uploads[queue[d].up].data) \in Nat
    BY <2>2 DEF UploadRecord
  <2> QED BY <2>1, <2>2, <2>3
<1> QED BY <1>1, <1>2, <1>3, <1>4

\* A queue resumes the upload its resume record names, or starts one.
LEMMA QueueFinds ==
  ASSUME IntakeInv, NEW d \in Drop, findResumable(d)
  PROVE  IntakeInv'
<1>0. /\ DOMAIN queue = Drop /\ QueueShape(d) /\ queue[d].pc = "find"
  BY DEF IntakeInv, findResumable
<1>1. DocOf(d) \in Doc /\ queue[d].doc = {DocOf(d)}
  BY <1>0, Carried DEF Carrying
<1>2. /\ DOMAIN queue' = Drop /\ \A e \in Drop \ {d} : queue'[e] = queue[e]
      /\ QueueOnly /\ UNCHANGED <<resume, uploads, unread>>
  BY <1>0 DEF findResumable, QueueTo
<1>3. CASE Resumable(DocOf(d)) /\ queue' = [queue EXCEPT ![d].up = resume[DocOf(d)],
                                   ![d].offset = Received(resume[DocOf(d)]), ![d].pc = "put"]
  <2> DEFINE u == resume[DocOf(d)]
  <2>1. u # 0 /\ u \in Nat /\ u \in DOMAIN uploads /\ uploads[u].doc = DocOf(d)
    BY <1>1, <1>3 DEF IntakeInv, Resumes, Resumable
  <2>2. uploads[u] \in UploadRecord
    BY <2>1 DEF IntakeInv
  <2>3. Len(uploads[u].data) \in Nat
    BY <2>2 DEF UploadRecord
  <2>4. /\ DOMAIN queue'[d] = QueueFields /\ queue'[d].pc = "put" /\ queue'[d].todo = queue[d].todo
        /\ queue'[d].doc = queue[d].doc /\ queue'[d].up = u /\ queue'[d].offset = Len(uploads[u].data)
    BY <1>0, <1>3 DEF QueueShape, QueueFields, Received
  <2> HIDE DEF u
  <2>5. QueueShape(d)'
    BY <1>0, <1>1, <2>1, <2>3, <2>4 DEF QueueShape, Sending
  <2>6. QueueSends(d)'
    BY <1>1, <1>2, <2>1, <2>3, <2>4 DEF QueueSends
  <2> QED BY <1>2, <2>4, <2>5, <2>6, QueueMoves, UploadsSame, ResumesSame
<1>4. CASE QueueTo(d, "init")
  <2>1. /\ DOMAIN queue'[d] = QueueFields /\ queue'[d].pc = "init" /\ queue'[d].todo = queue[d].todo
        /\ queue'[d].doc = queue[d].doc /\ queue'[d].up = queue[d].up /\ queue'[d].offset = queue[d].offset
    BY <1>0, <1>4 DEF QueueTo, QueueShape, QueueFields
  <2>2. queue[d].up = 0
    BY <1>0 DEF QueueShape, Sending
  <2>3. QueueShape(d)' /\ QueueSends(d)'
    BY <1>0, <1>1, <2>1, <2>2 DEF QueueShape, QueueSends, Sending
  <2> QED BY <1>2, <2>1, <2>3, QueueMoves, UploadsSame, ResumesSame
<1> QED BY <1>3, <1>4 DEF findResumable

\* A queue that has an upload on the server, after a step of its own.
LEMMA QueueUploads ==
  ASSUME NEW d \in Drop, DOMAIN queue'[d] = QueueFields, queue'[d].pc \in Sending,
         queue'[d].todo \in SUBSET Doc, NEW f \in Doc, queue'[d].doc = {f},
         NEW u \in Nat \ {0}, queue'[d].up = u, u \in DOMAIN uploads', uploads'[u].doc = f,
         queue'[d].offset \in Nat, queue'[d].offset <= Len(uploads'[u].data),
         queue'[d].pc = "post" => uploads'[u].complete
  PROVE  QueueShape(d)' /\ QueueSends(d)'
BY DEF QueueShape, QueueSends

\* The resume record of a file is set to an upload of it, or forgotten.
LEMMA ResumeSet ==
  ASSUME IntakeInv, UploadsRight, NEW f \in Doc, NEW u \in Nat, resume' = [resume EXCEPT ![f] = u],
         u # 0 => u \in DOMAIN uploads' /\ uploads'[u].doc = f
  PROVE  DOMAIN resume' = Doc /\ \A g \in Doc : Resumes(g)'
BY DEF IntakeInv, Resumes, UploadsRight, UploadsGrow

\* A queue starts an upload; when the answer is lost it falls back.
LEMMA QueueBegins ==
  ASSUME IntakeInv, NEW d \in Drop, InitUpload(d)
  PROVE  IntakeInv'
<1> DEFINE u == Len(uploads) + 1
<1>0. /\ DOMAIN queue = Drop /\ QueueShape(d) /\ queue[d].pc = "init" /\ uploads \in Seq(UploadRecord)
  BY DEF IntakeInv, InitUpload
<1>1. DocOf(d) \in Doc /\ queue[d].doc = {DocOf(d)}
  BY <1>0, Carried DEF Carrying
<1>2. /\ uploads' = Append(uploads, [doc |-> DocOf(d), data |-> <<>>, complete |-> FALSE, gone |-> FALSE])
      /\ QueueOnly /\ Leaves(d)
      /\ \/ /\ queue' = [queue EXCEPT ![d].up = u, ![d].offset = 0, ![d].pc = "put"]
            /\ resume' = [resume EXCEPT ![DocOf(d)] = u]
         \/ Failed(d) /\ UNCHANGED resume
  BY DEF InitUpload
<1>3. u \in Nat \ {0}
  BY <1>0
<1>4. UploadsRight /\ u \in DOMAIN uploads' /\ uploads'[u].doc = DocOf(d)
  BY <1>1, <1>2, UploadBegun
<1> HIDE DEF u
<1>5. CASE /\ queue' = [queue EXCEPT ![d].up = u, ![d].offset = 0, ![d].pc = "put"]
           /\ resume' = [resume EXCEPT ![DocOf(d)] = u]
  <2>1. /\ DOMAIN queue'[d] = QueueFields /\ queue'[d].pc = "put" /\ queue'[d].todo = queue[d].todo
        /\ queue'[d].doc = queue[d].doc /\ queue'[d].up = u /\ queue'[d].offset = 0
        /\ DOMAIN queue' = Drop /\ \A e \in Drop \ {d} : queue'[e] = queue[e]
    BY <1>0, <1>5 DEF QueueShape, QueueFields
  <2>2. DOMAIN resume' = Doc /\ \A f \in Doc : Resumes(f)'
    BY <1>1, <1>3, <1>4, <1>5, ResumeSet
  <2>3. uploads'[u] \in UploadRecord
    BY <1>4 DEF UploadsRight
  <2>4. Len(uploads'[u].data) \in Nat
    BY <2>3 DEF UploadRecord
  <2>5. queue[d].todo \in SUBSET Doc
    BY <1>0 DEF QueueShape
  <2>6. QueueShape(d)' /\ QueueSends(d)'
    BY <1>1, <1>3, <1>4, <2>1, <2>4, <2>5, QueueUploads DEF Sending
  <2> QED BY <1>2, <1>4, <2>1, <2>2, <2>6, QueueMoves
<1>6. CASE Failed(d) /\ UNCHANGED resume
  <2>1. queue[d].pc \in Carrying
    BY <1>0 DEF Carrying
  <2>2. /\ DOMAIN queue' = Drop /\ \A e \in Drop \ {d} : queue'[e] = queue[e]
        /\ queue'[d].todo = queue[d].todo /\ queue'[d].doc \subseteq queue[d].doc
        /\ QueueShape(d)' /\ QueueSends(d)'
    BY <1>6, <2>1, FailedRests
  <2>3. DOMAIN resume' = Doc /\ \A f \in Doc : Resumes(f)'
    BY <1>4, <1>6, ResumesSame
  <2> QED BY <1>2, <1>4, <2>2, <2>3, QueueMoves
<1> QED BY <1>2, <1>5, <1>6

\* A chunk: the server takes it at the offset it is at, and at no other.
LEMMA ChunkStored ==
  ASSUME IntakeInv, NEW d \in Drop, queue[d].pc = "put", queue[d].offset < DocIs[DocOf(d)].size,
         uploads' = Stored(d)
  PROVE  UploadsRight
<1> DEFINE u == queue[d].up
<1>0. /\ u \in DOMAIN uploads /\ uploads[u] \in UploadRecord /\ uploads[u].doc = DocOf(d)
      /\ Len(uploads[u].data) \in Nat /\ DocIs[DocOf(d)].size \in Nat
  BY Carried DEF Carrying, Sending
<1>1. UploadShape(u) /\ queue[d].offset \in Nat
  BY <1>0 DEF IntakeInv, QueueShape
<1>2. CASE ~Accepts(d)
  BY <1>2, UploadsSame DEF Stored
<1>3. CASE Accepts(d)
  <2> DEFINE r == [uploads[u] EXCEPT !.data = Append(@, queue[d].offset + 1)]
  <2>1. Len(uploads[u].data) = queue[d].offset /\ ~uploads[u].complete
    BY <1>3 DEF Accepts, Open, Upload, Received
  <2>2. uploads' = [uploads EXCEPT ![u] = r]
    BY <1>3 DEF Stored
  <2>3. uploads[u].data \in Seq(Nat)
    BY <1>0 DEF UploadRecord
  <2>4. Append(uploads[u].data, queue[d].offset + 1) \in Seq(Nat)
    BY <1>1, <2>3
  <2>5. r \in UploadRecord /\ r.doc = uploads[u].doc /\ r.complete = uploads[u].complete
    BY <1>0, <2>4 DEF UploadRecord
  <2>6. r.data = Append(uploads[u].data, Len(uploads[u].data) + 1)
    BY <1>0, <2>1 DEF UploadRecord
  <2> HIDE DEF r
  <2>7. /\ Len(r.data) = Len(uploads[u].data) + 1
        /\ \A n \in DOMAIN r.data : r.data[n] = n
    <3> DEFINE s == uploads[u].data
    <3>1. \A n \in DOMAIN s : s[n] = n
      BY <1>1 DEF UploadShape
    <3>2. s \in Seq(Nat) /\ r.data = Append(s, Len(s) + 1)
      BY <2>3, <2>6
    <3> HIDE DEF s
    <3>3. Len(r.data) = Len(s) + 1 /\ \A n \in DOMAIN r.data : r.data[n] = n
      BY <3>1, <3>2
    <3> QED BY <3>3 DEF s
  <2>8. Len(r.data) <= DocIs[r.doc].size
    BY <1>0, <1>1, <2>1, <2>5, <2>7
  <2>9. ~r.complete /\ Len(uploads[u].data) <= Len(r.data)
    BY <1>0, <2>1, <2>5, <2>7
  <2> HIDE DEF u
  <2> QED BY <1>0, <2>1, <2>2, <2>5, <2>7, <2>8, <2>9, UploadChanged
<1> QED BY <1>2, <1>3

\* A queue sends a chunk, and goes on from the offset it is answered.
LEMMA QueuePuts ==
  ASSUME IntakeInv, NEW d \in Drop, putChunk(d)
  PROVE  IntakeInv'
<1> DEFINE u == queue[d].up
<1>0. /\ DOMAIN queue = Drop /\ QueueShape(d) /\ QueueSends(d) /\ queue[d].pc = "put"
      /\ queue[d].pc \in Carrying /\ queue[d].pc \in Sending
  BY DEF IntakeInv, putChunk, Carrying, Sending
<1>1. /\ DocOf(d) \in Doc /\ queue[d].doc = {DocOf(d)} /\ u \in DOMAIN uploads /\ u # 0
      /\ uploads[u].doc = DocOf(d)
  BY <1>0, Carried
<1>2. UploadsRight /\ QueueOnly /\ Leaves(d)
  BY ChunkStored DEF putChunk
<1>3. u \in Nat /\ u \in DOMAIN uploads' /\ uploads'[u].doc = DocOf(d)
  BY <1>0, <1>1, <1>2 DEF QueueShape, UploadsRight, UploadsGrow
<1>4. Len(uploads'[u].data) \in Nat /\ queue[d].offset <= Len(uploads'[u].data) /\ queue[d].todo \in SUBSET Doc
  <2>1. uploads'[u] \in UploadRecord /\ uploads[u] \in UploadRecord
    BY <1>1, <1>2, <1>3 DEF UploadsRight, IntakeInv
  <2>2. Len(uploads'[u].data) \in Nat /\ Len(uploads[u].data) \in Nat
    BY <2>1 DEF UploadRecord
  <2>3. queue[d].offset <= Len(uploads[u].data) /\ queue[d].offset \in Nat
    BY <1>0, <1>1 DEF QueueSends, QueueShape
  <2>4. Len(uploads[u].data) <= Len(uploads'[u].data)
    BY <1>1, <1>2 DEF UploadsRight, UploadsGrow
  <2> QED BY <1>0, <2>2, <2>3, <2>4 DEF QueueShape
<1>5. CASE Continue(d)
  <2>1. /\ DOMAIN queue'[d] = QueueFields /\ queue'[d].pc = "put" /\ queue'[d].todo = queue[d].todo
        /\ queue'[d].doc = queue[d].doc /\ queue'[d].up = u /\ queue'[d].offset = Len(uploads'[u].data)
        /\ DOMAIN queue' = Drop /\ \A e \in Drop \ {d} : queue'[e] = queue[e]
    BY <1>0, <1>5 DEF Continue, QueueShape, QueueFields
  <2>2. resume' = [resume EXCEPT ![DocOf(d)] = u]
    BY <1>5 DEF Continue
  <2> HIDE DEF u
  <2>3. DOMAIN resume' = Doc /\ \A f \in Doc : Resumes(f)'
    <3> DEFINE f == DocOf(d)
    <3>1. f \in Doc /\ resume' = [resume EXCEPT ![f] = u] /\ uploads'[u].doc = f
      BY <1>1, <1>3, <2>2
    <3> HIDE DEF f
    <3> QED BY <1>2, <1>3, <3>1, ResumeSet
  <2>4. QueueShape(d)' /\ QueueSends(d)'
    BY <1>1, <1>3, <1>4, <2>1, QueueUploads DEF Sending
  <2> QED BY <1>2, <2>1, <2>3, <2>4, QueueMoves
<1>6. CASE Failed(d) /\ UNCHANGED resume
  <2>1. /\ DOMAIN queue' = Drop /\ \A e \in Drop \ {d} : queue'[e] = queue[e]
        /\ queue'[d].todo = queue[d].todo /\ queue'[d].doc \subseteq queue[d].doc
        /\ QueueShape(d)' /\ QueueSends(d)'
    BY <1>0, <1>6, FailedRests
  <2>2. DOMAIN resume' = Doc /\ \A f \in Doc : Resumes(f)'
    BY <1>2, <1>6, ResumesSame
  <2> QED BY <1>2, <2>1, <2>2, QueueMoves
<1>7. CASE queue' = [queue EXCEPT ![d].tries = @ + 1] /\ UNCHANGED resume
  <2>1. /\ DOMAIN queue'[d] = QueueFields /\ queue'[d].pc = "put" /\ queue'[d].todo = queue[d].todo
        /\ queue'[d].doc = queue[d].doc /\ queue'[d].up = u /\ queue'[d].offset = queue[d].offset
        /\ DOMAIN queue' = Drop /\ \A e \in Drop \ {d} : queue'[e] = queue[e]
    BY <1>0, <1>7 DEF QueueShape, QueueFields
  <2>2. DOMAIN resume' = Doc /\ \A f \in Doc : Resumes(f)'
    BY <1>2, <1>7, ResumesSame
  <2>3. queue[d].offset \in Nat
    BY <1>0 DEF QueueShape
  <2> HIDE DEF u
  <2>4. QueueShape(d)' /\ QueueSends(d)'
    BY <1>1, <1>3, <1>4, <2>1, <2>3, QueueUploads DEF Sending
  <2> QED BY <1>2, <2>1, <2>2, <2>4, QueueMoves
<1> QED BY <1>5, <1>6, <1>7 DEF putChunk

\* The record of an upload changes in nothing but that it is complete, or gone.
LEMMA UploadMarked ==
  ASSUME IntakeInv, NEW u \in DOMAIN uploads,
         \/ /\ uploads' = [uploads EXCEPT ![u].complete = TRUE]
            /\ Len(uploads[u].data) = DocIs[uploads[u].doc].size
         \/ uploads' = [uploads EXCEPT ![u].gone = TRUE]
  PROVE  /\ UploadsRight
         /\ uploads' = [uploads EXCEPT ![u].complete = TRUE] => uploads'[u].complete
<1>0. uploads[u] \in UploadRecord /\ UploadShape(u) /\ uploads \in Seq(UploadRecord)
  BY DEF IntakeInv
<1>1. Len(uploads[u].data) \in Nat
  BY <1>0 DEF UploadRecord
<1>2. CASE /\ uploads' = [uploads EXCEPT ![u].complete = TRUE]
           /\ Len(uploads[u].data) = DocIs[uploads[u].doc].size
  <2> DEFINE r == [uploads[u] EXCEPT !.complete = TRUE]
  <2>1. r \in UploadRecord /\ r.doc = uploads[u].doc /\ r.data = uploads[u].data /\ r.complete
    BY <1>0 DEF UploadRecord
  <2>2. uploads' = [uploads EXCEPT ![u] = r]
    BY <1>2
  <2> HIDE DEF r
  <2>3. /\ \A n \in DOMAIN r.data : r.data[n] = n
        /\ Len(uploads[u].data) <= Len(r.data) /\ Len(r.data) = DocIs[r.doc].size
        /\ Len(r.data) <= DocIs[r.doc].size
    BY <1>0, <1>1, <1>2, <2>1 DEF UploadShape
  <2>4. UploadsRight /\ uploads'[u] = r
    BY <2>1, <2>2, <2>3, UploadChanged
  <2> QED BY <2>1, <2>4
<1>3. CASE uploads' = [uploads EXCEPT ![u].gone = TRUE]
  <2> DEFINE r == [uploads[u] EXCEPT !.gone = TRUE]
  <2>1. /\ r \in UploadRecord /\ r.doc = uploads[u].doc /\ r.data = uploads[u].data
        /\ r.complete = uploads[u].complete
    BY <1>0 DEF UploadRecord
  <2>2. uploads' = [uploads EXCEPT ![u] = r]
    BY <1>3
  <2> HIDE DEF r
  <2>3. /\ \A n \in DOMAIN r.data : r.data[n] = n
        /\ Len(uploads[u].data) <= Len(r.data) /\ Len(r.data) <= DocIs[r.doc].size
        /\ r.complete => Len(r.data) = DocIs[r.doc].size
    BY <1>0, <1>1, <2>1 DEF UploadShape
  <2>4. UploadsRight /\ uploads'[u] = r
    BY <2>1, <2>2, <2>3, UploadChanged
  <2>5. uploads' = [uploads EXCEPT ![u].complete = TRUE] => uploads'[u].complete
    BY <1>0 DEF UploadRecord
  <2> QED BY <2>4, <2>5
<1> QED BY <1>2, <1>3

\* A queue completes its upload and posts it for ingestion.
LEMMA QueueEnds ==
  ASSUME IntakeInv, NEW d \in Drop, CompleteUpload(d) \/ PostIngest(d)
  PROVE  IntakeInv'
<1> DEFINE u == queue[d].up
<1>0. /\ DOMAIN queue = Drop /\ QueueShape(d) /\ QueueSends(d)
      /\ queue[d].pc \in Carrying /\ queue[d].pc \in Sending
  BY DEF IntakeInv, CompleteUpload, PostIngest, Carrying, Sending
<1>1. /\ DocOf(d) \in Doc /\ queue[d].doc = {DocOf(d)} /\ u \in DOMAIN uploads /\ u # 0
      /\ uploads[u].doc = DocOf(d) /\ Len(uploads[u].data) \in Nat
  BY <1>0, Carried
<1>2. CASE CompleteUpload(d)
  <2> DEFINE whole == ~Upload(d).gone /\ Received(queue[d].up) = DocIs[Upload(d).doc].size
  <2>1. /\ QueueOnly /\ UNCHANGED unread
        /\ uploads' = IF whole THEN [uploads EXCEPT ![u].complete = TRUE] ELSE uploads
        /\ \/ whole /\ QueueTo(d, "post") /\ resume' = [resume EXCEPT ![DocOf(d)] = 0]
           \/ Failed(d) /\ UNCHANGED resume
    BY <1>2 DEF CompleteUpload
  <2>2. whole => Len(uploads[u].data) = DocIs[uploads[u].doc].size
    BY DEF Upload, Received
  <2> HIDE DEF whole
  <2>3. UploadsRight /\ (whole => uploads'[u].complete)
    BY <1>1, <2>1, <2>2, UploadMarked, UploadsSame
  <2>4. u \in Nat /\ u \in DOMAIN uploads' /\ uploads'[u].doc = DocOf(d)
    BY <1>0, <1>1, <2>3 DEF QueueShape, UploadsRight, UploadsGrow
  <2>5. CASE whole /\ QueueTo(d, "post") /\ resume' = [resume EXCEPT ![DocOf(d)] = 0]
    <3>1. /\ DOMAIN queue'[d] = QueueFields /\ queue'[d].pc = "post" /\ queue'[d].todo = queue[d].todo
          /\ queue'[d].doc = queue[d].doc /\ queue'[d].up = u /\ queue'[d].offset = queue[d].offset
          /\ DOMAIN queue' = Drop /\ \A e \in Drop \ {d} : queue'[e] = queue[e]
      BY <1>0, <2>5 DEF QueueTo, QueueShape, QueueFields
    <3>2. DOMAIN resume' = Doc /\ \A f \in Doc : Resumes(f)'
      BY <1>1, <2>3, <2>5, ResumeSet
    <3>3. queue[d].offset \in Nat /\ queue[d].offset <= Len(uploads[u].data) /\ queue[d].todo \in SUBSET Doc
      BY <1>0, <1>1 DEF QueueShape, QueueSends
    <3>4. uploads'[u] \in UploadRecord
      BY <2>3, <2>4 DEF UploadsRight
    <3>5. Len(uploads'[u].data) \in Nat /\ Len(uploads[u].data) <= Len(uploads'[u].data)
      BY <1>1, <2>3, <3>4 DEF UploadsRight, UploadsGrow, UploadRecord
    <3>6. queue[d].offset <= Len(uploads'[u].data)
      <4>1. \A a, b, c \in Nat : a <= b /\ b <= c => a <= c
        OBVIOUS
      <4> QED BY <1>1, <3>3, <3>5, <4>1, Zenon
    <3> HIDE DEF u
    <3>7. QueueShape(d)' /\ QueueSends(d)'
      BY <1>1, <2>3, <2>4, <2>5, <3>1, <3>3, <3>6, QueueUploads DEF Sending
    <3> QED BY <2>1, <2>3, <3>1, <3>2, <3>7, QueueMoves
  <2>6. CASE Failed(d) /\ UNCHANGED resume
    <3>1. /\ DOMAIN queue' = Drop /\ \A e \in Drop \ {d} : queue'[e] = queue[e]
          /\ queue'[d].todo = queue[d].todo /\ queue'[d].doc \subseteq queue[d].doc
          /\ QueueShape(d)' /\ QueueSends(d)'
      BY <1>0, <2>6, FailedRests
    <3>2. DOMAIN resume' = Doc /\ \A f \in Doc : Resumes(f)'
      BY <2>3, <2>6, ResumesSame
    <3> QED BY <2>1, <2>3, <3>1, <3>2, QueueMoves
  <2> QED BY <2>1, <2>5, <2>6
<1>3. CASE PostIngest(d)
  <2>1. /\ QueueOnly /\ UNCHANGED <<resume, unread>> /\ Ended(d)
        /\ uploads' = [uploads EXCEPT ![u].gone = TRUE]
    BY <1>3 DEF PostIngest
  <2>2. UploadsRight
    BY <1>1, <2>1, UploadMarked
  <2>3. /\ DOMAIN queue'[d] = QueueFields /\ queue'[d].pc = "next" /\ queue'[d].todo = queue[d].todo
        /\ queue'[d].doc = {} /\ queue'[d].up = 0 /\ queue'[d].offset = 0
        /\ DOMAIN queue' = Drop /\ \A e \in Drop \ {d} : queue'[e] = queue[e]
    BY <1>0, <2>1 DEF Ended, IdleQueue, QueueFields
  <2>4. queue[d].todo \in SUBSET Doc
    BY <1>0 DEF QueueShape
  <2>5. QueueShape(d)' /\ QueueSends(d)'
    BY <2>3, <2>4, QueueRests DEF Carrying, Sending
  <2>6. DOMAIN resume' = Doc /\ \A f \in Doc : Resumes(f)'
    BY <2>1, <2>2, ResumesSame
  <2> QED BY <2>1, <2>2, <2>3, <2>5, <2>6, QueueMoves
<1> QED BY <1>2, <1>3

\* The server loses an upload, or the tab is reloaded.
LEMMA Accidents ==
  ASSUME IntakeInv, LoseUpload \/ Reload
  PROVE  IntakeInv'
<1>0. Notices /\ Questions /\ DOMAIN queue = Drop
  BY DEF IntakeInv
<1>1. CASE LoseUpload
  <2>1. /\ \E u \in DOMAIN uploads : uploads' = [uploads EXCEPT ![u].gone = TRUE]
        /\ UNCHANGED <<notice, noted, polls, parseHere, pending, queue, resume, unread>>
    BY <1>1 DEF LoseUpload, QueueOnly
  <2>2. UploadsRight
    BY <2>1, UploadMarked
  <2>3. \A d \in Drop : QueueShape(d)' /\ QueueSends(d)'
    BY <2>1, <2>2, QueueSame
  <2>4. DOMAIN resume' = Doc /\ \A f \in Doc : Resumes(f)'
    BY <2>1, <2>2, ResumesSame
  <2>5. Notices' /\ Questions'
    BY <1>0, <2>1 DEF Notices, Questions, Unread, Stays
  <2> QED BY <1>0, <2>1, <2>2, <2>3, <2>4, <2>5 DEF IntakeInv, UploadsRight
<1>2. CASE Reload
  <2>1. /\ notice' = "unknown" /\ polls' = {} /\ pending' = <<>>
        /\ DOMAIN queue' = Drop /\ UNCHANGED <<noted, parseHere, resume, uploads, unread>>
    BY <1>2 DEF Reload
  <2>2. ASSUME NEW d \in Drop
        PROVE  /\ DOMAIN queue'[d] = QueueFields /\ queue'[d].pc \in {"new", "over"} /\ queue'[d].todo = {}
               /\ queue'[d].doc = {} /\ queue'[d].up = 0 /\ queue'[d].offset = 0
    <3>1. queue'[d] = IdleQueue \/ queue'[d] = [IdleQueue EXCEPT !.pc = "over"]
      BY <1>2 DEF Reload
    <3> QED BY <3>1 DEF IdleQueue, QueueFields
  <2>3. \A d \in Drop : QueueShape(d)' /\ QueueSends(d)'
    BY <2>2, QueueRests DEF Carrying, Sending
  <2>4. UploadsRight /\ DOMAIN resume' = Doc /\ \A f \in Doc : Resumes(f)'
    BY <2>1, UploadsSame, ResumesSame
  <2>5. Notices' /\ Questions'
    BY <1>0, <2>1, <2>2 DEF Notices, Questions, Unread, Stays
  <2> QED BY <2>1, <2>3, <2>4, <2>5 DEF IntakeInv, UploadsRight
<1> QED BY <1>1, <1>2

-----------------------------------------------------------------------------
(* Every step keeps the invariant *)

\* The invariant holds at the start.
LEMMA IntakeInvInit == IntakeInit => IntakeInv
<1> SUFFICES ASSUME IntakeInit PROVE IntakeInv
  OBVIOUS
<1>1. Notices /\ Questions
  BY DEF IntakeInit, IdleQueue, Notices, Questions, Unread, Stays
<1>2. ASSUME NEW d \in Drop PROVE QueueShape(d) /\ QueueSends(d)
  <2>1. queue[d] = IdleQueue
    BY DEF IntakeInit
  <2> QED BY <2>1 DEF IdleQueue, QueueShape, QueueSends, QueueFields, Carrying, Sending
<1>3. DOMAIN queue = Drop /\ DOMAIN resume = Doc /\ uploads \in Seq(UploadRecord) /\ DOMAIN uploads = {}
  BY DEF IntakeInit
<1>4. \A f \in Doc : Resumes(f)
  BY DEF IntakeInit, Resumes
<1> QED BY <1>1, <1>2, <1>3, <1>4 DEF IntakeInv

\* A step that changes no variable keeps the invariant.
LEMMA IntakeStutters == ASSUME IntakeInv, UNCHANGED intakeVars PROVE IntakeInv'
<1>1. UNCHANGED <<notice, noted, polls, parseHere, pending, queue, resume, uploads, unread>>
  BY DEF intakeVars
<1>2. Notices' /\ Questions'
  BY <1>1 DEF IntakeInv, Notices, Questions, Unread, Stays
<1> QED BY <1>1, <1>2, QuietStep

\* Every step keeps the invariant.
LEMMA IntakeInvStep == IntakeInv /\ [IntakeNext]_intakeVars => IntakeInv'
<1> SUFFICES ASSUME IntakeInv, [IntakeNext]_intakeVars PROVE IntakeInv'
  OBVIOUS
<1>1. CASE (\E mode \in {"none", Mode} : Poll(mode)) \/ ReadNotice \/ Cancel
  BY <1>1, NoticeSteps
<1>2. CASE LoseUpload \/ Reload
  BY <1>2, Accidents
<1>3. ASSUME NEW d \in Drop, DropDocs(d) \/ acknowledgeNotice(d) \/ \E convert \in BOOLEAN : proceedPending(d, convert)
      PROVE  IntakeInv'
  BY <1>3, Questioned
<1>4. ASSUME NEW d \in Drop, QueueStep(d) PROVE IntakeInv'
  BY <1>4, QueueTakes, QueueFinds, QueueBegins, QueuePuts, QueueEnds DEF QueueStep
<1>5. CASE UNCHANGED intakeVars
  BY <1>5, IntakeStutters
<1> QED BY <1>1, <1>2, <1>3, <1>4, <1>5 DEF IntakeNext

-----------------------------------------------------------------------------
(* The theorems *)

\* Every state of every run of the intake satisfies the inductive invariant.
THEOREM IntakeInvariant == IntakeSpec => []IntakeInv
<1>1. IntakeInit => IntakeInv
  BY IntakeInvInit
<1>2. IntakeInv /\ [IntakeNext]_intakeVars => IntakeInv'
  BY IntakeInvStep
<1> QED BY <1>1, <1>2, PTL DEF IntakeSpec

\* requestIngest: no part of a file leaves for another machine before the analyst read where it goes,
\* but for a file named .evtx in a case that parses those in the page.
THEOREM NoticesAreRespected == IntakeSpec => []NoticeRespected
<1>1. IntakeInv => NoticeRespected
  BY DEF IntakeInv, Notices, Stays, NoticeRespected
<1> QED BY <1>1, IntakeInvariant, PTL

\* upload.ts: no queue believes the server has more than it has, and what it posts for ingestion holds
\* each chunk of the file once, in order, whatever answers were lost and whoever else sent chunks.
THEOREM UploadsAreWhole == IntakeSpec => []UploadWhole
<1>1. ASSUME IntakeInv PROVE UploadWhole
  <2> SUFFICES ASSUME NEW d \in Drop, queue[d].up # 0
               PROVE  /\ queue[d].offset <= Received(queue[d].up)
                      /\ queue[d].pc = "post" => Upload(d).data = [n \in 1..DocIs[DocOf(d)].size |-> n]
    BY DEF UploadWhole
  <2> DEFINE u == queue[d].up
  <2>0. QueueShape(d) /\ QueueSends(d)
    BY <1>1 DEF IntakeInv
  <2>1. queue[d].pc \in Carrying /\ queue[d].pc \in Sending
    BY <2>0 DEF QueueShape, Carrying
  <2>2. /\ u \in DOMAIN uploads /\ uploads[u] \in UploadRecord /\ uploads[u].doc = DocOf(d)
    BY <1>1, <2>1, Carried
  <2>3. queue[d].offset <= Received(u)
    BY <2>0 DEF QueueSends, Received
  <2>4. ASSUME queue[d].pc = "post" PROVE Upload(d).data = [n \in 1..DocIs[DocOf(d)].size |-> n]
    <3>1. uploads[u].complete /\ UploadShape(u)
      BY <1>1, <2>0, <2>2, <2>4 DEF QueueSends, IntakeInv
    <3>2. uploads[u].data \in Seq(Nat)
      BY <2>2 DEF UploadRecord
    <3>3. DOMAIN uploads[u].data = 1 .. DocIs[DocOf(d)].size
      BY <2>2, <3>1, <3>2 DEF UploadShape
    <3>4. uploads[u].data = [n \in DOMAIN uploads[u].data |-> uploads[u].data[n]]
      BY <3>2
    <3>5. \A n \in DOMAIN uploads[u].data : uploads[u].data[n] = n
      BY <3>1 DEF UploadShape
    <3>6. uploads[u].data = [n \in 1 .. DocIs[DocOf(d)].size |-> n]
      BY <3>3, <3>4, <3>5
    <3> QED BY <3>6 DEF Upload
  <2> QED BY <2>3, <2>4
<1> QED BY <1>1, IntakeInvariant, PTL

(***************************************************************************)
(* Writing rows, repairs and removals (BrowserImport)                      *)
(***************************************************************************)
(* The inductive invariant *)

ImportFields == {"pc", "tab", "pos", "batch", "counted", "inserted", "duplicates", "error", "seen"}
MenderFields == {"pc", "todo", "it", "stopped", "counted", "seen"}
Status == {"none", "hashing", "uploading", "parsing", "done", "error", "removed"}
Receiving == {"stream", "held", "add"}
Ending == {"heldLast", "addLast", "facets", "facetsPut", "iocs", "iocsPut", "end"}
ImportPc == {"new", "hash", "meta", "posted", "over", "dead"} \cup Receiving \cup Ending

\* The shapes of the variables, as far as the rows and the statuses depend on them.
Tables ==
  /\ evidence \in [Import -> Status]
  /\ count \in [Import -> Nat]
  /\ stored \in [Import -> SUBSET Nat]
  /\ DOMAIN imp = Import
  /\ DOMAIN mend = Mender

ImportShape(i) ==
  /\ DOMAIN imp[i] = ImportFields
  /\ imp[i].pc \in ImportPc /\ imp[i].error \in BOOLEAN
  /\ imp[i].pos \in Nat /\ imp[i].inserted \in Nat /\ imp[i].duplicates \in Nat
  /\ imp[i].batch \in SUBSET Nat

MenderShape(m) ==
  /\ DOMAIN mend[m] = MenderFields
  /\ mend[m].todo \in SUBSET Import /\ mend[m].it \in SUBSET Import

\* A repair or a removal runs in an open tab; what a repair works on was begun and does not run, and
\* what it is about to mark as stopped did not end done.
Repairing(m) ==
  /\ mend[m].pc # "off" => m[1] \in tabs
  /\ mend[m].todo \subseteq {i \in Import : imp[i].pc # "new"}
  /\ mend[m].pc \in {"stop", "mark"} <=> mend[m].it # {}
  /\ \A i \in mend[m].it :
       /\ mend[m].it = {i} /\ ~Running(i) /\ imp[i].pc # "new"
       /\ mend[m].pc = "mark" => evidence[i] # "done"

\* An import that has not ended is not marked done, and one that never began has no evidence.
Begun(i) ==
  /\ imp[i].pc = "new" <=> evidence[i] = "none"
  /\ imp[i].pc = "new" => stored[i] = {} /\ imp[i].inserted = 0
  /\ evidence[i] = "done" => imp[i].pc \in {"posted", "over", "dead"}

\* The rows of an import: those of its batch are not stored yet, both are below its place in the
\* stream, and what it has counted so far is what arrived.
Reading(i) ==
  /\ IsFiniteSet(imp[i].batch) /\ IsFiniteSet(stored[i])
  /\ imp[i].batch \subseteq 1 .. imp[i].pos
  /\ Running(i) /\ imp[i].pc # "posted" => stored[i] \subseteq 1 .. imp[i].pos
  /\ imp[i].batch \cap stored[i] = {}
  /\ imp[i].pc \notin (Receiving \cup {"heldLast", "addLast"}) => imp[i].batch = {}
  /\ imp[i].pc \in Ending /\ ~imp[i].error =>
       imp[i].inserted + imp[i].duplicates + Cardinality(imp[i].batch) = Len(File[i])

\* The rows an import wrote are there until it is removed or stopped.
Keeping(i) ==
  /\ Running(i) /\ imp[i].pc # "posted" /\ evidence[i] # "removed" =>
       Cardinality(stored[i]) = imp[i].inserted
  /\ imp[i].pc = "posted" /\ evidence[i] # "removed" => Cardinality(stored[i]) = count[i]
  /\ evidence[i] = "done" =>
       /\ Cardinality(stored[i]) = count[i]
       /\ count[i] + imp[i].duplicates = Len(File[i])

ImportInv ==
  /\ Tables
  /\ \A i \in Import : ImportShape(i) /\ Begun(i) /\ Reading(i) /\ Keeping(i)
  /\ \A m \in Mender : MenderShape(m) /\ Repairing(m)

-----------------------------------------------------------------------------
(* Frames: what a step leaves alone *)

Same(i) ==
  /\ imp'[i] = imp[i] /\ evidence'[i] = evidence[i] /\ count'[i] = count[i] /\ stored'[i] = stored[i]

\* What a step leaves alone stays as the invariant wants it.
LEMMA SameKeeps ==
  ASSUME NEW i \in Import, Same(i), ImportShape(i), Begun(i), Reading(i), Keeping(i)
  PROVE  ImportShape(i)' /\ Begun(i)' /\ Reading(i)' /\ Keeping(i)'
BY DEF Same, ImportShape, Begun, Reading, Keeping, Running

\* A step of one import changes nothing of the others.
LEMMA WorkerFrame ==
  ASSUME ImportInv, NEW i \in Import, Worker(i) \/ \E t \in Tab : StartImport(i, t)
  PROVE  /\ DOMAIN imp' = Import /\ mend' = mend
         /\ \A k \in Import \ {i} : Same(k)
<1>0. Tables
  BY DEF ImportInv
<1>1. CASE Hashed(i) \/ Meta(i) \/ ReceiveRow(i)
  BY <1>0, <1>1 DEF Tables, Same, Hashed, Meta, ReceiveRow, Goto, WithStatus
<1>2. CASE Held(i) \/ AddRows(i) \/ EndOfStream(i)
  BY <1>0, <1>2 DEF Tables, Same, Held, AddRows, EndOfStream, Goto
<1>3. CASE ReadDerived(i) \/ flushFacets(i) \/ flushIocs(i)
  BY <1>0, <1>3 DEF Tables, Same, ReadDerived, flushFacets, flushIocs
<1>4. CASE FinishImport(i) \/ WorkerEnded(i) \/ \E t \in Tab : StartImport(i, t)
  BY <1>0, <1>4 DEF Tables, Same, FinishImport, WorkerEnded, StartImport, WithStatus
<1> QED BY <1>1, <1>2, <1>3, <1>4 DEF Worker

-----------------------------------------------------------------------------
(* One step of an import *)

\* Counting a set of positions, a part of it, and one more position.
LEMMA Counting ==
  ASSUME NEW S \in SUBSET Nat, IsFiniteSet(S)
  PROVE  /\ Cardinality(S) \in Nat
         /\ \A p \in Nat : IsFiniteSet(S \cup {p})
         /\ \A T \in SUBSET S : /\ IsFiniteSet(T) /\ IsFiniteSet(S \ T)
                              /\ Cardinality(T) \in Nat /\ Cardinality(S \ T) \in Nat
                              /\ Cardinality(T) + Cardinality(S \ T) = Cardinality(S)
         /\ \A T \in SUBSET Nat : IsFiniteSet(T) /\ S \cap T = {} =>
              IsFiniteSet(S \cup T) /\ Cardinality(S \cup T) = Cardinality(S) + Cardinality(T)
<1>1. Cardinality(S) \in Nat
  BY FS_CardinalityType
<1>2. \A p \in Nat : IsFiniteSet(S \cup {p})
  BY FS_AddElement
<1>3. ASSUME NEW T \in SUBSET Nat, IsFiniteSet(T), S \cap T = {}
      PROVE  IsFiniteSet(S \cup T) /\ Cardinality(S \cup T) = Cardinality(S) + Cardinality(T)
  <2>1. /\ IsFiniteSet(S \cup T)
        /\ Cardinality(S \cup T) = Cardinality(S) + Cardinality(T) - Cardinality(S \cap T)
    BY <1>3, FS_Union
  <2>2. Cardinality(S \cap T) = 0
    BY <1>3, FS_EmptySet
  <2>3. Cardinality(T) \in Nat
    BY <1>3, FS_CardinalityType
  <2> QED BY <1>1, <2>1, <2>2, <2>3
<1>4. ASSUME NEW T \in SUBSET S
      PROVE  /\ IsFiniteSet(T) /\ IsFiniteSet(S \ T)
             /\ Cardinality(T) \in Nat /\ Cardinality(S \ T) \in Nat
             /\ Cardinality(T) + Cardinality(S \ T) = Cardinality(S)
  <2>1. IsFiniteSet(T) /\ IsFiniteSet(S \ T)
    BY FS_Subset
  <2>2. T \cup (S \ T) = S /\ T \cap (S \ T) = {}
    OBVIOUS
  <2>3. Cardinality(T \cup (S \ T)) = Cardinality(T) + Cardinality(S \ T) - Cardinality(T \cap (S \ T))
    BY <2>1, FS_Union
  <2>4. Cardinality(T \cap (S \ T)) = 0
    BY <2>2, FS_EmptySet
  <2>5. Cardinality(T) \in Nat /\ Cardinality(S \ T) \in Nat
    BY <2>1, FS_CardinalityType
  <2>6. Cardinality(T \cup (S \ T)) = Cardinality(S)
    BY <2>2
  <2>7. Cardinality(S) = Cardinality(T) + Cardinality(S \ T)
    BY <2>3, <2>4, <2>5, <2>6
  <2> QED BY <2>1, <2>5, <2>7
<1> QED BY <1>1, <1>2, <1>3, <1>4

\* What the start of an import sets.
LEMMA StartFields ==
  ASSUME Tables, NEW i \in Import, ImportShape(i), NEW t \in Tab, StartImport(i, t)
  PROVE  /\ imp[i].pc = "new" /\ imp'[i].pc = "hash" /\ evidence'[i] = "hashing"
         /\ evidence' \in [Import -> Status] /\ UNCHANGED <<count, stored>>
         /\ DOMAIN imp'[i] = ImportFields
         /\ imp'[i].pos = imp[i].pos /\ imp'[i].inserted = imp[i].inserted /\ imp'[i].batch = imp[i].batch
         /\ imp'[i].duplicates = imp[i].duplicates /\ imp'[i].error = imp[i].error
BY DEF StartImport, Tables, ImportShape, ImportFields, Status

\* What an import does to the tables, and to what it keeps itself.
LEMMA WorkerStep ==
  ASSUME ImportInv, NEW i \in Import,
         Worker(i) \/ \E t \in Tab : StartImport(i, t)
  PROVE  /\ Tables' /\ ImportShape(i)' /\ Begun(i)' /\ Reading(i)' /\ Keeping(i)'
<1>0. /\ Tables /\ ImportShape(i) /\ Begun(i) /\ Reading(i) /\ Keeping(i)
  BY DEF ImportInv
<1>a. Len(File[i]) \in Nat
  BY ImportAssumption
<1>b. DOMAIN imp' = Import /\ mend' = mend
  BY WorkerFrame
<1>c. IsFiniteSet({}) /\ Cardinality({}) = 0
  BY FS_EmptySet
<1>d. /\ IsFiniteSet(imp[i].batch) /\ IsFiniteSet(stored[i])
      /\ Cardinality(imp[i].batch) \in Nat /\ Cardinality(stored[i]) \in Nat
  BY <1>0, FS_CardinalityType DEF Reading
<1>1. CASE Hashed(i) \/ Meta(i)
  <2>1. /\ \/ imp[i].pc = "hash" /\ imp'[i].pc = "posted" /\ evidence'[i] = "removed"
           \/ /\ imp[i].pc = "hash" /\ imp'[i].pc = "meta"
              /\ evidence'[i] = IF evidence[i] = "removed" THEN "removed" ELSE "uploading"
           \/ /\ imp[i].pc = "meta" /\ imp'[i].pc = "stream"
              /\ evidence'[i] = IF evidence[i] = "removed" THEN "removed" ELSE "parsing"
        /\ DOMAIN imp'[i] = ImportFields
        /\ imp'[i].pos = imp[i].pos /\ imp'[i].inserted = imp[i].inserted /\ imp'[i].batch = imp[i].batch
        /\ imp'[i].duplicates = imp[i].duplicates /\ imp'[i].error = imp[i].error
    BY <1>0, <1>1 DEF Hashed, Meta, Goto, WithStatus, Tables, ImportShape, ImportFields
  <2>2. evidence' \in [Import -> Status] /\ UNCHANGED <<count, stored>>
    BY <1>0, <1>1 DEF Hashed, Meta, WithStatus, Tables, Status
  <2>3. Tables' /\ ImportShape(i)' /\ Begun(i)'
    BY <1>0, <1>b, <2>1, <2>2 DEF Tables, ImportShape, Begun, ImportPc, Receiving
  <2>4. Reading(i)'
    BY <1>0, <2>1, <2>2 DEF Reading, Running, Receiving, Ending
  <2>5. Keeping(i)'
    BY <1>0, <2>1, <2>2 DEF Keeping, Running
  <2> QED BY <2>3, <2>4, <2>5
<1>2. CASE \E t \in Tab : StartImport(i, t)
  <2>1. /\ imp[i].pc = "new" /\ imp'[i].pc = "hash" /\ evidence'[i] = "hashing"
        /\ evidence' \in [Import -> Status] /\ UNCHANGED <<count, stored>>
        /\ DOMAIN imp'[i] = ImportFields
        /\ imp'[i].pos = imp[i].pos /\ imp'[i].inserted = imp[i].inserted /\ imp'[i].batch = imp[i].batch
        /\ imp'[i].duplicates = imp[i].duplicates /\ imp'[i].error = imp[i].error
    BY <1>0, <1>2, StartFields
  <2>3. Tables' /\ ImportShape(i)' /\ Begun(i)'
    BY <1>0, <1>b, <2>1 DEF Tables, ImportShape, Begun, ImportPc
  <2>4. Reading(i)' /\ Keeping(i)'
    BY <1>0, <1>c, <2>1 DEF Begun, Reading, Keeping, Running, Receiving, Ending
  <2> QED BY <2>3, <2>4
<1>3. CASE ReceiveRow(i)
  <2>1. /\ imp[i].pc = "stream" /\ UNCHANGED <<evidence, count, stored>>
        /\ \/ /\ imp'[i].pos = imp[i].pos + 1 /\ imp'[i].batch = imp[i].batch \cup {imp[i].pos + 1}
              /\ imp'[i].pc \in {"held", "stream"}
           \/ imp'[i].pos = imp[i].pos + 1 /\ imp'[i].batch = imp[i].batch /\ imp'[i].pc = "stream"
        /\ DOMAIN imp'[i] = ImportFields
        /\ imp'[i].inserted = imp[i].inserted /\ imp'[i].duplicates = imp[i].duplicates
        /\ imp'[i].error = imp[i].error
    BY <1>0, <1>3 DEF ReceiveRow, Tables, ImportShape, ImportFields
  <2>2. IsFiniteSet(imp[i].batch \cup {imp[i].pos + 1})
    BY <1>d, FS_AddElement
  <2>3. Tables' /\ ImportShape(i)' /\ Begun(i)' /\ Keeping(i)'
    BY <1>0, <1>b, <2>1 DEF Tables, ImportShape, Begun, Keeping, Running, ImportPc, Receiving, Ending
  <2>4. /\ imp[i].batch \subseteq 1 .. imp[i].pos /\ stored[i] \subseteq 1 .. imp[i].pos
        /\ imp[i].batch \cap stored[i] = {} /\ imp[i].pos \in Nat
    BY <1>0, <2>1 DEF Reading, Running, ImportShape
  <2>5. /\ IsFiniteSet(imp'[i].batch) /\ imp'[i].batch \subseteq 1 .. imp'[i].pos
        /\ imp'[i].batch \cap stored[i] = {} /\ stored[i] \subseteq 1 .. imp'[i].pos
    <3>1. CASE imp'[i].batch = imp[i].batch /\ imp'[i].pos = imp[i].pos + 1
      BY <1>d, <2>4, <3>1
    <3>2. CASE imp'[i].batch = imp[i].batch \cup {imp[i].pos + 1} /\ imp'[i].pos = imp[i].pos + 1
      BY <2>2, <2>4, <3>2
    <3> QED BY <2>1, <3>1, <3>2
  <2>6. Reading(i)'
    BY <1>0, <2>1, <2>5 DEF Reading, Receiving, Ending
  <2> QED BY <2>3, <2>6
<1>4. CASE Held(i)
  <2>1. PICK kept \in SUBSET imp[i].batch :
          /\ imp'[i].batch = kept
          /\ imp'[i].duplicates = imp[i].duplicates + Cardinality(imp[i].batch) - Cardinality(kept)
    <3> DEFINE kept == {p \in imp[i].batch : File[i][p] \notin HeldKeys}
    <3>1. /\ imp'[i].batch = kept
          /\ imp'[i].duplicates = imp[i].duplicates + Cardinality(imp[i].batch \ kept)
      BY <1>0, <1>4 DEF Held, Tables, ImportShape, ImportFields
    <3>2. /\ Cardinality(kept) + Cardinality(imp[i].batch \ kept) = Cardinality(imp[i].batch)
          /\ Cardinality(kept) \in Nat /\ Cardinality(imp[i].batch \ kept) \in Nat
      BY <1>0, <1>d, Counting DEF ImportShape
    <3> HIDE DEF kept
    <3>3. Cardinality(imp[i].batch \ kept) = Cardinality(imp[i].batch) - Cardinality(kept)
      BY <3>2, <1>d
    <3>4. kept \subseteq imp[i].batch
      BY DEF kept
    <3> QED BY <3>1, <3>2, <3>3, <3>4, <1>0, <1>d DEF ImportShape
  <2>2. /\ \/ imp[i].pc = "held" /\ imp'[i].pc = "add"
           \/ imp[i].pc = "heldLast" /\ imp'[i].pc = "addLast"
        /\ DOMAIN imp'[i] = ImportFields
        /\ imp'[i].pos = imp[i].pos /\ imp'[i].inserted = imp[i].inserted
        /\ imp'[i].error = imp[i].error /\ UNCHANGED <<evidence, count, stored>>
    BY <1>0, <1>4 DEF Held, Tables, ImportShape, ImportFields
  <2>a. IsFiniteSet(kept) /\ Cardinality(kept) <= Cardinality(imp[i].batch)
    BY <1>d, FS_Subset
  <2>3. /\ IsFiniteSet(kept) /\ Cardinality(kept) \in Nat /\ Cardinality(kept) <= Cardinality(imp[i].batch)
    BY <2>a, FS_CardinalityType
  <2>4. Tables' /\ ImportShape(i)' /\ Begun(i)' /\ Keeping(i)'
    BY <1>0, <1>b, <1>d, <2>1, <2>2, <2>3 DEF Tables, ImportShape, Begun, Keeping, Running, ImportPc, Receiving, Ending
  <2>5. /\ IsFiniteSet(imp'[i].batch) /\ IsFiniteSet(stored'[i])
        /\ imp'[i].batch \subseteq 1 .. imp'[i].pos /\ stored'[i] \subseteq 1 .. imp'[i].pos
        /\ imp'[i].batch \cap stored'[i] = {}
    BY <1>0, <2>1, <2>2, <2>3 DEF Reading, Running
  <2>6. imp'[i].pc \in {"add", "addLast"}
        /\ (imp'[i].pc = "addLast" <=> imp[i].pc = "heldLast") /\ (imp[i].pc = "heldLast" => imp[i].pc \in Ending)
    BY <2>2 DEF Ending
  <2>7. imp'[i].inserted + imp'[i].duplicates + Cardinality(imp'[i].batch)
          = imp[i].inserted + imp[i].duplicates + Cardinality(imp[i].batch)
    BY <1>0, <1>d, <2>1, <2>2, <2>3 DEF ImportShape
  <2>8. imp[i].pc = "heldLast" /\ ~imp[i].error =>
          imp'[i].inserted + imp'[i].duplicates + Cardinality(imp'[i].batch) = Len(File[i])
    BY <1>0, <2>6, <2>7 DEF Reading
  <2>9. Reading(i)'
    BY <2>2, <2>5, <2>6, <2>8 DEF Reading, Receiving, Ending
  <2> QED BY <2>4, <2>9
<1>5. CASE AddRows(i)
  <2>1. /\ \/ imp[i].pc = "add" /\ imp'[i].pc = "stream"
           \/ imp[i].pc = "addLast" /\ imp'[i].pc = "facets"
        /\ DOMAIN imp'[i] = ImportFields
        /\ imp'[i].batch = {} /\ imp'[i].inserted = imp[i].inserted + Cardinality(imp[i].batch)
        /\ imp'[i].pos = imp[i].pos /\ imp'[i].duplicates = imp[i].duplicates
        /\ imp'[i].error = imp[i].error /\ UNCHANGED <<evidence, count>>
        /\ stored'[i] = stored[i] \cup imp[i].batch /\ stored' \in [Import -> SUBSET Nat]
    BY <1>0, <1>5 DEF AddRows, Tables, ImportShape, ImportFields
  <2>2. /\ IsFiniteSet(stored'[i])
        /\ Cardinality(stored'[i]) = Cardinality(stored[i]) + Cardinality(imp[i].batch)
    <3>1. /\ stored[i] \in SUBSET Nat /\ imp[i].batch \in SUBSET Nat
          /\ stored[i] \cap imp[i].batch = {}
      BY <1>0 DEF Tables, ImportShape, Reading
    <3> QED BY <1>d, <2>1, <3>1, Counting
  <2>3. Tables' /\ ImportShape(i)' /\ Begun(i)' /\ Keeping(i)'
    BY <1>0, <1>b, <1>d, <2>1, <2>2 DEF Tables, ImportShape, Begun, Keeping, Running, ImportPc, Receiving, Ending
  <2>4. /\ imp'[i].pc \in {"stream", "facets"} /\ (imp'[i].pc = "facets" <=> imp[i].pc = "addLast")
        /\ (imp[i].pc = "addLast" => imp[i].pc \in Ending)
    BY <2>1 DEF Ending
  <2>5. /\ IsFiniteSet(imp'[i].batch) /\ Cardinality(imp'[i].batch) = 0
        /\ imp'[i].batch \subseteq 1 .. imp'[i].pos /\ imp'[i].batch \cap stored'[i] = {}
    BY <2>1, FS_EmptySet
  <2>6. stored'[i] \subseteq 1 .. imp'[i].pos
    <3>1. stored[i] \subseteq 1 .. imp[i].pos /\ imp[i].batch \subseteq 1 .. imp[i].pos
      BY <1>0, <2>1 DEF Reading, Running
    <3> QED BY <2>1, <3>1
  <2>7. imp[i].pc = "addLast" /\ ~imp[i].error =>
          imp[i].inserted + imp[i].duplicates + Cardinality(imp[i].batch) = Len(File[i])
    BY <1>0, <2>4 DEF Reading
  <2>8. imp'[i].inserted + imp'[i].duplicates + Cardinality(imp'[i].batch)
          = imp[i].inserted + imp[i].duplicates + Cardinality(imp[i].batch)
    BY <1>0, <1>d, <2>1, <2>5 DEF ImportShape
  <2>9. Reading(i)'
    BY <2>1, <2>2, <2>4, <2>5, <2>6, <2>7, <2>8 DEF Reading, Receiving, Ending
  <2> QED BY <2>3, <2>9
<1>6. CASE EndOfStream(i)
  <2>1. /\ imp[i].pc = "stream" /\ imp'[i].pc = "heldLast"
        /\ DOMAIN imp'[i] = ImportFields
        /\ \/ imp'[i].error = TRUE
           \/ imp'[i].error = (imp[i].inserted + imp[i].duplicates + Cardinality(imp[i].batch) # Len(File[i]))
        /\ imp'[i].pos = imp[i].pos /\ imp'[i].duplicates = imp[i].duplicates
        /\ imp'[i].inserted = imp[i].inserted /\ imp'[i].batch = imp[i].batch
        /\ UNCHANGED <<evidence, count, stored>>
    BY <1>0, <1>6 DEF EndOfStream, Tables, ImportShape, ImportFields
  <2>2. Tables' /\ ImportShape(i)' /\ Begun(i)' /\ Keeping(i)'
    BY <1>0, <1>b, <2>1 DEF Tables, ImportShape, Begun, Keeping, Running, ImportPc, Receiving, Ending
  <2>3. Reading(i)'
    BY <1>0, <2>1 DEF ImportShape, Reading, Running, Receiving, Ending
  <2> QED BY <2>2, <2>3
<1>7. CASE ReadDerived(i) \/ flushFacets(i) \/ flushIocs(i)
  <2>1. /\ \E from, to \in Ending \ {"heldLast", "addLast"} : imp[i].pc = from /\ imp'[i].pc = to
        /\ DOMAIN imp'[i] = ImportFields
        /\ imp'[i].pos = imp[i].pos /\ imp'[i].duplicates = imp[i].duplicates
        /\ imp'[i].inserted = imp[i].inserted /\ imp'[i].batch = imp[i].batch
        /\ imp'[i].error = imp[i].error /\ UNCHANGED <<evidence, count, stored>>
    BY <1>0, <1>7 DEF ReadDerived, flushFacets, flushIocs, Tables, ImportShape, ImportFields, Ending
  <2>2. Tables' /\ ImportShape(i)' /\ Begun(i)' /\ Keeping(i)'
    BY <1>0, <1>b, <2>1 DEF Tables, ImportShape, Begun, Keeping, Running, ImportPc, Receiving, Ending
  <2>3. Reading(i)'
    BY <1>0, <2>1 DEF ImportShape, Reading, Running, Receiving, Ending
  <2> QED BY <2>2, <2>3
<1>8. CASE FinishImport(i)
  <2>1. /\ imp[i].pc = "end" /\ imp'[i].pc = "posted" /\ DOMAIN imp'[i] = ImportFields
        /\ imp'[i].pos = 0 /\ imp'[i].batch = {} /\ imp'[i].inserted = 0 /\ imp'[i].error = FALSE
        /\ imp'[i].duplicates = imp[i].duplicates
        /\ count'[i] = imp[i].inserted /\ count' \in [Import -> Nat]
        /\ evidence'[i] = (IF evidence[i] = "removed" THEN "removed" ELSE IF imp[i].error THEN "error" ELSE "done")
        /\ evidence' \in [Import -> Status] /\ stored' = stored
    BY <1>0, <1>8 DEF FinishImport, WithStatus, IdleImport, Tables, ImportShape, ImportFields, Status
  <2>a. Tables'
    BY <1>0, <1>b, <2>1 DEF Tables
  <2>b. ImportShape(i)'
    <3>1. imp[i].duplicates \in Nat
      BY <1>0 DEF ImportShape
    <3>2. "posted" \in ImportPc
      BY DEF ImportPc
    <3>3. /\ DOMAIN imp'[i] = ImportFields /\ imp'[i].pc = "posted" /\ imp'[i].pos = 0 /\ imp'[i].batch = {}
          /\ imp'[i].inserted = 0 /\ imp'[i].error = FALSE /\ imp'[i].duplicates = imp[i].duplicates
      BY <2>1
    <3>4. imp'[i].error \in BOOLEAN /\ imp'[i].batch \in SUBSET Nat
      BY <3>3, Zenon
    <3> QED BY <3>1, <3>2, <3>3, <3>4 DEF ImportShape
  <2>c. Begun(i)'
    BY <1>0, <2>1 DEF Begun
  <2>2. Tables' /\ ImportShape(i)' /\ Begun(i)'
    BY <2>a, <2>b, <2>c
  <2>3. Reading(i)'
    BY <1>0, <1>c, <2>1 DEF ImportShape, Reading, Running, Receiving, Ending
  <2>4. Keeping(i)'
    <3>1. imp[i].batch = {} /\ Cardinality(imp[i].batch) = 0
      BY <1>0, <1>c, <2>1 DEF Reading, Receiving
    <3>2. evidence[i] # "removed" => Cardinality(stored[i]) = imp[i].inserted
      BY <1>0, <2>1 DEF Keeping, Running
    <3>3. ~imp[i].error => imp[i].inserted + imp[i].duplicates = Len(File[i])
      BY <1>0, <2>1, <3>1 DEF Reading, ImportShape, Ending
    <3> QED BY <1>0, <2>1, <3>2, <3>3 DEF Keeping, Running, Tables, ImportShape
  <2> QED BY <2>2, <2>3, <2>4
<1>9. CASE WorkerEnded(i)
  BY <1>0, <1>b, <1>9
     DEF Tables, ImportShape, Begun, Reading, Keeping, WorkerEnded, Running,
         ImportFields, ImportPc, Receiving, Ending
<1> QED BY <1>1, <1>2, <1>3, <1>4, <1>5, <1>6, <1>7, <1>8, <1>9 DEF Worker

-----------------------------------------------------------------------------
(* Every step keeps the invariant *)

\* A repair stays right while what it holds does not run and nothing becomes done under it.
LEMMA RepairingKept ==
  ASSUME NEW m \in Mender, MenderShape(m), Repairing(m), mend'[m] = mend[m],
         mend[m].pc # "off" => m[1] \in tabs',
         \A i \in Import : imp[i].pc # "new" => imp'[i].pc # "new",
         \A i \in mend[m].it : ~Running(i)' /\ (evidence'[i] = "done" => evidence[i] = "done")
  PROVE  MenderShape(m)' /\ Repairing(m)'
BY DEF MenderShape, Repairing

\* A step of an import keeps the invariant.
LEMMA WorkerKeeps ==
  ASSUME ImportInv, NEW i \in Import,
         Worker(i) \/ \E t \in Tab : StartImport(i, t)
  PROVE  ImportInv'
<1>1. Tables' /\ ImportShape(i)' /\ Begun(i)' /\ Reading(i)' /\ Keeping(i)'
  BY WorkerStep
<1>2. /\ mend' = mend
      /\ \A k \in Import \ {i} : Same(k)
  BY WorkerFrame
<1>3. \A k \in Import \ {i} : ImportShape(k)' /\ Begun(k)' /\ Reading(k)' /\ Keeping(k)'
  BY <1>2, SameKeeps DEF ImportInv
<1>4. tabs' = tabs /\ (Running(i) \/ imp[i].pc = "new")
  BY DEF Worker, StartImport, Hashed, Meta, ReceiveRow, Held, AddRows, EndOfStream, ReadDerived, flushFacets,
         flushIocs, FinishImport, WorkerEnded, Running
<1>5. imp'[i].pc # "new"
  <2>0. Tables /\ ImportShape(i)
    BY DEF ImportInv
  <2>1. CASE Hashed(i) \/ Meta(i) \/ ReceiveRow(i)
    BY <2>0, <2>1 DEF Tables, ImportShape, ImportFields, Hashed, Meta, ReceiveRow, Goto
  <2>2. CASE Held(i)
    BY <2>0, <2>2 DEF Tables, ImportShape, ImportFields, Held
  <2>3. CASE AddRows(i) \/ EndOfStream(i) \/ ReadDerived(i) \/ flushFacets(i) \/ flushIocs(i)
    BY <2>0, <2>3 DEF Tables, ImportShape, ImportFields, AddRows, EndOfStream, ReadDerived, flushFacets, flushIocs
  <2>4. CASE FinishImport(i)
    BY <2>0, <2>4 DEF Tables, ImportShape, ImportFields, FinishImport, IdleImport
  <2>5. CASE WorkerEnded(i)
    BY <2>0, <2>5 DEF Tables, ImportShape, ImportFields, WorkerEnded
  <2>6. ASSUME NEW t \in Tab, StartImport(i, t) PROVE imp'[i].pc # "new"
    BY <2>0, <2>6, StartFields
  <2> QED BY <2>1, <2>2, <2>3, <2>4, <2>5, <2>6 DEF Worker
<1>6. \A k \in Import : imp[k].pc # "new" => imp'[k].pc # "new"
  BY <1>2, <1>5 DEF Same
<1>7. ASSUME NEW m \in Mender PROVE MenderShape(m)' /\ Repairing(m)'
  <2>1. MenderShape(m) /\ Repairing(m)
    BY DEF ImportInv
  <2>2. i \notin mend[m].it
    BY <1>4, <2>1 DEF Repairing
  <2>3. \A k \in mend[m].it : ~Running(k)' /\ (evidence'[k] = "done" => evidence[k] = "done")
    BY <1>2, <2>1, <2>2 DEF Repairing, MenderShape, Same, Running
  <2> QED BY <1>2, <1>4, <1>6, <2>1, <2>3, RepairingKept DEF Repairing
<1> QED BY <1>1, <1>3, <1>7 DEF ImportInv

\* The fields a step of a repair sets, and that it touches no other repair and no import's worker.
LEMMA MenderFrame ==
  ASSUME ImportInv, NEW m \in Mender, MenderStep(m)
  PROVE  /\ imp' = imp /\ tabs' = tabs /\ DOMAIN mend' = Mender
         /\ \A n \in Mender \ {m} : mend'[n] = mend[n]
         /\ mend[m].pc # "off"
<1>0. Tables /\ MenderShape(m)
  BY DEF ImportInv
<1>1. CASE ListUnfinished(m) \/ TakeLock(m)
  BY <1>0, <1>1 DEF Tables, ListUnfinished, TakeLock
<1>2. CASE Stop(m)
  BY <1>0, <1>2 DEF Tables, Stop, MendTo
<1>3. CASE MarkStopped(m) \/ EndOfList(m)
  BY <1>0, <1>3 DEF Tables, MarkStopped, EndOfList
<1>4. CASE clearDerivedState(m) \/ RebuildScan(m) \/ RebuildWipe(m)
  BY <1>0, <1>4 DEF Tables, clearDerivedState, RebuildScan, RebuildWipe, MendTo
<1>5. CASE RebuildRead(m) \/ RebuildPut(m)
  BY <1>0, <1>5 DEF Tables, RebuildRead, RebuildPut
<1> QED BY <1>1, <1>2, <1>3, <1>4, <1>5 DEF MenderStep

\* A step of a repair or of a removal: what it does to itself and to the import it stops.
LEMMA MenderOwn ==
  ASSUME ImportInv, NEW m \in Mender, MenderStep(m)
  PROVE  /\ Tables' /\ MenderShape(m)' /\ Repairing(m)'
         /\ \/ UNCHANGED <<evidence, count, stored>>
            \/ \E i \in mend[m].it :
                 /\ \A k \in Import \ {i} : Same(k)
                 /\ stored'[i] \in {{}, stored[i]} /\ count'[i] \in {0, count[i]}
                 /\ \/ evidence'[i] = evidence[i] /\ count'[i] = count[i] /\ evidence[i] \in UNFINISHED
                    \/ mend[m].pc = "mark" /\ stored'[i] = stored[i]
                       /\ evidence'[i] = (IF evidence[i] = "removed" THEN "removed" ELSE "error")
<1>0. Tables /\ MenderShape(m) /\ Repairing(m) /\ \A i \in Import : Begun(i)
  BY DEF ImportInv
<1>1. CASE ListUnfinished(m)
  <2>1. /\ mend'[m].todo = {i \in Import : evidence[i] \in UNFINISHED} /\ mend'[m].pc = "next"
        /\ mend[m].pc = "list" /\ mend'[m].it = mend[m].it /\ DOMAIN mend'[m] = MenderFields
        /\ DOMAIN mend' = Mender /\ UNCHANGED <<imp, tabs, evidence, count, stored>>
    BY <1>0, <1>1 DEF Tables, MenderShape, MenderFields, ListUnfinished
  <2>2. mend'[m].todo \subseteq {i \in Import : imp[i].pc # "new"}
    BY <1>0, <2>1 DEF Begun, UNFINISHED
  <2> QED BY <1>0, <2>1, <2>2 DEF Tables, MenderShape, Repairing
<1>2. CASE TakeLock(m)
  <2>1. PICK i \in mend[m].todo :
          /\ mend'[m].todo = mend[m].todo \ {i}
          /\ \/ LockFree(i) /\ mend'[m].it = {i} /\ mend'[m].pc = "stop"
             \/ ~LockFree(i) /\ mend'[m].it = {} /\ mend'[m].pc = "next"
    BY <1>0, <1>2 DEF Tables, MenderShape, MenderFields, TakeLock
  <2>2. /\ mend[m].pc = "next" /\ DOMAIN mend'[m] = MenderFields
        /\ DOMAIN mend' = Mender /\ UNCHANGED <<imp, tabs, evidence, count, stored>>
    BY <1>0, <1>2 DEF Tables, MenderShape, MenderFields, TakeLock
  <2> QED BY <1>0, <2>1, <2>2 DEF Tables, MenderShape, Repairing, LockFree, Running
<1>3. CASE Stop(m)
  <2>1. PICK i \in mend[m].it :
          \/ /\ evidence[i] \in UNFINISHED /\ stored' = [stored EXCEPT ![i] = {}] /\ MendTo(m, "mark")
          \/ mend' = [mend EXCEPT ![m].it = {}, ![m].pc = "next"] /\ stored' = stored
    BY <1>3 DEF Stop
  <2>2. mend[m].pc = "stop" /\ UNCHANGED <<imp, tabs, evidence, count>> /\ i \in Import
    BY <1>0, <1>3 DEF Stop, MenderShape
  <2>3. CASE evidence[i] \in UNFINISHED /\ stored' = [stored EXCEPT ![i] = {}] /\ MendTo(m, "mark")
    <3>1. /\ mend'[m].pc = "mark" /\ mend'[m].it = mend[m].it /\ mend'[m].todo = mend[m].todo
          /\ DOMAIN mend'[m] = MenderFields /\ DOMAIN mend' = Mender
      BY <1>0, <2>3 DEF MendTo, Tables, MenderShape, MenderFields
    <3>2. /\ stored' \in [Import -> SUBSET Nat] /\ stored'[i] = {}
          /\ \A k \in Import \ {i} : stored'[k] = stored[k]
      BY <1>0, <2>2, <2>3 DEF Tables
    <3>3. evidence[i] # "done"
      BY <2>3 DEF UNFINISHED
    <3>4. Tables' /\ MenderShape(m)' /\ Repairing(m)'
      BY <1>0, <2>2, <3>1, <3>2, <3>3 DEF Tables, MenderShape, Repairing, Running
    <3> QED BY <2>1, <2>2, <2>3, <3>2, <3>4 DEF Same
  <2>4. CASE mend' = [mend EXCEPT ![m].it = {}, ![m].pc = "next"] /\ stored' = stored
    <3>1. /\ mend'[m].pc = "next" /\ mend'[m].it = {} /\ mend'[m].todo = mend[m].todo
          /\ DOMAIN mend'[m] = MenderFields /\ DOMAIN mend' = Mender
      BY <1>0, <2>4 DEF Tables, MenderShape, MenderFields
    <3> QED BY <1>0, <2>2, <2>4, <3>1 DEF Tables, MenderShape, Repairing, Running
  <2> QED BY <2>1, <2>3, <2>4
<1>4. CASE MarkStopped(m)
  <2>1. PICK i \in mend[m].it :
          /\ evidence' = WithStatus(i, "error") /\ count' = [count EXCEPT ![i] = 0]
          /\ mend' = [mend EXCEPT ![m].it = {}, ![m].stopped = @ \cup {i}, ![m].pc = "next"]
    BY <1>4 DEF MarkStopped
  <2>2. mend[m].pc = "mark" /\ UNCHANGED <<imp, tabs, stored>> /\ i \in Import
    BY <1>0, <1>4 DEF MarkStopped, MenderShape
  <2>3. /\ mend'[m].pc = "next" /\ mend'[m].it = {} /\ mend'[m].todo = mend[m].todo
        /\ DOMAIN mend'[m] = MenderFields /\ DOMAIN mend' = Mender
    BY <1>0, <2>1 DEF Tables, MenderShape, MenderFields
  <2>4. /\ evidence' \in [Import -> Status] /\ count' \in [Import -> Nat] /\ count'[i] = 0
        /\ \A k \in Import \ {i} : evidence'[k] = evidence[k] /\ count'[k] = count[k]
        /\ evidence'[i] = (IF evidence[i] = "removed" THEN "removed" ELSE "error")
    BY <1>0, <2>1, <2>2 DEF Tables, WithStatus, Status
  <2>5. Tables' /\ MenderShape(m)' /\ Repairing(m)'
    BY <1>0, <2>2, <2>3, <2>4 DEF Tables, MenderShape, Repairing, Running
  <2> QED BY <2>1, <2>2, <2>4, <2>5 DEF Same
<1>5. CASE EndOfList(m)
  <2>1. /\ mend'[m].pc \in {"off", "clear"} /\ mend'[m].it = {} /\ mend'[m].todo = {}
        /\ DOMAIN mend'[m] = MenderFields /\ DOMAIN mend' = Mender
        /\ mend[m].pc = "next" /\ UNCHANGED <<imp, tabs, evidence, count, stored>>
    BY <1>0, <1>5 DEF EndOfList, Tables, MenderShape, MenderFields, IdleMender
  <2> QED BY <1>0, <2>1 DEF Tables, MenderShape, Repairing
<1>6. CASE clearDerivedState(m) \/ RebuildScan(m) \/ RebuildWipe(m) \/ RebuildRead(m) \/ RebuildPut(m)
  <2>1. /\ mend'[m].it \in {mend[m].it, {}} /\ mend'[m].todo \in {mend[m].todo, {}}
        /\ mend'[m].pc \in {"off", "scan", "wipe", "facets", "facetsPut", "iocs", "iocsPut"}
        /\ mend[m].pc \in {"clear", "scan", "wipe", "facets", "facetsPut", "iocs", "iocsPut"}
        /\ DOMAIN mend'[m] = MenderFields /\ DOMAIN mend' = Mender
    <3>1. CASE clearDerivedState(m) \/ RebuildScan(m) \/ RebuildWipe(m)
      BY <1>0, <3>1 DEF clearDerivedState, RebuildScan, RebuildWipe, MendTo, Tables, MenderShape, MenderFields
    <3>2. CASE RebuildRead(m) \/ RebuildPut(m)
      BY <1>0, <3>2 DEF RebuildRead, RebuildPut, Tables, MenderShape, MenderFields, IdleMender
    <3> QED BY <1>6, <3>1, <3>2
  <2>2. UNCHANGED <<imp, tabs, evidence, count, stored>>
    BY <1>6 DEF clearDerivedState, RebuildScan, RebuildWipe, RebuildRead, RebuildPut
  <2> QED BY <1>0, <2>1, <2>2 DEF Tables, MenderShape, Repairing
<1> QED BY <1>1, <1>2, <1>3, <1>4, <1>5, <1>6 DEF MenderStep

\* A step of a repair or of a removal changes the rows, the status and the count of an import nobody
\* runs, of an import that ended unfinished.
LEMMA MenderKeeps ==
  ASSUME ImportInv, NEW m \in Mender, MenderStep(m)
  PROVE  ImportInv'
<1>0. MenderShape(m) /\ Repairing(m) /\ Tables
  BY DEF ImportInv
<1>1. /\ imp' = imp /\ tabs' = tabs
      /\ \A n \in Mender \ {m} : mend'[n] = mend[n]
  BY MenderFrame
<1>2. Tables' /\ MenderShape(m)' /\ Repairing(m)'
  BY MenderOwn
<1>3. ASSUME NEW k \in Import
      PROVE  /\ ImportShape(k)' /\ Begun(k)' /\ Reading(k)' /\ Keeping(k)'
             /\ evidence'[k] = "done" => evidence[k] = "done"
  <2>0. ImportShape(k) /\ Begun(k) /\ Reading(k) /\ Keeping(k)
    BY DEF ImportInv
  <2>1. CASE Same(k)
    BY <2>0, <2>1, SameKeeps DEF Same
  <2>2. CASE ~Same(k)
    <3>1. /\ k \in mend[m].it /\ stored'[k] \in {{}, stored[k]} /\ count'[k] \in {0, count[k]}
          /\ \/ evidence'[k] = evidence[k] /\ count'[k] = count[k] /\ evidence[k] \in UNFINISHED
             \/ mend[m].pc = "mark" /\ stored'[k] = stored[k]
                /\ evidence'[k] = (IF evidence[k] = "removed" THEN "removed" ELSE "error")
      <4>1. ~UNCHANGED <<evidence, count, stored>>
        BY <1>1, <2>2 DEF Same
      <4>2. PICK i \in mend[m].it :
              /\ \A j \in Import \ {i} : Same(j)
              /\ stored'[i] \in {{}, stored[i]} /\ count'[i] \in {0, count[i]}
              /\ \/ evidence'[i] = evidence[i] /\ count'[i] = count[i] /\ evidence[i] \in UNFINISHED
                 \/ mend[m].pc = "mark" /\ stored'[i] = stored[i]
                    /\ evidence'[i] = (IF evidence[i] = "removed" THEN "removed" ELSE "error")
        BY <4>1, MenderOwn
      <4>3. i = k
        BY <2>2, <4>2
      <4> QED BY <4>2, <4>3
    <3>2. ~Running(k) /\ imp[k].pc # "new"
      BY <1>0, <3>1 DEF Repairing
    <3>3. ~Running(k)' /\ evidence'[k] # "done" /\ imp'[k] = imp[k] /\ evidence[k] # "none"
      BY <1>1, <2>0, <3>1, <3>2 DEF Running, UNFINISHED, Begun
    <3>4. ImportShape(k)' /\ Begun(k)'
      BY <2>0, <3>1, <3>2, <3>3 DEF ImportShape, Begun
    <3>5. imp[k].pc \notin Ending /\ IsFiniteSet({})
      BY <3>2, FS_EmptySet DEF Running, Ending
    <3>6. Reading(k)'
      BY <2>0, <3>1, <3>2, <3>3, <3>5 DEF Reading
    <3>7. Keeping(k)'
      BY <3>3 DEF Keeping, Running
    <3> QED BY <3>3, <3>4, <3>6, <3>7
  <2> QED BY <2>1, <2>2
<1>4. ASSUME NEW n \in Mender \ {m} PROVE MenderShape(n)' /\ Repairing(n)'
  <2>1. MenderShape(n) /\ Repairing(n)
    BY DEF ImportInv
  <2>2. \A i \in mend[n].it : ~Running(i)' /\ (evidence'[i] = "done" => evidence[i] = "done")
    BY <1>1, <1>3, <2>1 DEF MenderShape, Repairing, Running
  <2> QED BY <1>1, <2>1, <2>2, RepairingKept DEF Repairing
<1> QED BY <1>2, <1>3, <1>4 DEF ImportInv

\* Removing evidence takes the rows and the row of one import, whatever it is doing.
LEMMA RemoveKeeps ==
  ASSUME ImportInv, NEW t \in Tab, NEW i \in Import, RemoveEvidence(t, i)
  PROVE  ImportInv'
<1> DEFINE r == <<t, "remove">>
<1>0. Tables /\ r \in Mender /\ MenderShape(r) /\ Repairing(r)
  BY DEF ImportInv, Mender
<1>1. /\ evidence' = [evidence EXCEPT ![i] = "removed"] /\ stored' = [stored EXCEPT ![i] = {}]
      /\ mend' = [mend EXCEPT ![r].pc = "clear"] /\ mend[r].pc = "off" /\ t \in tabs
      /\ UNCHANGED <<tabs, count, imp>>
  BY DEF RemoveEvidence, MendTo
<1>2. evidence[i] # "none"
  BY DEF RemoveEvidence
<1> HIDE DEF r
<1>3. Tables'
  BY <1>0, <1>1 DEF Tables, Status
<1>4. ASSUME NEW k \in Import PROVE ImportShape(k)' /\ Begun(k)' /\ Reading(k)' /\ Keeping(k)'
  <2>0. ImportShape(k) /\ Begun(k) /\ Reading(k) /\ Keeping(k)
    BY DEF ImportInv
  <2>1. CASE k # i
    <3>1. Same(k)
      BY <1>0, <1>1, <2>1 DEF Same, Tables
    <3> QED BY <2>0, <3>1, SameKeeps
  <2>2. CASE k = i
    <3>1. evidence'[k] = "removed" /\ stored'[k] = {} /\ imp'[k] = imp[k] /\ evidence[k] # "none"
      BY <1>0, <1>1, <1>2, <2>2 DEF Tables
    <3>2. IsFiniteSet({})
      BY FS_EmptySet
    <3>3. ImportShape(k)' /\ Begun(k)'
      BY <2>0, <3>1 DEF ImportShape, Begun
    <3>4. Reading(k)'
      BY <2>0, <3>1, <3>2 DEF Reading, Running
    <3>5. Keeping(k)'
      BY <3>1 DEF Keeping
    <3> QED BY <3>3, <3>4, <3>5
  <2> QED BY <2>1, <2>2
<1>5. ASSUME NEW m \in Mender PROVE MenderShape(m)' /\ Repairing(m)'
  <2>0. MenderShape(m) /\ Repairing(m)
    BY DEF ImportInv
  <2>1. CASE m # r
    <3>1. mend'[m] = mend[m]
      BY <1>0, <1>1, <2>1 DEF Tables
    <3>2. \A k \in mend[m].it : ~Running(k)' /\ (evidence'[k] = "done" => evidence[k] = "done")
      BY <1>0, <1>1, <2>0 DEF Tables, MenderShape, Repairing, Running
    <3> QED BY <1>1, <2>0, <3>1, <3>2, RepairingKept DEF Repairing
  <2>2. CASE m = r
    <3>1. /\ DOMAIN mend'[r] = MenderFields /\ mend'[r].pc = "clear"
          /\ mend'[r].it = mend[r].it /\ mend'[r].todo = mend[r].todo
      BY <1>0, <1>1 DEF Tables, MenderShape, MenderFields
    <3>2. mend[r].it = {} /\ r[1] = t
      BY <1>0, <1>1 DEF Repairing, r
    <3> QED BY <1>0, <1>1, <2>2, <3>1, <3>2 DEF MenderShape, Repairing
  <2> QED BY <2>1, <2>2
<1> QED BY <1>3, <1>4, <1>5 DEF ImportInv

\* A tab that starts has no repair yet.
LEMMA OpenKeeps ==
  ASSUME ImportInv, NEW t \in Tab, OpenTab(t)
  PROVE  ImportInv'
<1> DEFINE b == <<t, "boot">>
<1>0. Tables /\ b \in Mender /\ MenderShape(b) /\ Repairing(b)
  BY DEF ImportInv, Mender
<1>1. /\ mend' = [mend EXCEPT ![b].pc = "list"] /\ t \notin tabs /\ tabs' = tabs \cup {t}
      /\ UNCHANGED <<evidence, count, stored, imp>> /\ b[1] = t
  BY DEF OpenTab
<1> HIDE DEF b
<1>2. Tables' /\ \A k \in Import : Same(k)
  BY <1>0, <1>1 DEF Tables, Same
<1>3. \A k \in Import : ImportShape(k)' /\ Begun(k)' /\ Reading(k)' /\ Keeping(k)'
  BY <1>2, SameKeeps DEF ImportInv
<1>4. ASSUME NEW m \in Mender PROVE MenderShape(m)' /\ Repairing(m)'
  <2>0. MenderShape(m) /\ Repairing(m)
    BY DEF ImportInv
  <2>1. CASE m # b
    <3>1. mend'[m] = mend[m]
      BY <1>0, <1>1, <2>1 DEF Tables
    <3>2. \A k \in mend[m].it : ~Running(k)' /\ (evidence'[k] = "done" => evidence[k] = "done")
      BY <1>1, <2>0 DEF Repairing, Running
    <3> QED BY <1>1, <2>0, <3>1, <3>2, RepairingKept DEF Repairing
  <2>2. CASE m = b
    <3>1. /\ DOMAIN mend'[b] = MenderFields /\ mend'[b].pc = "list"
          /\ mend'[b].it = mend[b].it /\ mend'[b].todo = mend[b].todo
      BY <1>0, <1>1 DEF Tables, MenderShape, MenderFields
    <3>2. mend[b].it = {}
      BY <1>0, <1>1 DEF Repairing
    <3> QED BY <1>0, <1>1, <2>2, <3>1, <3>2 DEF MenderShape, Repairing
  <2> QED BY <2>1, <2>2
<1> QED BY <1>2, <1>3, <1>4 DEF ImportInv

\* Closing a tab ends its workers where they are and its repairs.
LEMMA CloseKeeps ==
  ASSUME ImportInv, NEW t \in Tab, CloseTab(t)
  PROVE  ImportInv'
<1>0. Tables
  BY DEF ImportInv
<1>1. /\ tabs' = tabs \ {t} /\ UNCHANGED <<evidence, count, stored>>
      /\ DOMAIN imp' = Import /\ DOMAIN mend' = Mender
      /\ \A m \in Mender : mend'[m] = IF m[1] = t THEN IdleMender ELSE mend[m]
  BY DEF CloseTab
<1>2. \A k \in Import : \/ imp'[k] = imp[k]
                        \/ /\ Running(k)
                           /\ imp'[k] = [IdleImport EXCEPT !.pc = "dead", !.duplicates = imp[k].duplicates]
  BY DEF CloseTab
<1>3. ASSUME NEW k \in Import
      PROVE  /\ ImportShape(k)' /\ Begun(k)' /\ Reading(k)' /\ Keeping(k)'
             /\ imp[k].pc # "new" => imp'[k].pc # "new"
             /\ ~Running(k) => ~Running(k)'
  <2>0. ImportShape(k) /\ Begun(k) /\ Reading(k) /\ Keeping(k)
    BY DEF ImportInv
  <2>1. CASE imp'[k] = imp[k]
    <3>1. Same(k)
      BY <1>1, <2>1 DEF Same
    <3> QED BY <2>0, <2>1, <3>1, SameKeeps DEF Running
  <2>2. CASE /\ Running(k)
             /\ imp'[k] = [IdleImport EXCEPT !.pc = "dead", !.duplicates = imp[k].duplicates]
    <3>1. /\ DOMAIN imp'[k] = ImportFields /\ imp'[k].pc = "dead" /\ imp'[k].pos = 0
          /\ imp'[k].batch = {} /\ imp'[k].inserted = 0 /\ imp'[k].error = FALSE
          /\ imp'[k].duplicates = imp[k].duplicates
      BY <2>2 DEF IdleImport, ImportFields
    <3>2. ~Running(k)' /\ imp[k].pc # "new"
      BY <2>2, <3>1 DEF Running
    <3>3. ImportShape(k)'
      <4>1. imp[k].duplicates \in Nat /\ "dead" \in ImportPc
        BY <2>0 DEF ImportShape, ImportPc
      <4>2. imp'[k].error \in BOOLEAN /\ imp'[k].batch \in SUBSET Nat
        BY <3>1, Zenon
      <4> QED BY <3>1, <4>1, <4>2 DEF ImportShape
    <3>4. Begun(k)'
      BY <1>1, <2>0, <3>1, <3>2 DEF Begun
    <3>5. IsFiniteSet({})
      BY FS_EmptySet
    <3>6. Reading(k)'
      BY <1>1, <2>0, <3>1, <3>2, <3>5 DEF Reading, Receiving, Ending
    <3>7. Keeping(k)'
      BY <1>1, <2>0, <3>1, <3>2 DEF Keeping
    <3> QED BY <3>1, <3>2, <3>3, <3>4, <3>6, <3>7
  <2> QED BY <1>2, <2>1, <2>2
<1>4. ASSUME NEW m \in Mender PROVE MenderShape(m)' /\ Repairing(m)'
  <2>0. MenderShape(m) /\ Repairing(m)
    BY DEF ImportInv
  <2>1. CASE m[1] # t
    <3>1. mend'[m] = mend[m] /\ (mend[m].pc # "off" => m[1] \in tabs')
      BY <1>1, <2>0, <2>1 DEF Repairing
    <3>2. \A k \in mend[m].it : ~Running(k)' /\ (evidence'[k] = "done" => evidence[k] = "done")
      BY <1>1, <1>3, <2>0 DEF MenderShape, Repairing
    <3> QED BY <1>1, <1>3, <2>0, <3>1, <3>2, RepairingKept
  <2>2. CASE m[1] = t
    <3>1. /\ DOMAIN mend'[m] = MenderFields /\ mend'[m].pc = "off"
          /\ mend'[m].it = {} /\ mend'[m].todo = {}
      BY <1>1, <2>2 DEF IdleMender, MenderFields
    <3> QED BY <3>1 DEF MenderShape, Repairing
  <2> QED BY <2>1, <2>2
<1>5. Tables'
  BY <1>0, <1>1 DEF Tables
<1> QED BY <1>3, <1>4, <1>5 DEF ImportInv

\* A step that changes no variable keeps the invariant.
LEMMA ImportStutters ==
  ASSUME ImportInv, UNCHANGED importVars
  PROVE  ImportInv'
BY DEF ImportInv, importVars, Tables, ImportShape, Begun, Reading, Keeping, MenderShape, Repairing, Running

\* The invariant holds at the start.
LEMMA ImportInvInit == ImportInit => ImportInv
<1> SUFFICES ASSUME ImportInit PROVE ImportInv
  OBVIOUS
<1>1. Tables
  BY DEF ImportInit, Tables, Status
<1>2. IsFiniteSet({})
  BY FS_EmptySet
<1>3. ASSUME NEW i \in Import PROVE ImportShape(i) /\ Begun(i) /\ Reading(i) /\ Keeping(i)
  <2>1. /\ imp[i] = IdleImport /\ evidence[i] = "none" /\ stored[i] = {} /\ count[i] = 0
    BY <1>3 DEF ImportInit
  <2>2. /\ DOMAIN imp[i] = ImportFields /\ imp[i].pc = "new" /\ imp[i].pos = 0 /\ imp[i].batch = {}
        /\ imp[i].inserted = 0 /\ imp[i].error = FALSE /\ imp[i].duplicates = 0
    BY <2>1 DEF IdleImport, ImportFields
  <2>3. imp[i].error \in BOOLEAN /\ imp[i].batch \in SUBSET Nat
    BY <2>2, Zenon
  <2>4. "new" \in ImportPc
    BY DEF ImportPc
  <2>5. ImportShape(i)
    BY <2>2, <2>3, <2>4 DEF ImportShape
  <2>6. Begun(i) /\ Reading(i) /\ Keeping(i)
    BY <1>2, <2>1, <2>2 DEF Begun, Reading, Keeping, Running, Ending
  <2> QED BY <2>5, <2>6
<1>4. ASSUME NEW m \in Mender PROVE MenderShape(m) /\ Repairing(m)
  <2>1. /\ DOMAIN mend[m] = MenderFields /\ mend[m].pc = "off" /\ mend[m].it = {} /\ mend[m].todo = {}
    BY <1>4 DEF ImportInit, IdleMender, MenderFields
  <2> QED BY <2>1 DEF MenderShape, Repairing
<1> QED BY <1>1, <1>3, <1>4 DEF ImportInv

\* Every step keeps the invariant.
LEMMA ImportInvStep == ImportInv /\ [ImportNext]_importVars => ImportInv'
<1> SUFFICES ASSUME ImportInv, [ImportNext]_importVars PROVE ImportInv'
  OBVIOUS
<1>1. ASSUME NEW i \in Import, Worker(i) PROVE ImportInv'
  BY <1>1, WorkerKeeps
<1>2. ASSUME NEW i \in Import, NEW t \in Tab, StartImport(i, t) PROVE ImportInv'
  BY <1>2, WorkerKeeps
<1>3. ASSUME NEW i \in Import, NEW t \in Tab, RemoveEvidence(t, i) PROVE ImportInv'
  BY <1>3, RemoveKeeps
<1>4. ASSUME NEW m \in Mender, MenderStep(m) PROVE ImportInv'
  BY <1>4, MenderKeeps
<1>5. ASSUME NEW t \in Tab, OpenTab(t) PROVE ImportInv'
  BY <1>5, OpenKeeps
<1>6. ASSUME NEW t \in Tab, CloseTab(t) PROVE ImportInv'
  BY <1>6, CloseKeeps
<1>7. CASE UNCHANGED importVars
  BY <1>7, ImportStutters
<1> QED BY <1>1, <1>2, <1>3, <1>4, <1>5, <1>6, <1>7 DEF ImportNext

\* What one step does to an import that ended done.
DoneKept == \A i \in Import : evidence[i] = "done" => evidence'[i] \in {"done", "removed"}

\* No step takes an import that ended done anywhere but to its removal.
LEMMA DoneStep == ImportInv /\ ImportNext => DoneKept
<1> SUFFICES ASSUME ImportInv, ImportNext, NEW i \in Import, evidence[i] = "done"
             PROVE  evidence'[i] \in {"done", "removed"}
  BY DEF DoneKept
<1>0. Tables /\ imp[i].pc \in {"posted", "over", "dead"}
  BY DEF ImportInv, Begun
<1>1. ASSUME NEW k \in Import, Worker(k) \/ \E t \in Tab : StartImport(k, t)
      PROVE  evidence'[i] \in {"done", "removed"}
  <2>1. CASE k # i
    BY <1>1, <2>1, WorkerFrame DEF Same
  <2>2. CASE k = i
    <3>1. WorkerEnded(i)
      BY <1>0, <1>1, <2>2 DEF Worker, StartImport, Hashed, Meta, ReceiveRow, Held, AddRows, EndOfStream,
             ReadDerived, flushFacets, flushIocs, FinishImport
    <3> QED BY <3>1 DEF WorkerEnded
  <2> QED BY <2>1, <2>2
<1>2. ASSUME NEW m \in Mender, MenderStep(m) PROVE evidence'[i] \in {"done", "removed"}
  <2>1. Repairing(m)
    BY DEF ImportInv
  <2>2. CASE UNCHANGED <<evidence, count, stored>>
    BY <2>2
  <2>3. CASE ~UNCHANGED <<evidence, count, stored>>
    <3>1. PICK k \in mend[m].it :
            /\ \A j \in Import \ {k} : Same(j)
            /\ \/ evidence'[k] = evidence[k] /\ evidence[k] \in UNFINISHED
               \/ mend[m].pc = "mark"
      BY <1>2, <2>3, MenderOwn
    <3>2. k # i
      BY <2>1, <3>1 DEF Repairing, UNFINISHED
    <3> QED BY <3>1, <3>2 DEF Same
  <2> QED BY <2>2, <2>3
<1>3. ASSUME NEW t \in Tab, NEW k \in Import, RemoveEvidence(t, k)
      PROVE  evidence'[i] \in {"done", "removed"}
  BY <1>0, <1>3 DEF RemoveEvidence, Tables
<1>4. ASSUME NEW t \in Tab, OpenTab(t) \/ CloseTab(t) PROVE evidence'[i] \in {"done", "removed"}
  BY <1>4 DEF OpenTab, CloseTab
<1> QED BY <1>1, <1>2, <1>3, <1>4 DEF ImportNext

-----------------------------------------------------------------------------
(* The theorems *)

\* Every state of every run of the browser's imports satisfies the inductive invariant.
THEOREM ImportInvariant == ImportSpec => []ImportInv
<1>1. ImportInit => ImportInv
  BY ImportInvInit
<1>2. ImportInv /\ [ImportNext]_importVars => ImportInv'
  BY ImportInvStep
<1> QED BY <1>1, <1>2, PTL DEF ImportSpec

\* interruptedImports.ts removes the rows of imports nobody runs only: whatever tabs start, close and
\* repair meanwhile, the rows an import has counted are there while it runs (removeEvidence apart).
THEOREM LiveRowsAreKept == ImportSpec => []LiveRowsKept
<1>1. ImportInv => LiveRowsKept
  BY DEF ImportInv, LiveRowsKept, Keeping
<1> QED BY <1>1, ImportInvariant, PTL

\* An import marked done by ingest.worker.ts holds each record of its file, its own or one the case
\* held, and its count is the number of its rows, for files of any length and any batch size.
THEOREM DoneImportsAreComplete == ImportSpec => []DoneIsComplete
<1>1. ImportInv => DoneIsComplete
  BY DEF ImportInv, DoneIsComplete, Keeping
<1> QED BY <1>1, ImportInvariant, PTL

\* The repair reads the status again under the lock: no step takes an import that ended done anywhere
\* but to its removal.
THEOREM DoneImportsStayDone == ImportSpec => DoneStaysDone
<1>1. ImportInv /\ [ImportNext]_importVars => [DoneKept]_importVars
  BY DoneStep
<1> QED BY <1>1, ImportInvariant, PTL DEF ImportSpec, DoneStaysDone, DoneKept

(***************************************************************************)
(* The derived tables, while one import, repair or removal runs at a time  *)
(***************************************************************************)
(* The inductive invariant *)

\* What import i has still to count in table t: its rows, until it has flushed them.
Owed(i, t) ==
  IF imp[i].pc \in {"end", "posted"} \/ (imp[i].pc \in {"iocs", "iocsPut"} /\ t = "facets")
  THEN 0 ELSE Cardinality(stored[i])

\* No import was left unfinished by its tab: none is waiting for a repair.
NoneLeft == \A i \in Import : evidence[i] \in UNFINISHED => Running(i)

\* One import, repair or removal runs at most.
Alone ==
  /\ \A i, j \in Import : Running(i) /\ Running(j) => i = j
  /\ \A m, n \in Mender : Mending(m) /\ Mending(n) => m = n
  /\ \A i \in Import, m \in Mender : ~(Running(i) /\ Mending(m))

Nobody == (\A i \in Import : ~Running(i)) /\ \A m \in Mender : ~Mending(m)

\* The rows of the batch that have no record key.
Unkeyed(i) == {p \in imp[i].batch : File[i][p] = NoKey}

\* What the worker counts is what it inserted, and the part of its batch it has counted already: a row
\* without a key when it arrives, a row with one when its batch is about to be written.
Tallying(i) ==
  /\ imp[i].pc \in {"new", "hash", "meta"} => imp[i].counted = 0 /\ imp[i].inserted = 0
  /\ imp[i].pc \in {"stream", "held", "heldLast"} => imp[i].counted = imp[i].inserted + Cardinality(Unkeyed(i))
  /\ imp[i].pc \in {"add", "addLast"} => imp[i].counted = imp[i].inserted + Cardinality(imp[i].batch)
  /\ imp[i].pc \in {"facets", "facetsPut", "iocs", "iocsPut"} => imp[i].counted = imp[i].inserted

\* Each table has one row at most for the value.
OneRow(t) == DOMAIN derived[t] \subseteq {1} /\ \A id \in DOMAIN derived[t] : derived[t][id] \in Nat

\* An import that runs alone: its row says so, what it has read is what the tables hold, and they
\* count all rows but those it has still to count.
ImportBooks(i) ==
  /\ imp[i].pc # "posted" => evidence[i] \in UNFINISHED
  /\ imp[i].pc = "facetsPut" => imp[i].seen = RowOf("facets")
  /\ imp[i].pc = "iocsPut" => imp[i].seen = RowOf("iocs")
  /\ NoneLeft => \A t \in Table : Total(t) + Owed(i, t) = CaseRows

\* A repair or a removal that runs alone: as long as it has stopped no import it has nothing to
\* rebuild, and a rebuild counts all rows into empty tables.
MenderBooks(m) ==
  /\ mend[m].pc \in {"list", "next", "stop"} /\ mend[m].stopped = {} /\ NoneLeft =>
       \A t \in Table : Total(t) = CaseRows
  /\ mend[m].pc \in {"wipe", "facets", "facetsPut", "iocs", "iocsPut"} => mend[m].counted = CaseRows
  /\ mend[m].pc \in {"facets", "facetsPut"} => DOMAIN derived["facets"] = {}
  /\ mend[m].pc \in {"facets", "facetsPut", "iocs", "iocsPut"} => DOMAIN derived["iocs"] = {}
  /\ mend[m].pc \in {"iocs", "iocsPut"} => Total("facets") = CaseRows
  /\ mend[m].pc \in {"facetsPut", "iocsPut"} => mend[m].seen = NoRow

Books ==
  /\ \A t \in Table : OneRow(t)
  /\ Nobody /\ NoneLeft => \A t \in Table : Total(t) = CaseRows
  /\ \A i \in Import : Running(i) => ImportBooks(i)
  /\ \A m \in Mender : Mending(m) => MenderBooks(m)

TallyInv ==
  /\ DOMAIN derived = Table
  /\ IsFiniteSet(RowsIn(stored)) /\ IsFiniteSet(Active)
  /\ \A i \in Import : Tallying(i)
  /\ ~raced => Alone
  /\ ~raced /\ ~cut => Books
-----------------------------------------------------------------------------
(* Sums *)

\* The sum over one row at most.
LEMMA SumIs ==
  ASSUME NEW f, DOMAIN f \subseteq {1}, \A id \in DOMAIN f : f[id] \in Nat
  PROVE  SumOf(f) = IF DOMAIN f = {} THEN 0 ELSE f[1]
<1> DEFINE all == UNION {{id} \X (1 .. f[id]) : id \in DOMAIN f}
<1>0. SumOf(f) = Cardinality(all)
  BY DEF SumOf
<1>1. CASE DOMAIN f = {}
  <2>1. \A e : e \notin all
    BY <1>1
  <2>2. all = {}
    BY <2>1, Zenon
  <2> HIDE DEF all
  <2>3. Cardinality({}) = 0
    BY FS_EmptySet
  <2> QED BY <1>0, <1>1, <2>2, <2>3
<1>2. CASE DOMAIN f = {1}
  <2>1. all = {1} \X (1 .. f[1])
    BY <1>2
  <2> HIDE DEF all
  <2>2. f[1] \in Nat
    BY <1>2
  <2>3. IsFiniteSet(1 .. f[1]) /\ Cardinality(1 .. f[1]) = f[1]
    BY <2>2, FS_Interval
  <2>4. IsFiniteSet({1}) /\ Cardinality({1}) = 1
    BY FS_Singleton
  <2>5. Cardinality({1} \X (1 .. f[1])) = 1 * f[1]
    <3> DEFINE A == {1}
               B == 1 .. f[1]
    <3>1. IsFiniteSet(A) /\ IsFiniteSet(B)
      BY <2>3, <2>4
    <3> HIDE DEF A, B
    <3>2. Cardinality(A \X B) = Cardinality(A) * Cardinality(B)
      BY <3>1, FS_Product
    <3> QED BY <2>3, <2>4, <3>2 DEF A, B
  <2> QED BY <1>0, <1>2, <2>1, <2>2, <2>5
<1> QED BY <1>1, <1>2

\* The greatest of one number.
LEMMA MaxIs == \A n \in Nat : Max({n}) = n
BY DEF Max

\* A row put back with a higher count, or the first row: the table has one row still, and counts more.
LEMMA PutAdds ==
  ASSUME DOMAIN derived = Table, NEW t \in Table, OneRow(t), NEW n \in Nat,
         derived' = Put(t, RowOf(t), n)
  PROVE  /\ DOMAIN derived' = Table /\ \A u \in Table \ {t} : derived'[u] = derived[u]
         /\ OneRow(t)' /\ Total(t)' = Total(t) + n /\ Total(t) \in Nat
<1>0. SumOf(derived[t]) = IF DOMAIN derived[t] = {} THEN 0 ELSE derived[t][1]
  BY SumIs DEF OneRow
<1>1. CASE n = 0
  <2>1. derived' = derived
    BY <1>1 DEF Put
  <2> QED BY <1>0, <1>1, <2>1 DEF Total, OneRow
<1>2. CASE n # 0 /\ DOMAIN derived[t] = {}
  <2>1. RowOf(t).id = 0 /\ RowOf(t).n = 0
    BY <1>2 DEF RowOf, NoRow
  <2>2. Max({0} \cup DOMAIN derived[t]) = 0
    BY <1>2, MaxIs
  <2>3. derived' = [derived EXCEPT ![t] = [k \in {1} |-> n]]
    <3> DEFINE id == IF RowOf(t).id > 0 THEN RowOf(t).id ELSE Max({0} \cup DOMAIN derived[t]) + 1
    <3>0. id = 1
      BY <2>1, <2>2
    <3>1. derived' = [derived EXCEPT ![t] = [k \in DOMAIN derived[t] \cup {id} |->
                                               IF k = id THEN RowOf(t).n + n ELSE derived[t][k]]]
      BY <1>2 DEF Put
    <3> HIDE DEF id
    <3>2. [k \in DOMAIN derived[t] \cup {1} |-> IF k = 1 THEN 0 + n ELSE derived[t][k]] = [k \in {1} |-> n]
      BY <1>2
    <3> QED BY <2>1, <3>0, <3>1, <3>2
  <2>4. derived'[t] = [k \in {1} |-> n]
    BY <2>3
  <2>5. DOMAIN derived'[t] = {1} /\ derived'[t][1] = n
    BY <2>4
  <2>6. SumOf(derived'[t]) = n
    BY <2>5, SumIs
  <2> QED BY <1>0, <1>2, <2>3, <2>5, <2>6 DEF Total, OneRow
<1>3. CASE n # 0 /\ DOMAIN derived[t] # {}
  <2>0. DOMAIN derived[t] = {1} /\ derived[t][1] \in Nat
    BY <1>3 DEF OneRow
  <2>1. RowOf(t).id = 1 /\ RowOf(t).n = derived[t][1]
    BY <2>0, MaxIs DEF RowOf
  <2>3. derived' = [derived EXCEPT ![t] = [k \in DOMAIN derived[t] \cup {1} |->
                                             IF k = 1 THEN derived[t][1] + n ELSE derived[t][k]]]
    BY <1>3, <2>1 DEF Put
  <2>4. derived'[t] = [k \in DOMAIN derived[t] \cup {1} |-> IF k = 1 THEN derived[t][1] + n ELSE derived[t][k]]
    BY <2>3
  <2>5. DOMAIN derived'[t] = {1} /\ derived'[t][1] = derived[t][1] + n
    BY <2>0, <2>4
  <2>6. SumOf(derived'[t]) = derived[t][1] + n
    BY <2>0, <2>5, SumIs
  <2> QED BY <1>0, <2>0, <2>3, <2>5, <2>6 DEF Total, OneRow
<1> QED BY <1>2, <1>1, <1>3

\* A row of the case is a position under its import.
LEMMA RowsInIs ==
  ASSUME NEW s PROVE \A e : e \in RowsIn(s) <=> \E k \in Import : \E p \in s[k] : e = <<k, p>>
BY DEF RowsIn

\* More rows of one import.
LEMMA RowsAdded ==
  ASSUME Tables, NEW i \in Import, NEW B \in SUBSET Nat, IsFiniteSet(B), B \cap stored[i] = {},
         IsFiniteSet(RowsIn(stored)), stored' = [stored EXCEPT ![i] = @ \cup B]
  PROVE  IsFiniteSet(RowsIn(stored)') /\ CaseRows' = CaseRows + Cardinality(B) /\ CaseRows \in Nat
<1> DEFINE old == RowsIn(stored)
           new == {i} \X B
<1>0. CaseRows = Cardinality(old) /\ CaseRows' = Cardinality(RowsIn(stored)')
  BY DEF CaseRows
<1>1. RowsIn(stored)' = old \cup new
  <2>1. \A k \in Import : stored'[k] = IF k = i THEN stored[i] \cup B ELSE stored[k]
    BY DEF Tables
  <2>2. ASSUME NEW e PROVE e \in RowsIn(stored') <=> e \in RowsIn(stored) \cup ({i} \X B)
    <3>1. e \in RowsIn(stored') <=> \E k \in Import : \E p \in stored'[k] : e = <<k, p>>
      BY DEF RowsIn
    <3>2. e \in RowsIn(stored) <=> \E k \in Import : \E p \in stored[k] : e = <<k, p>>
      BY RowsInIs
    <3>3. e \in {i} \X B <=> \E p \in B : e = <<i, p>>
      OBVIOUS
    <3> QED BY <2>1, <3>1, <3>2, <3>3
  <2>3. RowsIn(stored') = RowsIn(stored) \cup ({i} \X B)
    BY <2>2, Zenon
  <2> QED BY <2>3
<1>2. old \cap new = {}
  BY RowsInIs
<1>3. IsFiniteSet(new) /\ Cardinality(new) = Cardinality(B) /\ Cardinality(B) \in Nat
  <2>1. IsFiniteSet({i}) /\ Cardinality({i}) = 1
    BY FS_Singleton
  <2>2. Cardinality(B) \in Nat
    BY FS_CardinalityType
  <2>3. IsFiniteSet({i} \X B) /\ Cardinality({i} \X B) = Cardinality({i}) * Cardinality(B)
    BY <2>1, FS_Product
  <2> QED BY <2>1, <2>2, <2>3
<1> HIDE DEF old, new
<1>4. IsFiniteSet(old \cup new) /\ Cardinality(old \cup new) = Cardinality(old) + Cardinality(new) - Cardinality(old \cap new)
  BY <1>3, FS_Union DEF old
<1>5. Cardinality(old \cap new) = 0 /\ Cardinality(old) \in Nat
  BY <1>2, FS_EmptySet, FS_CardinalityType DEF old, new
<1>6. IsFiniteSet(RowsIn(stored)') /\ Cardinality(RowsIn(stored)') = Cardinality(old \cup new)
  BY <1>1, <1>4, Zenon
<1>7. Cardinality(old \cup new) = Cardinality(old) + Cardinality(B)
  BY <1>3, <1>4, <1>5
<1> QED BY <1>0, <1>5, <1>6, <1>7, Zenon

\* The rows of one import gone.
LEMMA RowsGone ==
  ASSUME Tables, NEW i \in Import, IsFiniteSet(RowsIn(stored)), stored' = [stored EXCEPT ![i] = {}]
  PROVE  IsFiniteSet(RowsIn(stored)')
<1>1. \A k \in Import : stored'[k] \subseteq stored[k]
  BY DEF Tables
<1>2. RowsIn(stored)' \subseteq RowsIn(stored)
  BY <1>1 DEF RowsIn
<1> QED BY <1>2, FS_Subset
-----------------------------------------------------------------------------
(* Who runs *)

\* A finite set that is not larger than one holds one element at most.
LEMMA NotTwo ==
  ASSUME NEW S, IsFiniteSet(S), ~(Cardinality(S) > 1), NEW x \in S, NEW y \in S
  PROVE  x = y
<1>1. SUFFICES ASSUME x # y PROVE FALSE
  OBVIOUS
<1>2. IsFiniteSet({x}) /\ Cardinality({x}) = 1
  BY FS_Singleton
<1>3. Cardinality({x} \cup {y}) = 2
  <2> DEFINE T == {x}
  <2>1. IsFiniteSet(T) /\ Cardinality(T) = 1 /\ y \notin T
    BY <1>1, <1>2
  <2> HIDE DEF T
  <2>2. Cardinality(T \cup {y}) = Cardinality(T) + 1
    BY <2>1, FS_AddElement
  <2> QED BY <2>1, <2>2 DEF T
<1>4. {x} \cup {y} \in SUBSET S
  OBVIOUS
<1>5. Cardinality({x} \cup {y}) <= Cardinality(S) /\ Cardinality(S) \in Nat
  BY <1>4, FS_Subset, FS_CardinalityType
<1> QED BY <1>3, <1>5

\* Who is active, before and after a step.
LEMMA ActiveHas ==
  /\ \A i \in Import : Running(i) <=> <<"import", i>> \in Active
  /\ \A m \in Mender : Mending(m) <=> <<"mend", m>> \in Active
  /\ \A i \in Import : Running(i)' <=> <<"import", i>> \in Active'
  /\ \A m \in Mender : Mending(m)' <=> <<"mend", m>> \in Active'
BY DEF Active

\* After a step that notes no race, one runs at most.
LEMMA AloneAfter ==
  ASSUME Noting, IsFiniteSet(Active'), ~raced'
  PROVE  ~raced /\ Alone'
<1>1. ~raced /\ ~(Cardinality(Active') > 1)
  BY DEF Noting
<1>2. \A x, y \in Active' : x = y
  BY <1>1, NotTwo
<1>3. \A i, j \in Import : Running(i)' /\ Running(j)' => i = j
  BY <1>2, ActiveHas
<1>4. \A m, n \in Mender : Mending(m)' /\ Mending(n)' => m = n
  BY <1>2, ActiveHas
<1>5. \A i \in Import, m \in Mender : ~(Running(i)' /\ Mending(m)')
  BY <1>2, ActiveHas
<1> QED BY <1>1, <1>3, <1>4, <1>5 DEF Alone

\* One more at most is active after a step than before.
LEMMA ActiveGrows ==
  ASSUME IsFiniteSet(Active), NEW x,
         \A i \in Import : Running(i)' => Running(i) \/ x = <<"import", i>>,
         \A m \in Mender : Mending(m)' => Mending(m) \/ x = <<"mend", m>>
  PROVE  IsFiniteSet(Active')
<1>1. Active' \subseteq Active \cup {x}
  BY DEF Active
<1>2. IsFiniteSet(Active \cup {x})
  BY FS_AddElement
<1> QED BY <1>1, <1>2, FS_Subset

\* Every step notes a race.
LEMMA StepsNote == ASSUME ImportNext PROVE Noting
<1>1. ASSUME NEW i \in Import, Worker(i) PROVE Noting
  BY <1>1 DEF Worker, Hashed, Meta, ReceiveRow, Held, AddRows, EndOfStream, ReadDerived, flushFacets, flushIocs,
              FinishImport, WorkerEnded
<1>2. ASSUME NEW m \in Mender, MenderStep(m) PROVE Noting
  BY <1>2 DEF MenderStep, ListUnfinished, TakeLock, Stop, MarkStopped, EndOfList, clearDerivedState, RebuildScan,
              RebuildWipe, RebuildRead, RebuildPut
<1>3. ASSUME NEW i \in Import, NEW t \in Tab, StartImport(i, t) \/ RemoveEvidence(t, i) PROVE Noting
  BY <1>3 DEF StartImport, RemoveEvidence
<1>4. ASSUME NEW t \in Tab, OpenTab(t) \/ CloseTab(t) PROVE Noting
  BY <1>4 DEF OpenTab, CloseTab
<1> QED BY <1>1, <1>2, <1>3, <1>4 DEF ImportNext

\* A step that cuts no repair leaves what was cut alone.
LEMMA CutStays == ASSUME ImportNext, ~cut' PROVE ~cut
<1>1. ASSUME NEW i \in Import, Worker(i) PROVE cut' = cut
  BY <1>1 DEF Worker, Hashed, Meta, ReceiveRow, Held, AddRows, EndOfStream, ReadDerived, flushFacets, flushIocs,
              FinishImport, WorkerEnded
<1>2. ASSUME NEW m \in Mender, MenderStep(m) PROVE cut' = cut
  BY <1>2 DEF MenderStep, ListUnfinished, TakeLock, Stop, MarkStopped, EndOfList, clearDerivedState, RebuildScan,
              RebuildWipe, RebuildRead, RebuildPut
<1>3. ASSUME NEW i \in Import, NEW t \in Tab, StartImport(i, t) \/ RemoveEvidence(t, i) PROVE cut' = cut
  BY <1>3 DEF StartImport, RemoveEvidence
<1>4. ASSUME NEW t \in Tab, OpenTab(t) PROVE cut' = cut
  BY <1>4 DEF OpenTab
<1>5. ASSUME NEW t \in Tab, CloseTab(t) PROVE ~cut
  BY <1>5, Zenon DEF CloseTab
<1>6. CASE cut' = cut
  BY <1>6, Zenon
<1> QED BY <1>1, <1>2, <1>3, <1>4, <1>5, <1>6, Zenon DEF ImportNext

\* A worker's step is a step of an import that runs.
LEMMA WorkerRuns ==
  ASSUME NEW i \in Import, Worker(i)
  PROVE  Running(i)
BY DEF Worker, Hashed, Meta, ReceiveRow, Held, AddRows, EndOfStream, ReadDerived, flushFacets, flushIocs,
       FinishImport, WorkerEnded, Running

\* The active stay finitely many.
LEMMA ActiveFinite ==
  ASSUME ImportInv, IsFiniteSet(Active), ImportNext
  PROVE  IsFiniteSet(Active')
<1>0. Tables
  BY DEF ImportInv
<1>1. ASSUME NEW i \in Import, Worker(i) \/ \E t \in Tab : StartImport(i, t) PROVE IsFiniteSet(Active')
  <2>1. mend' = mend /\ \A k \in Import \ {i} : imp'[k] = imp[k]
    BY <1>1, WorkerFrame DEF Same
  <2>2. \A k \in Import : Running(k)' => Running(k) \/ <<"import", i>> = <<"import", k>>
    BY <2>1 DEF Running
  <2>3. \A m \in Mender : Mending(m)' => Mending(m) \/ <<"import", i>> = <<"mend", m>>
    BY <2>1 DEF Mending
  <2> QED BY <2>2, <2>3, ActiveGrows
<1>2. ASSUME NEW m \in Mender, imp' = imp, \A n \in Mender \ {m} : mend'[n] = mend[n] PROVE IsFiniteSet(Active')
  <2>1. \A k \in Import : Running(k)' => Running(k) \/ <<"mend", m>> = <<"import", k>>
    BY <1>2 DEF Running
  <2>2. \A n \in Mender : Mending(n)' => Mending(n) \/ <<"mend", m>> = <<"mend", n>>
    BY <1>2 DEF Mending
  <2> QED BY <2>1, <2>2, ActiveGrows
<1>3. ASSUME NEW m \in Mender, MenderStep(m) PROVE IsFiniteSet(Active')
  BY <1>2, <1>3, MenderFrame
<1>4. ASSUME NEW i \in Import, NEW t \in Tab, RemoveEvidence(t, i) PROVE IsFiniteSet(Active')
  <2>1. <<t, "remove">> \in Mender
    BY DEF Mender
  <2>2. imp' = imp /\ \A n \in Mender \ {<<t, "remove">>} : mend'[n] = mend[n]
    BY <1>0, <1>4 DEF RemoveEvidence, MendTo, Tables
  <2> QED BY <1>2, <2>1, <2>2
<1>5. ASSUME NEW t \in Tab, OpenTab(t) PROVE IsFiniteSet(Active')
  <2>1. <<t, "boot">> \in Mender
    BY DEF Mender
  <2>2. imp' = imp /\ \A n \in Mender \ {<<t, "boot">>} : mend'[n] = mend[n]
    BY <1>0, <1>5 DEF OpenTab, Tables
  <2> QED BY <1>2, <2>1, <2>2
<1>6. ASSUME NEW t \in Tab, CloseTab(t) PROVE IsFiniteSet(Active')
  <2>1. \A k \in Import : Running(k)' => Running(k) \/ 1 = <<"import", k>>
    BY <1>6 DEF CloseTab, Running, IdleImport
  <2>2. \A m \in Mender : Mending(m)' => Mending(m) \/ 1 = <<"mend", m>>
    BY <1>6 DEF CloseTab, Mending, IdleMender
  <2> QED BY <2>1, <2>2, ActiveGrows
<1> QED BY <1>1, <1>3, <1>4, <1>5, <1>6 DEF ImportNext
-----------------------------------------------------------------------------
(* What a worker counts *)

\* The rows that stay of a batch, counted by whether they have a key.
LEMMA KeptCounts ==
  ASSUME NEW i \in Import, NEW B \in SUBSET Nat, IsFiniteSet(B)
  PROVE  LET kept == {p \in B : File[i][p] \notin HeldKeys}
             keyed == {p \in kept : File[i][p] # NoKey}
         IN  Cardinality({p \in B : File[i][p] = NoKey}) + Cardinality(keyed) = Cardinality(kept)
<1> DEFINE kept == {p \in B : File[i][p] \notin HeldKeys}
           keyed == {p \in kept : File[i][p] # NoKey}
           plain == {p \in B : File[i][p] = NoKey}
<1>1. NoKey \notin HeldKeys
  BY DEF HeldKeys
<1>a. \A p : p \in plain <=> p \in kept \ keyed
  BY <1>1
<1>b. plain = kept \ keyed
  BY <1>a, Zenon
<1>c. keyed \in SUBSET kept /\ kept \in SUBSET B
  OBVIOUS
<1>2. plain = kept \ keyed /\ keyed \in SUBSET kept /\ kept \in SUBSET B
  BY <1>b, <1>c
<1> HIDE DEF keyed, plain, kept
<1>3. IsFiniteSet(kept) /\ kept \in SUBSET Nat
  BY <1>2, FS_Subset
<1>4. /\ Cardinality(keyed) + Cardinality(kept \ keyed) = Cardinality(kept)
      /\ Cardinality(keyed) \in Nat /\ Cardinality(kept \ keyed) \in Nat
  BY <1>2, <1>3, Counting
<1>5. Cardinality(plain) + Cardinality(keyed) = Cardinality(kept)
  BY <1>2, <1>4
<1> QED BY <1>5 DEF keyed, plain, kept

\* One more row of the batch is counted when it has no key.
LEMMA OneMore ==
  ASSUME NEW i \in Import, NEW B \in SUBSET Nat, IsFiniteSet(B), NEW p \in Nat, p \notin B
  PROVE  Cardinality({q \in B \cup {p} : File[i][q] = NoKey})
           = Cardinality({q \in B : File[i][q] = NoKey}) + (IF File[i][p] = NoKey THEN 1 ELSE 0)
<1> DEFINE old == {q \in B : File[i][q] = NoKey}
           new == {q \in B \cup {p} : File[i][q] = NoKey}
<1>1. IsFiniteSet(old) /\ Cardinality(old) \in Nat
  BY FS_Subset, FS_CardinalityType
<1>2. p \notin old /\ (File[i][p] = NoKey => new = old \cup {p}) /\ (File[i][p] # NoKey => new = old)
  OBVIOUS
<1> HIDE DEF old, new
<1>3. Cardinality(old \cup {p}) = Cardinality(old) + 1
  BY <1>1, <1>2, FS_AddElement
<1>4. Cardinality(new) = Cardinality(old) + (IF File[i][p] = NoKey THEN 1 ELSE 0)
  BY <1>1, <1>2, <1>3
<1> QED BY <1>4 DEF old, new

\* The worker's count is right after each of its steps.
LEMMA WorkerCounts ==
  ASSUME ImportInv, NEW i \in Import, Tallying(i), Worker(i) \/ \E t \in Tab : StartImport(i, t)
  PROVE  Tallying(i)'
<1>0. Tables /\ ImportShape(i) /\ Reading(i)
  BY DEF ImportInv
<1>a. imp[i].batch \in SUBSET Nat /\ IsFiniteSet(imp[i].batch) /\ imp[i].inserted \in Nat
  BY <1>0 DEF ImportShape, Reading
<1>b. Cardinality(imp[i].batch) \in Nat
  BY <1>a, FS_CardinalityType
<1>c. Unkeyed(i) \in SUBSET imp[i].batch
  BY DEF Unkeyed
<1>d. Cardinality(Unkeyed(i)) \in Nat
  <2>1. IsFiniteSet(Unkeyed(i))
    BY <1>a, <1>c, FS_Subset
  <2> QED BY <2>1, FS_CardinalityType
<1>e. Cardinality({}) = 0
  BY FS_EmptySet
<1>1. CASE Hashed(i) \/ \E t \in Tab : StartImport(i, t)
  <2>1. /\ imp[i].pc \in {"new", "hash"} /\ imp'[i].pc \in {"hash", "meta", "posted"}
        /\ imp'[i].counted = imp[i].counted /\ imp'[i].inserted = imp[i].inserted
    BY <1>0, <1>1 DEF Hashed, StartImport, Goto, Tables, ImportShape, ImportFields
  <2> QED BY <2>1 DEF Tallying
<1>2. CASE Meta(i)
  <2>1. /\ imp[i].pc = "meta" /\ imp'[i].pc = "stream" /\ imp'[i].batch = imp[i].batch
        /\ imp'[i].counted = imp[i].counted /\ imp'[i].inserted = imp[i].inserted
    BY <1>0, <1>2 DEF Meta, Goto, Tables, ImportShape, ImportFields
  <2>2. imp[i].batch = {}
    BY <1>0, <2>1 DEF Reading, Receiving
  <2>3. Unkeyed(i)' = {}
    BY <2>1, <2>2 DEF Unkeyed
  <2> QED BY <1>e, <2>1, <2>3 DEF Tallying
<1>3. CASE ReceiveRow(i)
  <2> DEFINE p == imp[i].pos + 1
  <2>0. /\ imp[i].pc = "stream" /\ p \in Nat
    BY <1>0, <1>3 DEF ReceiveRow, ImportShape
  <2>1. imp'[i].pc \in {"stream", "held"} /\ imp'[i].inserted = imp[i].inserted
    BY <1>0, <1>3 DEF ReceiveRow, Tables, ImportShape, ImportFields
  <2>2. \/ /\ imp'[i].batch = imp[i].batch \cup {p}
           /\ imp'[i].counted = imp[i].counted + (IF File[i][p] = NoKey THEN 1 ELSE 0)
        \/ imp'[i].batch = imp[i].batch /\ imp'[i].counted = imp[i].counted
    BY <1>0, <1>3 DEF ReceiveRow, Tables, ImportShape, ImportFields
  <2>3. p \notin imp[i].batch
    BY <1>0 DEF Reading, ImportShape
  <2> HIDE DEF p
  <2>4. Unkeyed(i)' = {q \in imp'[i].batch : File[i][q] = NoKey}
    BY DEF Unkeyed
  <2>5. imp[i].counted = imp[i].inserted + Cardinality(Unkeyed(i))
    BY <2>0 DEF Tallying
  <2>6. CASE imp'[i].batch = imp[i].batch /\ imp'[i].counted = imp[i].counted
    <3>1. Unkeyed(i)' = Unkeyed(i)
      BY <2>4, <2>6 DEF Unkeyed
    <3> QED BY <2>1, <2>5, <2>6, <3>1 DEF Tallying
  <2>7. CASE /\ imp'[i].batch = imp[i].batch \cup {p}
             /\ imp'[i].counted = imp[i].counted + (IF File[i][p] = NoKey THEN 1 ELSE 0)
    <3>1. Unkeyed(i)' = {q \in imp[i].batch \cup {p} : File[i][q] = NoKey}
      BY <2>4, <2>7
    <3>2. Unkeyed(i) = {q \in imp[i].batch : File[i][q] = NoKey}
      BY DEF Unkeyed
    <3>3. Cardinality(Unkeyed(i)') = Cardinality(Unkeyed(i)) + (IF File[i][p] = NoKey THEN 1 ELSE 0)
      BY <1>a, <2>0, <2>3, <3>1, <3>2, OneMore
    <3>4. imp'[i].counted = imp'[i].inserted + Cardinality(Unkeyed(i)')
      BY <1>a, <1>d, <2>1, <2>5, <2>7, <3>3
    <3> QED BY <2>1, <3>4 DEF Tallying
  <2> QED BY <2>2, <2>6, <2>7
<1>4. CASE Held(i)
  <2> DEFINE kept == {p \in imp[i].batch : File[i][p] \notin HeldKeys}
             keyed == {p \in kept : File[i][p] # NoKey}
  <2>1. imp[i].pc \in {"held", "heldLast"} /\ imp'[i].pc \in {"add", "addLast"} /\ imp'[i].inserted = imp[i].inserted
    BY <1>0, <1>4 DEF Held, Tables, ImportShape, ImportFields
  <2>2. imp'[i].batch = kept /\ imp'[i].counted = imp[i].counted + Cardinality(keyed)
    BY <1>0, <1>4 DEF Held, Tables, ImportShape, ImportFields
  <2>3. Cardinality({p \in imp[i].batch : File[i][p] = NoKey}) + Cardinality(keyed) = Cardinality(kept)
    BY <1>a, KeptCounts
  <2>4. IsFiniteSet(keyed)
    BY <1>a, FS_Subset
  <2>5. Cardinality(keyed) \in Nat
    BY <2>4, FS_CardinalityType
  <2> HIDE DEF kept, keyed
  <2>6. Cardinality(Unkeyed(i)) + Cardinality(keyed) = Cardinality(kept)
    BY <2>3 DEF Unkeyed
  <2>7. imp[i].counted = imp[i].inserted + Cardinality(Unkeyed(i))
    BY <2>1 DEF Tallying
  <2>8. imp'[i].counted = imp'[i].inserted + Cardinality(imp'[i].batch)
    BY <1>a, <1>d, <2>1, <2>2, <2>5, <2>6, <2>7
  <2> QED BY <2>1, <2>8 DEF Tallying
<1>5. CASE AddRows(i)
  <2>1. /\ imp[i].pc \in {"add", "addLast"} /\ imp'[i].pc \in {"stream", "facets"}
        /\ imp'[i].counted = imp[i].counted /\ imp'[i].batch = {}
        /\ imp'[i].inserted = imp[i].inserted + Cardinality(imp[i].batch)
    BY <1>0, <1>5 DEF AddRows, Tables, ImportShape, ImportFields
  <2>2. Unkeyed(i)' = {}
    BY <2>1 DEF Unkeyed
  <2>3. imp'[i].counted = imp'[i].inserted /\ imp'[i].inserted \in Nat
    BY <1>a, <1>b, <2>1 DEF Tallying
  <2> QED BY <1>e, <2>1, <2>2, <2>3 DEF Tallying
<1>6. CASE EndOfStream(i)
  <2>1. /\ imp[i].pc = "stream" /\ imp'[i].pc = "heldLast" /\ imp'[i].batch = imp[i].batch
        /\ imp'[i].counted = imp[i].counted /\ imp'[i].inserted = imp[i].inserted
    BY <1>0, <1>6 DEF EndOfStream, Goto, Tables, ImportShape, ImportFields
  <2>2. Unkeyed(i)' = Unkeyed(i)
    BY <2>1 DEF Unkeyed
  <2> QED BY <2>1, <2>2 DEF Tallying
<1>7. CASE ReadDerived(i) \/ flushFacets(i)
  <2>1. /\ imp[i].pc \in {"facets", "facetsPut", "iocs"} /\ imp'[i].pc \in {"facetsPut", "iocs", "iocsPut"}
        /\ imp'[i].counted = imp[i].counted /\ imp'[i].inserted = imp[i].inserted
    BY <1>0, <1>7 DEF ReadDerived, flushFacets, Tables, ImportShape, ImportFields
  <2> QED BY <2>1 DEF Tallying
<1>8. CASE flushIocs(i) \/ WorkerEnded(i)
  <2>1. imp'[i].pc \in {"end", "over"}
    BY <1>0, <1>8 DEF flushIocs, WorkerEnded, Tables, ImportShape, ImportFields
  <2> QED BY <2>1 DEF Tallying
<1>9. CASE FinishImport(i)
  <2>1. imp'[i].pc = "posted"
    BY <1>0, <1>9 DEF FinishImport, IdleImport, Tables, ImportShape, ImportFields
  <2> QED BY <2>1 DEF Tallying
<1> QED BY <1>1, <1>2, <1>3, <1>4, <1>5, <1>6, <1>7, <1>8, <1>9 DEF Worker
-----------------------------------------------------------------------------
(* The books of an import that runs alone *)

\* The tables stay tables, the rows finitely many.
LEMMA ShapesKept ==
  ASSUME ImportInv, ImportNext, DOMAIN derived = Table, IsFiniteSet(RowsIn(stored))
  PROVE  DOMAIN derived' = Table /\ IsFiniteSet(RowsIn(stored)')
<1>0. Tables
  BY DEF ImportInv
<1>a. \A t, seen, n : DOMAIN Put(t, seen, n) = Table
  BY DEF Put
<1>b. \A ts : DOMAIN Wiped(ts) = Table
  BY DEF Wiped
<1>1. ASSUME NEW i \in Import, Worker(i) PROVE DOMAIN derived' = Table /\ IsFiniteSet(RowsIn(stored)')
  <2>1. CASE AddRows(i)
    <3>1. stored' = [stored EXCEPT ![i] = @ \cup imp[i].batch] /\ derived' = derived
      BY <2>1 DEF AddRows
    <3>2. imp[i].batch \in SUBSET Nat /\ IsFiniteSet(imp[i].batch) /\ imp[i].batch \cap stored[i] = {}
      BY DEF ImportInv, ImportShape, Reading
    <3> QED BY <1>0, <3>1, <3>2, RowsAdded
  <2>2. CASE ~AddRows(i)
    <3>1. stored' = stored
      BY <1>1, <2>2 DEF Worker, Hashed, Meta, ReceiveRow, Held, EndOfStream, ReadDerived, flushFacets, flushIocs,
                        FinishImport, WorkerEnded
    <3>2. derived' = derived \/ \E t, seen, n : derived' = Put(t, seen, n)
      BY <1>1, <2>2 DEF Worker, Hashed, Meta, ReceiveRow, Held, EndOfStream, ReadDerived, flushFacets, flushIocs,
                        FinishImport, WorkerEnded
    <3> QED BY <1>a, <3>1, <3>2
  <2> QED BY <2>1, <2>2
<1>2. ASSUME NEW m \in Mender, MenderStep(m) PROVE DOMAIN derived' = Table /\ IsFiniteSet(RowsIn(stored)')
  <2>1. derived' = derived \/ (\E t, seen, n : derived' = Put(t, seen, n)) \/ \E ts : derived' = Wiped(ts)
    BY <1>2 DEF MenderStep, ListUnfinished, TakeLock, Stop, MarkStopped, EndOfList, clearDerivedState, RebuildScan,
                RebuildWipe, RebuildRead, RebuildPut
  <2>2. stored' = stored \/ \E i \in Import : stored' = [stored EXCEPT ![i] = {}]
    <3>1. mend[m].it \in SUBSET Import
      BY DEF ImportInv, MenderShape
    <3> QED BY <1>2, <3>1 DEF MenderStep, ListUnfinished, TakeLock, Stop, MarkStopped, EndOfList, clearDerivedState,
                              RebuildScan, RebuildWipe, RebuildRead, RebuildPut
  <2> QED BY <1>0, <1>a, <1>b, <2>1, <2>2, RowsGone
<1>3. ASSUME NEW i \in Import, NEW t \in Tab, StartImport(i, t)
      PROVE  DOMAIN derived' = Table /\ IsFiniteSet(RowsIn(stored)')
  BY <1>3 DEF StartImport
<1>4. ASSUME NEW i \in Import, NEW t \in Tab, RemoveEvidence(t, i)
      PROVE  DOMAIN derived' = Table /\ IsFiniteSet(RowsIn(stored)')
  <2>1. derived' = derived /\ stored' = [stored EXCEPT ![i] = {}]
    BY <1>4 DEF RemoveEvidence
  <2> QED BY <1>0, <2>1, RowsGone
<1>5. ASSUME NEW t \in Tab, OpenTab(t) \/ CloseTab(t) PROVE DOMAIN derived' = Table /\ IsFiniteSet(RowsIn(stored)')
  BY <1>5 DEF OpenTab, CloseTab
<1> QED BY <1>1, <1>2, <1>3, <1>4, <1>5 DEF ImportNext

\* What only import i did.
OnlyImport(i) == mend' = mend /\ \A k \in Import \ {i} : imp'[k] = imp[k] /\ evidence'[k] = evidence[k]

\* An import that ran alone: the books are right after its step when its own are.
LEMMA ImportBooksClose ==
  ASSUME NEW i \in Import, Alone, Running(i), OnlyImport(i),
         \A t \in Table : OneRow(t)',
         Running(i)' => ImportBooks(i)',
         ~Running(i)' /\ NoneLeft' => \A t \in Table : Total(t)' = CaseRows'
  PROVE  Books'
<1>1. \A k \in Import \ {i} : ~Running(k)'
  BY DEF Alone, OnlyImport, Running
<1>2. \A m \in Mender : ~Mending(m)'
  BY DEF Alone, OnlyImport, Mending
<1>3. Nobody' => ~Running(i)'
  BY DEF Nobody
<1>4. \A k \in Import : Running(k)' => ImportBooks(k)'
  BY <1>1
<1>5. \A m \in Mender : Mending(m)' => MenderBooks(m)'
  BY <1>2
<1>6. Nobody' /\ NoneLeft' => \A t \in Table : Total(t)' = CaseRows'
  BY <1>3
<1> QED BY <1>4, <1>5, <1>6 DEF Books

\* What is left unfinished after the step of an import that runs was so before.
LEMMA NoneLeftBefore ==
  ASSUME NEW i \in Import, Running(i), OnlyImport(i), NoneLeft'
  PROVE  NoneLeft
BY DEF NoneLeft, OnlyImport, Running

\* A step that moves neither rows nor tables.
LEMMA BooksRest ==
  ASSUME NEW i \in Import, Alone, Books, Running(i), Running(i)', OnlyImport(i), UNCHANGED <<stored, derived>>,
         \A t \in Table : Owed(i, t)' = Owed(i, t),
         imp'[i].pc # "posted" => evidence'[i] \in UNFINISHED,
         imp'[i].pc = "facetsPut" => imp'[i].seen = RowOf("facets"),
         imp'[i].pc = "iocsPut" => imp'[i].seen = RowOf("iocs")
  PROVE  Books'
<1>1. \A t \in Table : OneRow(t)' /\ Total(t)' = Total(t) /\ RowOf(t)' = RowOf(t)
  BY DEF Books, OneRow, Total, RowOf
<1>2. CaseRows' = CaseRows
  BY DEF CaseRows
<1>3. NoneLeft' => \A t \in Table : Total(t)' + Owed(i, t)' = CaseRows'
  <2>1. NoneLeft' => \A t \in Table : Total(t) + Owed(i, t) = CaseRows
    BY NoneLeftBefore DEF Books, ImportBooks
  <2> QED BY <1>1, <1>2, <2>1
<1>4. ImportBooks(i)'
  BY <1>1, <1>3 DEF ImportBooks, Table
<1> QED BY <1>1, <1>4, ImportBooksClose

\* A table that has one row at most counts a number of rows.
LEMMA TotalIsNat == ASSUME NEW t \in Table, OneRow(t) PROVE Total(t) \in Nat
<1>1. SumOf(derived[t]) = IF DOMAIN derived[t] = {} THEN 0 ELSE derived[t][1]
  BY SumIs DEF OneRow
<1>2. DOMAIN derived[t] # {} => derived[t][1] \in Nat
  BY DEF OneRow
<1> QED BY <1>1, <1>2 DEF Total

\* The steps of a worker before its flushes, without the write of a batch.
LEMMA ReadingBooks ==
  ASSUME ImportInv, NEW i \in Import, Tallying(i), Alone, Books, Running(i), OnlyImport(i),
         Hashed(i) \/ Meta(i) \/ ReceiveRow(i) \/ Held(i) \/ EndOfStream(i)
  PROVE  Books'
<1>0. Tables /\ ImportShape(i) /\ Keeping(i) /\ ImportBooks(i)
  BY DEF ImportInv, Books
<1>1. CASE Hashed(i)
  <2>1. UNCHANGED <<stored, derived>> /\ imp[i].pc = "hash" /\ evidence[i] \in UNFINISHED
    BY <1>0, <1>1 DEF Hashed, ImportBooks
  <2>2. \/ imp'[i].pc = "posted"
        \/ imp'[i].pc = "meta" /\ evidence'[i] = "uploading"
    BY <1>0, <1>1, <2>1 DEF Hashed, Goto, WithStatus, Tables, ImportShape, ImportFields, UNFINISHED
  <2>3. Cardinality(stored[i]) = 0
    BY <1>0, <2>1 DEF Keeping, Running, Tallying, UNFINISHED
  <2>4. \A t \in Table : Owed(i, t)' = Owed(i, t)
    BY <2>1, <2>2, <2>3 DEF Owed
  <2>5. Running(i)' /\ (imp'[i].pc # "posted" => evidence'[i] \in UNFINISHED) /\ imp'[i].pc \notin {"facetsPut", "iocsPut"}
    BY <2>2 DEF Running, UNFINISHED
  <2> QED BY <2>1, <2>4, <2>5, BooksRest
<1>2. CASE Meta(i)
  <2>1. UNCHANGED <<stored, derived>> /\ imp[i].pc = "meta" /\ imp'[i].pc = "stream" /\ evidence'[i] = "parsing"
    BY <1>0, <1>2 DEF Meta, Goto, WithStatus, Tables, ImportShape, ImportFields, ImportBooks, UNFINISHED
  <2>2. \A t \in Table : Owed(i, t)' = Owed(i, t)
    BY <2>1 DEF Owed
  <2>3. Running(i)' /\ evidence'[i] \in UNFINISHED
    BY <2>1 DEF Running, UNFINISHED
  <2> QED BY <2>1, <2>2, <2>3, BooksRest
<1>3. CASE ReceiveRow(i) \/ Held(i) \/ EndOfStream(i)
  <2>1. /\ UNCHANGED <<stored, derived, evidence>>
        /\ imp[i].pc \in {"stream", "held", "heldLast"} /\ imp'[i].pc \in {"stream", "held", "heldLast", "add", "addLast"}
    <3>1. CASE ReceiveRow(i)
      BY <1>0, <3>1 DEF ReceiveRow, Tables, ImportShape, ImportFields
    <3>2. CASE Held(i)
      BY <1>0, <3>2 DEF Held, Tables, ImportShape, ImportFields
    <3>3. CASE EndOfStream(i)
      BY <1>0, <3>3 DEF EndOfStream, Goto, Tables, ImportShape, ImportFields
    <3> QED BY <1>3, <3>1, <3>2, <3>3
  <2>2. \A t \in Table : Owed(i, t)' = Owed(i, t)
    BY <2>1 DEF Owed
  <2>3. Running(i)' /\ evidence'[i] \in UNFINISHED /\ imp'[i].pc \notin {"facetsPut", "iocsPut"}
    BY <1>0, <2>1 DEF Running, ImportBooks
  <2> QED BY <2>1, <2>2, <2>3, BooksRest
<1> QED BY <1>1, <1>2, <1>3

\* A batch is written: as many rows more are in the case, and to be counted.
LEMMA AddBooks ==
  ASSUME ImportInv, IsFiniteSet(RowsIn(stored)), NEW i \in Import, Alone, Books, Running(i), OnlyImport(i), AddRows(i)
  PROVE  Books'
<1>0. Tables /\ ImportShape(i) /\ Reading(i) /\ ImportBooks(i)
  BY DEF ImportInv, Books
<1>1. /\ imp[i].pc \in {"add", "addLast"} /\ imp'[i].pc \in {"stream", "facets"}
      /\ UNCHANGED <<derived, evidence>> /\ stored' = [stored EXCEPT ![i] = @ \cup imp[i].batch]
  BY <1>0 DEF AddRows, Tables, ImportShape, ImportFields
<1>2. /\ imp[i].batch \in SUBSET Nat /\ stored[i] \in SUBSET Nat
      /\ imp[i].batch \cap stored[i] = {} /\ stored[i] \cap imp[i].batch = {}
  BY <1>0 DEF Tables, ImportShape, Reading
<1>3. IsFiniteSet(imp[i].batch) /\ IsFiniteSet(stored[i])
  BY <1>0 DEF Reading
<1>4. Cardinality(imp[i].batch) \in Nat /\ Cardinality(stored[i]) \in Nat
  BY <1>3, FS_CardinalityType
<1>5. CaseRows' = CaseRows + Cardinality(imp[i].batch) /\ CaseRows \in Nat
  BY <1>0, <1>1, <1>2, <1>3, RowsAdded
<1>6. stored'[i] = stored[i] \cup imp[i].batch
  BY <1>0, <1>1 DEF Tables
<1>7. Cardinality(stored'[i]) = Cardinality(stored[i]) + Cardinality(imp[i].batch)
  BY <1>2, <1>3, <1>6, Counting
<1>8. \A t \in Table : Owed(i, t) = Cardinality(stored[i]) /\ Owed(i, t)' = Cardinality(stored'[i])
  BY <1>1 DEF Owed
<1>9. \A t \in Table : OneRow(t)' /\ Total(t)' = Total(t) /\ Total(t) \in Nat
  BY <1>1, TotalIsNat DEF Books, OneRow, Total
<1>10. NoneLeft' => \A t \in Table : Total(t)' + Owed(i, t)' = CaseRows'
  <2>1. NoneLeft' => \A t \in Table : Total(t) + Owed(i, t) = CaseRows
    BY <1>0, NoneLeftBefore DEF ImportBooks
  <2> QED BY <1>4, <1>5, <1>7, <1>8, <1>9, <2>1
<1>11. ImportBooks(i)'
  BY <1>0, <1>1, <1>10 DEF ImportBooks
<1>12. Running(i)'
  BY <1>1 DEF Running
<1> QED BY <1>9, <1>11, <1>12, ImportBooksClose

\* The flushes: a table is read, and gets the rows that were still to be counted.
LEMMA FlushBooks ==
  ASSUME ImportInv, DOMAIN derived = Table, NEW i \in Import, Tallying(i), Alone, Books, Running(i), OnlyImport(i),
         ReadDerived(i) \/ flushFacets(i) \/ flushIocs(i)
  PROVE  Books'
<1>0. Tables /\ ImportShape(i) /\ Reading(i) /\ Keeping(i) /\ ImportBooks(i)
  BY DEF ImportInv, Books
<1>a. evidence[i] \in UNFINISHED /\ evidence' = evidence /\ stored' = stored /\ CaseRows' = CaseRows
  BY <1>0 DEF ReadDerived, flushFacets, flushIocs, ImportBooks, CaseRows
<1>b. Cardinality(stored[i]) = imp[i].inserted /\ imp[i].inserted \in Nat
  BY <1>0, <1>a DEF Keeping, ImportShape, Running, ReadDerived, flushFacets, flushIocs, UNFINISHED
<1>c. \A t \in Table : OneRow(t) /\ Total(t) \in Nat
  BY TotalIsNat DEF Books
<1>d. NoneLeft' => \A t \in Table : Total(t) + Owed(i, t) = CaseRows
  BY <1>0, NoneLeftBefore DEF ImportBooks
<1>1. CASE ReadDerived(i)
  <2>1. /\ \/ imp[i].pc = "facets" /\ imp'[i].pc = "facetsPut" /\ imp'[i].seen = RowOf("facets")
           \/ imp[i].pc = "iocs" /\ imp'[i].pc = "iocsPut" /\ imp'[i].seen = RowOf("iocs")
        /\ derived' = derived
    BY <1>0, <1>1 DEF ReadDerived, Tables, ImportShape, ImportFields
  <2>2. \A t \in Table : Owed(i, t)' = Owed(i, t)
    BY <1>a, <2>1 DEF Owed
  <2>3. Running(i)' /\ evidence'[i] \in UNFINISHED
    BY <1>a, <2>1 DEF Running
  <2> QED BY <1>a, <2>1, <2>2, <2>3, BooksRest
<1>2. CASE flushFacets(i)
  <2>1. imp[i].pc = "facetsPut" /\ imp'[i].pc = "iocs" /\ derived' = Put("facets", imp[i].seen, imp[i].counted)
    BY <1>0, <1>2 DEF flushFacets, Tables, ImportShape, ImportFields
  <2>2. imp[i].seen = RowOf("facets") /\ imp[i].counted = imp[i].inserted /\ "facets" \in Table
    BY <1>0, <2>1 DEF ImportBooks, Tallying, Table
  <2>3. /\ \A u \in Table \ {"facets"} : derived'[u] = derived[u]
        /\ OneRow("facets")' /\ Total("facets")' = Total("facets") + imp[i].inserted
    BY <1>b, <1>c, <2>1, <2>2, PutAdds
  <2>4. \A u \in Table \ {"facets"} : OneRow(u)' /\ Total(u)' = Total(u)
    BY <1>c, <2>3 DEF OneRow, Total
  <2>5. /\ Owed(i, "facets") = imp[i].inserted /\ Owed(i, "facets")' = 0
        /\ \A u \in Table \ {"facets"} : Owed(i, u)' = Owed(i, u)
    BY <1>a, <1>b, <2>1 DEF Owed
  <2>6. NoneLeft' => \A t \in Table : Total(t)' + Owed(i, t)' = CaseRows'
    <3>1. SUFFICES ASSUME NoneLeft', NEW t \in Table PROVE Total(t)' + Owed(i, t)' = CaseRows'
      OBVIOUS
    <3>2. CASE t = "facets"
      BY <1>a, <1>b, <1>c, <1>d, <2>2, <2>3, <2>5, <3>1, <3>2
    <3>3. CASE t # "facets"
      BY <1>a, <1>d, <2>4, <2>5, <3>1, <3>3
    <3> QED BY <3>2, <3>3
  <2>7. ImportBooks(i)'
    BY <1>a, <2>1, <2>6 DEF ImportBooks
  <2>8. \A t \in Table : OneRow(t)'
    BY <2>3, <2>4
  <2>9. Running(i)'
    BY <2>1 DEF Running
  <2> QED BY <2>7, <2>8, <2>9, ImportBooksClose
<1>3. CASE flushIocs(i)
  <2>1. imp[i].pc = "iocsPut" /\ imp'[i].pc = "end" /\ derived' = Put("iocs", imp[i].seen, imp[i].counted)
    BY <1>0, <1>3 DEF flushIocs, Tables, ImportShape, ImportFields
  <2>2. imp[i].seen = RowOf("iocs") /\ imp[i].counted = imp[i].inserted /\ "iocs" \in Table
    BY <1>0, <2>1 DEF ImportBooks, Tallying, Table
  <2>3. /\ \A u \in Table \ {"iocs"} : derived'[u] = derived[u]
        /\ OneRow("iocs")' /\ Total("iocs")' = Total("iocs") + imp[i].inserted
    BY <1>b, <1>c, <2>1, <2>2, PutAdds
  <2>4. \A u \in Table \ {"iocs"} : OneRow(u)' /\ Total(u)' = Total(u) /\ u = "facets"
    BY <1>c, <2>3 DEF OneRow, Total, Table
  <2>5. /\ Owed(i, "iocs") = imp[i].inserted /\ Owed(i, "iocs")' = 0
        /\ Owed(i, "facets")' = 0 /\ Owed(i, "facets") = 0
    BY <1>a, <1>b, <2>1 DEF Owed
  <2>6. NoneLeft' => \A t \in Table : Total(t)' + Owed(i, t)' = CaseRows'
    <3>1. SUFFICES ASSUME NoneLeft', NEW t \in Table PROVE Total(t)' + Owed(i, t)' = CaseRows'
      OBVIOUS
    <3>2. CASE t = "iocs"
      BY <1>a, <1>b, <1>c, <1>d, <2>2, <2>3, <2>5, <3>1, <3>2
    <3>3. CASE t # "iocs"
      <4>1. Total(t)' = Total(t) /\ t = "facets"
        BY <2>4, <3>3
      <4> QED BY <1>a, <1>d, <2>5, <3>1, <4>1
    <3> QED BY <3>2, <3>3
  <2>7. ImportBooks(i)'
    BY <1>a, <2>1, <2>6 DEF ImportBooks
  <2>8. \A t \in Table : OneRow(t)'
    BY <2>3, <2>4
  <2>9. Running(i)'
    BY <2>1 DEF Running
  <2> QED BY <2>7, <2>8, <2>9, ImportBooksClose
<1> QED BY <1>1, <1>2, <1>3

\* The end of an import: nothing is left to count.
LEMMA EndBooks ==
  ASSUME ImportInv, IsFiniteSet(RowsIn(stored)), NEW i \in Import, Alone, Books, Running(i), OnlyImport(i),
         FinishImport(i) \/ WorkerEnded(i)
  PROVE  Books'
<1>0. Tables /\ ImportShape(i) /\ ImportBooks(i)
  BY DEF ImportInv, Books
<1>1. CASE FinishImport(i)
  <2>1. imp[i].pc = "end" /\ imp'[i].pc = "posted" /\ UNCHANGED <<stored, derived>>
    BY <1>0, <1>1 DEF FinishImport, IdleImport, Tables, ImportShape, ImportFields
  <2>2. (\A t \in Table : Owed(i, t)' = Owed(i, t)) /\ Running(i)'
    BY <2>1 DEF Owed, Running
  <2> QED BY <2>1, <2>2, BooksRest
<1>2. CASE WorkerEnded(i)
  <2>1. imp[i].pc = "posted" /\ imp'[i].pc = "over" /\ UNCHANGED <<stored, derived, evidence>>
    BY <1>0, <1>2 DEF WorkerEnded, Tables, ImportShape, ImportFields
  <2>2. \A t \in Table : OneRow(t)' /\ Total(t)' = Total(t) /\ Total(t) \in Nat /\ Owed(i, t) = 0
    BY <2>1, TotalIsNat DEF Books, OneRow, Total, Owed
  <2>3. NoneLeft' => \A t \in Table : Total(t) + Owed(i, t) = CaseRows
    BY <1>0, NoneLeftBefore DEF ImportBooks
  <2>4. CaseRows' = CaseRows /\ ~Running(i)'
    BY <2>1 DEF CaseRows, Running
  <2>5. NoneLeft' => \A t \in Table : Total(t)' = CaseRows'
    BY <2>2, <2>3, <2>4
  <2> QED BY <2>2, <2>4, <2>5, ImportBooksClose
<1> QED BY <1>1, <1>2

\* An import that starts when nothing runs finds the books right, and has nothing to count.
LEMMA StartBooks ==
  ASSUME ImportInv, NEW i \in Import, NEW t \in Tab, StartImport(i, t), Alone', Books
  PROVE  Books'
<1>0. Tables /\ ImportShape(i) /\ Begun(i)
  BY DEF ImportInv
<1>1. imp[i].pc = "new" /\ imp'[i].pc = "hash" /\ evidence'[i] = "hashing" /\ UNCHANGED <<stored, derived>>
  BY <1>0, StartFields DEF StartImport
<1>2. mend' = mend /\ \A k \in Import \ {i} : imp'[k] = imp[k] /\ evidence'[k] = evidence[k]
  BY WorkerFrame DEF Same
<1>3. Running(i)' /\ ~Running(i)
  BY <1>1 DEF Running
<1>4. \A k \in Import \ {i} : ~Running(k)' /\ ~Running(k)
  BY <1>2, <1>3 DEF Alone, Running
<1>5. \A m \in Mender : ~Mending(m)' /\ ~Mending(m)
  BY <1>2, <1>3 DEF Alone, Mending
<1>6. Nobody
  BY <1>3, <1>4, <1>5 DEF Nobody
<1>7. NoneLeft' => NoneLeft
  <2>1. evidence[i] = "none"
    BY <1>0, <1>1 DEF Begun
  <2> QED BY <1>2, <1>4, <2>1 DEF NoneLeft, UNFINISHED
<1>8. \A u \in Table : OneRow(u)' /\ Total(u)' = Total(u) /\ Total(u) \in Nat
  BY <1>1, TotalIsNat DEF Books, OneRow, Total
<1>9. \A u \in Table : Owed(i, u)' = 0
  <2>1. stored'[i] = {}
    BY <1>0, <1>1 DEF Begun
  <2> QED BY <1>1, <2>1, FS_EmptySet DEF Owed
<1>10. CaseRows' = CaseRows
  BY <1>1 DEF CaseRows
<1>11. NoneLeft' => \A u \in Table : Total(u)' + Owed(i, u)' = CaseRows'
  <2>1. NoneLeft' => \A u \in Table : Total(u) = CaseRows
    BY <1>6, <1>7 DEF Books
  <2> QED BY <1>8, <1>9, <1>10, <2>1
<1>12. ImportBooks(i)'
  BY <1>1, <1>11 DEF ImportBooks, UNFINISHED
<1>13. ~Nobody'
  BY <1>3 DEF Nobody
<1> QED BY <1>4, <1>5, <1>8, <1>12, <1>13 DEF Books
-----------------------------------------------------------------------------
(* The books of a repair or a removal that runs alone *)

\* No import runs while repair m runs alone.
LEMMA NoImports ==
  ASSUME Alone, NEW m \in Mender, Mending(m)
  PROVE  /\ \A i \in Import : ~Running(i)
         /\ \A n \in Mender \ {m} : ~Mending(n)
BY DEF Alone

\* A repair that ran alone: the books are right after its step when its own are.
LEMMA MenderBooksClose ==
  ASSUME NEW m \in Mender, Alone, Mending(m), imp' = imp, \A n \in Mender \ {m} : mend'[n] = mend[n],
         \A t \in Table : OneRow(t)',
         Mending(m)' => MenderBooks(m)',
         ~Mending(m)' /\ NoneLeft' => \A t \in Table : Total(t)' = CaseRows'
  PROVE  Books'
<1>1. \A k \in Import : ~Running(k)'
  BY NoImports DEF Running
<1>2. \A n \in Mender \ {m} : ~Mending(n)'
  BY NoImports DEF Mending
<1>3. Nobody' => ~Mending(m)'
  BY DEF Nobody
<1>4. \A k \in Import : Running(k)' => ImportBooks(k)'
  BY <1>1
<1>5. \A n \in Mender : Mending(n)' => MenderBooks(n)'
  BY <1>2
<1>6. Nobody' /\ NoneLeft' => \A t \in Table : Total(t)' = CaseRows'
  BY <1>3
<1> QED BY <1>4, <1>5, <1>6 DEF Books

\* The tables and the rows as they were: their sums are too.
LEMMA SumsSame ==
  ASSUME Books, UNCHANGED <<derived, stored>>
  PROVE  /\ \A t \in Table : OneRow(t)' /\ Total(t)' = Total(t)
         /\ CaseRows' = CaseRows
BY DEF Books, OneRow, Total, CaseRows

\* A wiped table is empty.
LEMMA WipedIs ==
  ASSUME NEW ts, derived' = Wiped(ts)
  PROVE  \A t \in Table \cap ts : DOMAIN derived'[t] = {} /\ OneRow(t)'
<1>1. \A t \in Table \cap ts : derived'[t] = <<>>
  BY DEF Wiped
<1> QED BY <1>1 DEF OneRow

\* The repair's list: nothing to rebuild until it has stopped an import.
LEMMA RepairBooks ==
  ASSUME ImportInv, NEW m \in Mender, Alone, Books, Mending(m),
         ListUnfinished(m) \/ TakeLock(m) \/ Stop(m) \/ MarkStopped(m) \/ EndOfList(m)
  PROVE  Books'
<1>0. Tables /\ MenderShape(m) /\ MenderBooks(m)
  BY DEF ImportInv, Books
<1>1. imp' = imp /\ \A n \in Mender \ {m} : mend'[n] = mend[n]
  BY MenderFrame DEF MenderStep
<1>2. CASE ListUnfinished(m) \/ TakeLock(m)
  <2>1. /\ UNCHANGED <<stored, derived, evidence>> /\ mend[m].pc \in {"list", "next"}
        /\ mend'[m].pc \in {"next", "stop"} /\ mend'[m].stopped = mend[m].stopped
    <3>1. CASE ListUnfinished(m)
      BY <1>0, <3>1 DEF ListUnfinished, Tables, MenderShape, MenderFields
    <3>2. CASE TakeLock(m)
      <4>1. PICK i \in mend[m].todo :
              mend' = [mend EXCEPT ![m].todo = @ \ {i},
                                   ![m].it = IF LockFree(i) THEN {i} ELSE {},
                                   ![m].pc = IF LockFree(i) THEN "stop" ELSE "next"]
        BY <3>2 DEF TakeLock
      <4> DEFINE pc == IF LockFree(i) THEN "stop" ELSE "next"
      <4>2. pc \in {"next", "stop"}
        OBVIOUS
      <4> HIDE DEF pc
      <4>3. mend'[m].pc = pc /\ mend'[m].stopped = mend[m].stopped
        BY <1>0, <4>1 DEF Tables, MenderShape, MenderFields, pc
      <4>4. UNCHANGED <<stored, derived, evidence>> /\ mend[m].pc = "next"
        BY <3>2 DEF TakeLock
      <4> QED BY <4>2, <4>3, <4>4
    <3> QED BY <1>2, <3>1, <3>2
  <2>2. NoneLeft' => NoneLeft
    BY <1>1, <2>1 DEF NoneLeft, Running
  <2>3. /\ \A t \in Table : OneRow(t)' /\ Total(t)' = Total(t)
        /\ CaseRows' = CaseRows
    BY <2>1, SumsSame
  <2>4. MenderBooks(m)'
    BY <1>0, <2>1, <2>2, <2>3 DEF MenderBooks
  <2>5. Mending(m)'
    BY <2>1 DEF Mending
  <2> QED BY <1>1, <2>3, <2>4, <2>5, MenderBooksClose
<1>3. CASE Stop(m)
  <2>1. derived' = derived /\ evidence' = evidence /\ mend[m].pc = "stop"
    BY <1>3 DEF Stop
  <2>2. CASE mend'[m].pc = "mark"
    <3>1. MenderBooks(m)' /\ Mending(m)'
      BY <2>2 DEF MenderBooks, Mending
    <3>2. \A t \in Table : OneRow(t)'
      BY <2>1 DEF Books, OneRow
    <3> QED BY <1>1, <3>1, <3>2, MenderBooksClose
  <2>3. CASE mend'[m].pc # "mark"
    <3>1. stored' = stored /\ mend'[m].pc = "next" /\ mend'[m].stopped = mend[m].stopped
      BY <1>0, <1>3, <2>3 DEF Stop, MendTo, Tables, MenderShape, MenderFields
    <3>2. NoneLeft' => NoneLeft
      BY <1>1, <2>1 DEF NoneLeft, Running
    <3>3. /\ \A t \in Table : OneRow(t)' /\ Total(t)' = Total(t)
          /\ CaseRows' = CaseRows
      BY <2>1, <3>1, SumsSame
    <3>4. MenderBooks(m)' /\ Mending(m)'
      BY <1>0, <2>1, <3>1, <3>2, <3>3 DEF MenderBooks, Mending
    <3> QED BY <1>1, <3>3, <3>4, MenderBooksClose
  <2> QED BY <2>2, <2>3
<1>4. CASE MarkStopped(m)
  <2>1. PICK i \in mend[m].it : mend' = [mend EXCEPT ![m].it = {}, ![m].stopped = @ \cup {i}, ![m].pc = "next"]
    BY <1>4 DEF MarkStopped
  <2>2. mend'[m].pc = "next" /\ mend'[m].stopped = mend[m].stopped \cup {i}
    BY <1>0, <2>1 DEF Tables, MenderShape, MenderFields
  <2>3. mend'[m].stopped # {}
    BY <2>2
  <2>4. derived' = derived
    BY <1>4 DEF MarkStopped
  <2>5. \A t \in Table : OneRow(t)'
    BY <2>4 DEF Books, OneRow
  <2>6. MenderBooks(m)' /\ Mending(m)'
    BY <2>2, <2>3 DEF MenderBooks, Mending
  <2> QED BY <1>1, <2>5, <2>6, MenderBooksClose
<1>5. CASE EndOfList(m)
  <2>1. /\ UNCHANGED <<stored, derived, evidence>> /\ mend[m].pc = "next"
        /\ \/ mend[m].stopped = {} /\ mend'[m].pc = "off"
           \/ mend'[m].pc = "clear"
    BY <1>0, <1>5 DEF EndOfList, IdleMender, Tables, MenderShape, MenderFields
  <2>2. NoneLeft' => NoneLeft
    BY <1>1, <2>1 DEF NoneLeft, Running
  <2>3. /\ \A t \in Table : OneRow(t)' /\ Total(t)' = Total(t)
        /\ CaseRows' = CaseRows
    BY <2>1, SumsSame
  <2>4. CASE mend[m].stopped = {} /\ mend'[m].pc = "off"
    <3>1. ~Mending(m)' /\ (NoneLeft' => \A t \in Table : Total(t)' = CaseRows')
      BY <1>0, <2>1, <2>2, <2>3, <2>4 DEF MenderBooks, Mending
    <3> QED BY <1>1, <2>3, <3>1, MenderBooksClose
  <2>5. CASE mend'[m].pc = "clear"
    <3>1. MenderBooks(m)' /\ Mending(m)'
      BY <2>5 DEF MenderBooks, Mending
    <3> QED BY <1>1, <2>3, <3>1, MenderBooksClose
  <2> QED BY <2>1, <2>4, <2>5
<1> QED BY <1>2, <1>3, <1>4, <1>5

\* The rebuild: it counts the rows, empties the tables and puts the count into each.
LEMMA RebuildBooks ==
  ASSUME ImportInv, DOMAIN derived = Table, IsFiniteSet(RowsIn(stored)),
         NEW m \in Mender, Alone, Books, Mending(m),
         clearDerivedState(m) \/ RebuildScan(m) \/ RebuildWipe(m) \/ RebuildRead(m) \/ RebuildPut(m)
  PROVE  Books'
<1>0. Tables /\ MenderShape(m) /\ MenderBooks(m)
  BY DEF ImportInv, Books
<1>1. imp' = imp /\ \A n \in Mender \ {m} : mend'[n] = mend[n]
  BY MenderFrame DEF MenderStep
<1>a. stored' = stored /\ CaseRows' = CaseRows
  BY DEF clearDerivedState, RebuildScan, RebuildWipe, RebuildRead, RebuildPut, CaseRows
<1>b. CaseRows \in Nat
  BY FS_CardinalityType DEF CaseRows
<1>c. \A t \in Table : OneRow(t)
  BY DEF Books
<1>d. "facets" \in Table /\ "iocs" \in Table /\ \A t \in Table : t = "facets" \/ t = "iocs"
  BY DEF Table
<1>2. CASE clearDerivedState(m)
  <2>1. derived' = Wiped({"facets"}) /\ mend'[m].pc = "scan"
    BY <1>0, <1>2 DEF clearDerivedState, MendTo, Tables, MenderShape, MenderFields
  <2>2. OneRow("facets")' /\ derived'["iocs"] = derived["iocs"]
    BY <1>d, <2>1, WipedIs DEF Wiped
  <2>3. \A t \in Table : OneRow(t)'
    BY <1>c, <1>d, <2>2 DEF OneRow
  <2>4. MenderBooks(m)' /\ Mending(m)'
    BY <2>1 DEF MenderBooks, Mending
  <2> QED BY <1>1, <2>3, <2>4, MenderBooksClose
<1>3. CASE RebuildScan(m)
  <2>1. derived' = derived /\ mend'[m].pc = "wipe" /\ mend'[m].counted = CaseRows
    BY <1>0, <1>3 DEF RebuildScan, Tables, MenderShape, MenderFields
  <2>2. \A t \in Table : OneRow(t)'
    BY <1>c, <2>1 DEF OneRow
  <2>3. MenderBooks(m)' /\ Mending(m)'
    BY <1>a, <2>1 DEF MenderBooks, Mending
  <2> QED BY <1>1, <2>2, <2>3, MenderBooksClose
<1>4. CASE RebuildWipe(m)
  <2>1. derived' = Wiped(Table) /\ mend[m].pc = "wipe" /\ mend'[m].pc = "facets" /\ mend'[m].counted = mend[m].counted
    BY <1>0, <1>4 DEF RebuildWipe, MendTo, Tables, MenderShape, MenderFields
  <2>2. \A t \in Table : DOMAIN derived'[t] = {} /\ OneRow(t)'
    BY <2>1, WipedIs
  <2>3. MenderBooks(m)' /\ Mending(m)'
    BY <1>0, <1>a, <1>d, <2>1, <2>2 DEF MenderBooks, Mending
  <2> QED BY <1>1, <2>2, <2>3, MenderBooksClose
<1>5. CASE RebuildRead(m)
  <2>1. /\ derived' = derived /\ mend'[m].counted = mend[m].counted
        /\ \/ mend[m].pc = "facets" /\ mend'[m].pc = "facetsPut" /\ mend'[m].seen = RowOf("facets")
           \/ mend[m].pc = "iocs" /\ mend'[m].pc = "iocsPut" /\ mend'[m].seen = RowOf("iocs")
    BY <1>0, <1>5 DEF RebuildRead, Tables, MenderShape, MenderFields
  <2>2. mend'[m].seen = NoRow
    BY <1>0, <2>1 DEF MenderBooks, RowOf
  <2>3. \A t \in Table : OneRow(t)' /\ Total(t)' = Total(t)
    BY <1>c, <2>1 DEF OneRow, Total
  <2>4. MenderBooks(m)' /\ Mending(m)'
    BY <1>0, <1>a, <1>d, <2>1, <2>2, <2>3 DEF MenderBooks, Mending
  <2> QED BY <1>1, <2>3, <2>4, MenderBooksClose
<1>6. CASE RebuildPut(m) /\ mend[m].pc = "facetsPut"
  <2>1. /\ derived' = Put("facets", mend[m].seen, mend[m].counted) /\ mend'[m].pc = "iocs"
        /\ mend'[m].counted = mend[m].counted
    BY <1>0, <1>6 DEF RebuildPut, Tables, MenderShape, MenderFields
  <2>2. /\ mend[m].seen = RowOf("facets") /\ mend[m].counted = CaseRows
        /\ DOMAIN derived["facets"] = {} /\ DOMAIN derived["iocs"] = {}
    BY <1>0, <1>6 DEF MenderBooks, RowOf
  <2>3. Total("facets") = 0
    <3>1. SumOf(derived["facets"]) = 0
      BY <2>2, SumIs
    <3> QED BY <3>1 DEF Total
  <2>4. /\ \A u \in Table \ {"facets"} : derived'[u] = derived[u]
        /\ OneRow("facets")' /\ Total("facets")' = Total("facets") + CaseRows
    BY <1>b, <1>c, <1>d, <2>1, <2>2, PutAdds
  <2>5. derived'["iocs"] = derived["iocs"] /\ Total("facets")' = CaseRows
    BY <1>b, <1>d, <2>3, <2>4
  <2>6. \A t \in Table : OneRow(t)'
    BY <1>c, <1>d, <2>4, <2>5 DEF OneRow
  <2>7. MenderBooks(m)' /\ Mending(m)'
    BY <1>a, <2>1, <2>2, <2>5 DEF MenderBooks, Mending
  <2> QED BY <1>1, <2>6, <2>7, MenderBooksClose
<1>7. CASE RebuildPut(m) /\ mend[m].pc = "iocsPut"
  <2>1. derived' = Put("iocs", mend[m].seen, mend[m].counted) /\ mend'[m].pc = "off"
    BY <1>0, <1>7 DEF RebuildPut, IdleMender, Tables, MenderShape, MenderFields
  <2>2. /\ mend[m].seen = RowOf("iocs") /\ mend[m].counted = CaseRows
        /\ DOMAIN derived["iocs"] = {} /\ Total("facets") = CaseRows
    BY <1>0, <1>7 DEF MenderBooks, RowOf
  <2>3. Total("iocs") = 0
    <3>1. SumOf(derived["iocs"]) = 0
      BY <2>2, SumIs
    <3> QED BY <3>1 DEF Total
  <2>4. /\ \A u \in Table \ {"iocs"} : derived'[u] = derived[u]
        /\ OneRow("iocs")' /\ Total("iocs")' = Total("iocs") + CaseRows
    BY <1>b, <1>c, <1>d, <2>1, <2>2, PutAdds
  <2>5. derived'["facets"] = derived["facets"] /\ Total("iocs")' = CaseRows
    BY <1>b, <1>d, <2>3, <2>4
  <2>6. \A t \in Table : OneRow(t)' /\ Total(t)' = CaseRows
    BY <1>c, <1>d, <2>2, <2>4, <2>5 DEF OneRow, Total
  <2>7. ~Mending(m)'
    BY <2>1 DEF Mending
  <2> QED BY <1>1, <1>a, <2>6, <2>7, MenderBooksClose
<1> QED BY <1>2, <1>3, <1>4, <1>5, <1>6, <1>7 DEF RebuildPut
-----------------------------------------------------------------------------
(* Tabs and removals, and every step *)

\* A removal begins when nothing runs, and will rebuild the tables.
LEMMA RemoveBooks ==
  ASSUME ImportInv, NEW t \in Tab, NEW i \in Import, RemoveEvidence(t, i), Alone', Books
  PROVE  Books'
<1> DEFINE r == <<t, "remove">>
<1>0. Tables /\ r \in Mender /\ MenderShape(r)
  BY DEF ImportInv, Mender
<1>1. mend' = [mend EXCEPT ![r].pc = "clear"] /\ UNCHANGED <<derived, imp>>
  BY DEF RemoveEvidence, MendTo
<1> HIDE DEF r
<1>2. mend'[r].pc = "clear"
  BY <1>0, <1>1 DEF Tables, MenderShape, MenderFields
<1>3. Mending(r)' /\ MenderBooks(r)'
  BY <1>2 DEF Mending, MenderBooks
<1>4. (\A k \in Import : ~Running(k)') /\ \A m \in Mender \ {r} : ~Mending(m)'
  BY <1>0, <1>3 DEF Alone
<1>5. \A u \in Table : OneRow(u)'
  BY <1>1 DEF Books, OneRow
<1> QED BY <1>0, <1>3, <1>4, <1>5 DEF Books, Nobody

\* A tab that starts when nothing runs finds the books right.
LEMMA OpenBooks ==
  ASSUME ImportInv, NEW t \in Tab, OpenTab(t), Alone', Books
  PROVE  Books'
<1> DEFINE b == <<t, "boot">>
<1>0. Tables /\ b \in Mender /\ MenderShape(b) /\ Repairing(b) /\ b[1] = t
  BY DEF ImportInv, Mender
<1>1. mend' = [mend EXCEPT ![b].pc = "list"] /\ UNCHANGED <<derived, stored, evidence, imp>> /\ t \notin tabs
  BY DEF OpenTab
<1> HIDE DEF b
<1>2. /\ mend'[b].pc = "list"
      /\ \A m \in Mender \ {b} : mend'[m] = mend[m]
  BY <1>0, <1>1 DEF Tables, MenderShape, MenderFields
<1>3. Mending(b)' /\ ~Mending(b)
  BY <1>0, <1>1, <1>2 DEF Mending, Repairing
<1>4. (\A k \in Import : ~Running(k)') /\ \A m \in Mender \ {b} : ~Mending(m)'
  BY <1>0, <1>3 DEF Alone
<1>5. Nobody
  BY <1>1, <1>2, <1>3, <1>4 DEF Nobody, Running, Mending
<1>6. NoneLeft' => NoneLeft
  BY <1>1 DEF NoneLeft, Running
<1>7. /\ \A u \in Table : OneRow(u)' /\ Total(u)' = Total(u)
      /\ CaseRows' = CaseRows
  BY <1>1, SumsSame
<1>8. NoneLeft' => \A u \in Table : Total(u)' = CaseRows'
  BY <1>5, <1>6, <1>7 DEF Books
<1>9. MenderBooks(b)'
  BY <1>2, <1>8 DEF MenderBooks
<1> QED BY <1>0, <1>3, <1>4, <1>7, <1>9 DEF Books, Nobody

\* A tab that closes, and cuts no repair: what it leaves of an import is unfinished, or is all counted.
LEMMA CloseBooks ==
  ASSUME ImportInv, IsFiniteSet(RowsIn(stored)), NEW t \in Tab, CloseTab(t), Alone, Books, ~cut'
  PROVE  Books'
<1>0. Tables
  BY DEF ImportInv
<1>1. /\ UNCHANGED <<derived, stored, evidence>>
      /\ \A k \in Import : imp'[k] = IF Running(k) /\ t \in imp[k].tab
                                     THEN [IdleImport EXCEPT !.pc = "dead", !.duplicates = imp[k].duplicates]
                                     ELSE imp[k]
      /\ \A m \in Mender : mend'[m] = IF m[1] = t THEN IdleMender ELSE mend[m]
  BY DEF CloseTab
<1>2. \A m \in Mender : m[1] = t => ~Mending(m)
  BY Zenon DEF CloseTab
<1>3. \A m \in Mender : Mending(m)' => Mending(m) /\ mend'[m] = mend[m]
  <2>1. IdleMender.pc = "off"
    BY DEF IdleMender
  <2>2. ASSUME NEW m \in Mender, Mending(m)' PROVE Mending(m) /\ mend'[m] = mend[m]
    <3>1. mend'[m].pc # "off"
      BY <2>2 DEF Mending
    <3>2. mend'[m] = mend[m]
      BY <1>1, <2>1, <3>1
    <3> QED BY <3>1, <3>2 DEF Mending
  <2> QED BY <2>2
<1>4. \A m \in Mender : Mending(m) => Mending(m)'
  BY <1>1, <1>2 DEF Mending
<1>5. \A k \in Import : \/ imp'[k] = imp[k] /\ Running(k)' = Running(k)
                        \/ Running(k) /\ ~Running(k)'
  BY <1>1 DEF Running, IdleImport
<1>6. NoneLeft' => NoneLeft /\ \A k \in Import : evidence[k] \in UNFINISHED => Running(k)'
  BY <1>1, <1>5 DEF NoneLeft
<1>7. /\ \A u \in Table : OneRow(u)' /\ Total(u)' = Total(u)
      /\ CaseRows' = CaseRows
  BY <1>1, SumsSame
<1>8. \A u \in Table : RowOf(u)' = RowOf(u)
  BY <1>1 DEF RowOf
<1>9. \A k \in Import, u \in Table : imp'[k] = imp[k] => Owed(k, u)' = Owed(k, u)
  BY <1>1 DEF Owed
<1>10. ASSUME NEW k \in Import, Running(k)' PROVE ImportBooks(k)'
  <2>1. imp'[k] = imp[k] /\ Running(k) /\ ImportBooks(k)
    BY <1>5, <1>10 DEF Books
  <2>2. NoneLeft' => \A u \in Table : Total(u)' + Owed(k, u)' = CaseRows'
    BY <1>6, <1>7, <1>9, <2>1 DEF ImportBooks
  <2> QED BY <1>1, <1>8, <2>1, <2>2 DEF ImportBooks, Table
<1>11. ASSUME NEW m \in Mender, Mending(m)' PROVE MenderBooks(m)'
  <2>1. mend'[m] = mend[m] /\ MenderBooks(m)
    BY <1>3, <1>11 DEF Books
  <2> QED BY <1>1, <1>6, <1>7, <2>1 DEF MenderBooks, Table
<1>12. ASSUME Nobody', NoneLeft' PROVE \A u \in Table : Total(u)' = CaseRows'
  <2>1. \A m \in Mender : ~Mending(m)
    BY <1>4, <1>12 DEF Nobody
  <2>2. CASE \A k \in Import : ~Running(k)
    BY <1>6, <1>7, <1>12, <2>1, <2>2 DEF Books, Nobody
  <2>3. ASSUME NEW k \in Import, Running(k) PROVE \A u \in Table : Total(u)' = CaseRows'
    <3>1. ~Running(k)' /\ ImportBooks(k)
      BY <1>12, <2>3 DEF Nobody, Books
    <3>2. imp[k].pc = "posted"
      BY <1>6, <1>12, <3>1 DEF ImportBooks
    <3>3. \A u \in Table : Total(u) + Owed(k, u) = CaseRows /\ Owed(k, u) = 0 /\ Total(u) \in Nat
      BY <1>6, <1>12, <3>1, <3>2, TotalIsNat DEF ImportBooks, Books, Owed
    <3> QED BY <1>7, <3>3
  <2> QED BY <2>2, <2>3
<1> QED BY <1>7, <1>10, <1>11, <1>12 DEF Books

\* While one at a time runs and no repair is cut, every step keeps the books.
LEMMA BooksKept ==
  ASSUME ImportInv, TallyInv, ImportNext, Alone, Alone', Books, ~cut'
  PROVE  Books'
<1>0. DOMAIN derived = Table /\ IsFiniteSet(RowsIn(stored)) /\ \A i \in Import : Tallying(i)
  BY DEF TallyInv
<1>1. ASSUME NEW i \in Import, Worker(i) PROVE Books'
  <2>1. Running(i) /\ OnlyImport(i)
    BY <1>1, WorkerRuns, WorkerFrame DEF OnlyImport, Same
  <2> QED BY <1>0, <1>1, <2>1, ReadingBooks, AddBooks, FlushBooks, EndBooks DEF Worker
<1>2. ASSUME NEW m \in Mender, MenderStep(m) PROVE Books'
  <2>1. Mending(m)
    BY <1>2, MenderFrame DEF Mending
  <2> QED BY <1>0, <1>2, <2>1, RepairBooks, RebuildBooks DEF MenderStep
<1>3. ASSUME NEW i \in Import, NEW t \in Tab, StartImport(i, t) PROVE Books'
  BY <1>3, StartBooks
<1>4. ASSUME NEW i \in Import, NEW t \in Tab, RemoveEvidence(t, i) PROVE Books'
  BY <1>4, RemoveBooks
<1>5. ASSUME NEW t \in Tab, OpenTab(t) PROVE Books'
  BY <1>5, OpenBooks
<1>6. ASSUME NEW t \in Tab, CloseTab(t) PROVE Books'
  BY <1>0, <1>6, CloseBooks
<1> QED BY <1>1, <1>2, <1>3, <1>4, <1>5, <1>6 DEF ImportNext

\* Every worker's count stays right.
LEMMA TallyingKept ==
  ASSUME ImportInv, ImportNext, NEW k \in Import, Tallying(k)
  PROVE  Tallying(k)'
<1>1. CASE imp'[k] = imp[k]
  BY <1>1 DEF Tallying, Unkeyed
<1>2. ASSUME NEW i \in Import, Worker(i) \/ \E t \in Tab : StartImport(i, t) PROVE Tallying(k)'
  <2>1. CASE k = i
    BY <1>2, <2>1, WorkerCounts
  <2>2. CASE k # i
    BY <1>1, <1>2, <2>2, WorkerFrame DEF Same
  <2> QED BY <2>1, <2>2
<1>3. ASSUME NEW m \in Mender, MenderStep(m) PROVE Tallying(k)'
  BY <1>1, <1>3, MenderFrame
<1>4. ASSUME NEW i \in Import, NEW t \in Tab, RemoveEvidence(t, i) \/ OpenTab(t) PROVE Tallying(k)'
  BY <1>1, <1>4 DEF RemoveEvidence, OpenTab
<1>5. ASSUME NEW t \in Tab, CloseTab(t) PROVE Tallying(k)'
  <2>1. imp'[k] = imp[k] \/ imp'[k].pc = "dead"
    BY <1>5 DEF CloseTab, IdleImport
  <2> QED BY <1>1, <2>1 DEF Tallying
<1> QED BY <1>2, <1>3, <1>4, <1>5 DEF ImportNext

\* The invariant holds at the start.
LEMMA TallyInvInit == ImportInit => TallyInv
<1> SUFFICES ASSUME ImportInit PROVE TallyInv
  OBVIOUS
<1>0. Tables
  BY ImportInvInit DEF ImportInv
<1>1. DOMAIN derived = Table /\ \A t \in Table : DOMAIN derived[t] = {}
  BY DEF ImportInit
<1>2. IsFiniteSet(RowsIn(stored)) /\ CaseRows = 0
  <2>1. \A e : e \notin RowsIn(stored)
    BY DEF ImportInit, RowsIn
  <2>2. RowsIn(stored) = {}
    BY <2>1, Zenon
  <2> QED BY <2>2, FS_EmptySet DEF CaseRows
<1>3. (\A i \in Import : ~Running(i)) /\ \A m \in Mender : ~Mending(m)
  BY DEF ImportInit, Running, Mending, IdleImport, IdleMender
<1>4. IsFiniteSet(Active)
  <2>1. Active = {}
    BY <1>3 DEF Active
  <2> QED BY <2>1, FS_EmptySet
<1>5. \A i \in Import : Tallying(i)
  BY DEF ImportInit, Tallying, IdleImport
<1>6. \A t \in Table : OneRow(t) /\ Total(t) = 0
  <2>1. \A t \in Table : SumOf(derived[t]) = 0
    BY <1>1, SumIs
  <2> QED BY <1>1, <2>1 DEF OneRow, Total
<1>7. Alone /\ Books
  BY <1>2, <1>3, <1>6 DEF Alone, Books
<1> QED BY <1>1, <1>2, <1>4, <1>5, <1>7 DEF TallyInv

\* Every step keeps the invariant.
LEMMA TallyInvStep == ImportInv /\ TallyInv /\ [ImportNext]_importVars => TallyInv'
<1> SUFFICES ASSUME ImportInv, TallyInv, [ImportNext]_importVars PROVE TallyInv'
  OBVIOUS
<1>1. CASE ImportNext
  <2>1. DOMAIN derived' = Table /\ IsFiniteSet(RowsIn(stored)')
    BY <1>1, ShapesKept DEF TallyInv
  <2>2. IsFiniteSet(Active')
    BY <1>1, ActiveFinite DEF TallyInv
  <2>3. \A i \in Import : Tallying(i)'
    BY <1>1, TallyingKept DEF TallyInv
  <2>4. ~raced' => ~raced /\ Alone'
    BY <1>1, <2>2, StepsNote, AloneAfter
  <2>5. ASSUME ~raced', ~cut' PROVE Books'
    <3>1. Alone /\ Alone' /\ ~cut
      BY <1>1, <2>4, <2>5, CutStays, Zenon DEF TallyInv
    <3>2. Books
      BY <2>4, <2>5, <3>1, Zenon DEF TallyInv
    <3> QED BY <1>1, <2>5, <3>1, <3>2, BooksKept
  <2> QED BY <2>1, <2>2, <2>3, <2>4, <2>5, Zenon DEF TallyInv
<1>2. CASE UNCHANGED importVars
  <2>1. UNCHANGED <<tabs, evidence, count, stored, derived, imp, mend, raced, cut>>
    BY <1>2 DEF importVars
  <2>2. DOMAIN derived' = Table /\ IsFiniteSet(RowsIn(stored)')
    BY <2>1 DEF TallyInv
  <2>3. (\A i \in Import : Running(i)' = Running(i)) /\ \A m \in Mender : Mending(m)' = Mending(m)
    BY <2>1 DEF Running, Mending
  <2>4. IsFiniteSet(Active')
    BY <2>1, <2>3 DEF TallyInv, Active
  <2>5. \A i \in Import : Tallying(i)'
    BY <2>1 DEF TallyInv, Tallying, Unkeyed
  <2>6. Alone => Alone'
    BY <2>3 DEF Alone
  <2>7. Books => Books'
    BY <2>1, <2>3 DEF Books, OneRow, Nobody, NoneLeft, Total, CaseRows, ImportBooks, MenderBooks, Owed, RowOf
  <2> QED BY <2>1, <2>2, <2>4, <2>5, <2>6, <2>7, Zenon DEF TallyInv
<1> QED BY <1>1, <1>2

\* Whatever tabs open and close, imports end or are cut, repairs and removals rebuild: while one at a
\* time runs and no rebuild is cut, ingest.worker.ts leaves facets and indicators that count the rows of
\* the case, each once, for any files, any batch size and any number of tabs.
THEOREM DerivedTablesMatch == ImportSpec => []DerivedMatchesRows
<1>1. ImportInit => TallyInv
  BY TallyInvInit
<1>2. ImportInv /\ TallyInv /\ [ImportNext]_importVars => TallyInv'
  BY TallyInvStep
<1>3. TallyInv => DerivedMatchesRows
  <2> SUFFICES ASSUME TallyInv, Settled, ~raced, ~cut PROVE \A t \in Table : Total(t) = CaseRows
    BY DEF DerivedMatchesRows
  <2>1. Books
    BY Zenon DEF TallyInv
  <2>2. Nobody
    BY ActiveHas DEF Settled, Nobody
  <2>3. NoneLeft
    BY DEF Settled, NoneLeft
  <2> QED BY <2>1, <2>2, <2>3 DEF Books
<1> QED BY <1>1, <1>2, <1>3, ImportInvariant, PTL DEF ImportSpec
=============================================================================
