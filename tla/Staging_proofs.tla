--------------------------- MODULE Staging_proofs ---------------------------
(***************************************************************************)
(* Proofs about the staging area: for any uploads, any number of           *)
(* overlapping handlers, any sizes, chunk lengths and budget, and any      *)
(* number of crashes, the variables keep their types, the received bytes   *)
(* are on disk, a digest is that of the whole file, and no reservation is  *)
(* made behind the back of an init.                                        *)
(***************************************************************************)
EXTENDS Staging, TLAPS

-----------------------------------------------------------------------------
(* The inductive invariant *)

\* A handler that works on an upload works on one that init has handed out.
KnownInv ==
  \A h \in Handlers :
    \/ req[h].op \in {"chunk", "complete", "delete", "consume"}
    \/ req[h].pc \in {"write", "hash", "truncate", "save", "parse", "unlinkPart", "unlinkJson"}
    => req[h].up \in used

\* The holder of _reserve is the one init that counts, sweeps or creates.
LockInv ==
  \A h \in Handlers : req[h].pc \in {"staged", "pending", "sweep", "create"} => lock = h

\* No chunk reaches beyond the announced size; before init there is no byte and no size.
SizeInv ==
  \A u \in Uploads :
    /\ data[u] \subseteq Prefix(meta[u].size)
    /\ u \notin used => meta[u].size = 0

Holds(h, u) == req[h].pc \in {"write", "hash", "truncate", "save"} /\ req[h].up = u

\* What a handler is about to write back is true of the files: the size is the announced one,
\* and unless something removed a file, the bytes it counts are on disk and the digest it has
\* taken is that of the whole file.
Copy(h, u) ==
  /\ req[h].meta.size = meta[u].size
  /\ req[h].pc = "write" =>
       /\ ~req[h].meta.complete
       /\ req[h].off = req[h].meta.received
       /\ req[h].off + req[h].len <= req[h].meta.size
  /\ req[h].pc = "hash" => req[h].meta.received = req[h].meta.size
  /\ u \notin removed =>
       /\ u \in parts
       /\ Prefix(req[h].meta.received) \subseteq data[u]
       /\ req[h].pc \in {"truncate", "save"} /\ req[h].meta.complete =>
            req[h].meta.sha = Prefix(req[h].meta.size)

CopyInv == \A h \in Handlers, u \in Uploads : Holds(h, u) => Copy(h, u)

Inv ==
  /\ TypeOK
  /\ KnownInv
  /\ LockInv
  /\ SizeInv
  /\ CopyInv
  /\ ReceivedOnDisk
  /\ DigestOfWhole
  /\ NoReservationUncounted

-----------------------------------------------------------------------------
(* Types *)

\* The files a handler removes are files, and a file is the .part or the .json of an upload.
LEMMA FileTypes ==
  /\ \A u \in Uploads : Part(u) \in File /\ Json(u) \in File
  /\ \A f \in File : f[1] \in {"part", "json"} /\ f[2] \in Uploads
BY DEF Part, Json, File

\* Changes of some fields of a request keep its type.
LEMMA ReqUpdate ==
  ASSUME NEW r \in ReqRecord, NEW p \in Pcs
  PROVE  /\ [r EXCEPT !.pc = p] \in ReqRecord
         /\ [r EXCEPT !.pc = p, !.swept = TRUE] \in ReqRecord
         /\ \A d \in [Uploads -> SUBSET Nat] :
              [r EXCEPT !.pc = p, !.staged = d] \in ReqRecord
         /\ \A d \in [Uploads -> SUBSET Nat], c \in SUBSET Uploads :
              [r EXCEPT !.pc = p, !.staged = d, !.counted = c] \in ReqRecord
         /\ \A m \in Meta : [r EXCEPT !.pc = p, !.meta = m] \in ReqRecord
         /\ \A m \in Meta : [r EXCEPT !.pc = p, !.off = 0, !.len = 0, !.meta = m] \in ReqRecord
BY DEF ReqRecord

\* The request of a handler that is free.
LEMMA IdleType == Idle \in ReqRecord
<1>1. "none" \in Ops /\ "idle" \in Pcs
  BY DEF Ops, Pcs
<1>2. NoMeta \in Meta /\ NoBytes \in [Uploads -> SUBSET Nat]
  BY DEF NoMeta, Meta, NoBytes
<1> QED BY <1>1, <1>2 DEF Idle, ReqRecord

\* A request that has just arrived.
LEMMA ArriveType ==
  ASSUME NEW op \in Ops, NEW u \in Uploads \cup {Nobody}, NEW off \in Nat, NEW len \in Nat
  PROVE  [Idle EXCEPT !.op = op, !.pc = "start", !.up = u, !.off = off, !.len = len] \in ReqRecord
<1>1. "start" \in Pcs
  BY DEF Pcs
<1> QED BY <1>1, IdleType DEF ReqRecord

\* A request that is answered.
LEMMA ReplyType ==
  ASSUME NEW u \in Uploads \cup {Nobody}, NEW n \in Nat
  PROVE  Reply(u, n) \in ReqRecord
<1>1. "reply" \in Pcs
  BY DEF Pcs
<1> QED BY <1>1, IdleType DEF Reply, ReqRecord

\* A step that changes one request to another keeps the type.
LEMMA OneRequest ==
  ASSUME ReqTypeOK, NEW h \in Handlers, NEW r \in ReqRecord, req' = [req EXCEPT ![h] = r]
  PROVE  ReqTypeOK'
BY DEF ReqTypeOK

\* A handler that only moves on keeps the type.
LEMMA GotoType ==
  ASSUME ReqTypeOK, NEW h \in Handlers, NEW p \in Pcs, Goto(h, p)
  PROVE  ReqTypeOK'
<1>1. req[h] \in ReqRecord
  BY DEF ReqTypeOK
<1>2. req' = [req EXCEPT ![h] = [req[h] EXCEPT !.pc = p]]
  BY DEF Goto
<1>3. [req[h] EXCEPT !.pc = p] \in ReqRecord
  BY <1>1 DEF ReqRecord
<1> QED BY <1>2, <1>3, OneRequest

\* So does one that answers.
LEMMA AnswerType ==
  ASSUME ReqTypeOK, NEW h \in Handlers, NEW n \in Nat, Answer(h, n)
  PROVE  ReqTypeOK'
<1>1. req[h].up \in Uploads \cup {Nobody}
  BY DEF ReqTypeOK, ReqRecord
<1>2. Reply(req[h].up, n) \in ReqRecord
  BY <1>1, ReplyType
<1> QED BY <1>2, OneRequest DEF Answer

\* The upload a handler has read or will remove is one of the uploads.
LEMMA UploadKnown ==
  ASSUME FilesTypeOK, KnownInv, NEW h \in Handlers
  PROVE  \/ At(h, "chunk", "start") \/ At(h, "complete", "start") \/ At(h, "delete", "start")
         \/ req[h].pc \in {"write", "hash", "truncate", "save", "parse", "unlinkPart", "unlinkJson"}
         => req[h].up \in Uploads
BY DEF FilesTypeOK, KnownInv, At

\* A request that arrives is an init, or names an upload that init has handed out.
LEMMA RequestArrives ==
  ASSUME FilesTypeOK, NEW h \in Handlers, Request(h)
  PROVE  \E op \in Ops, u \in Uploads \cup {Nobody}, off \in Nat, len \in Nat :
           /\ Arrive(h, op, u, off, len)
           /\ op = "init" \/ u \in used
<1> DEFINE Goal == \E op \in Ops, u \in Uploads \cup {Nobody}, off \in Nat, len \in Nat :
                     Arrive(h, op, u, off, len) /\ (op = "init" \/ u \in used)
<1>1. ASSUME NEW n \in Sizes, Arrive(h, "init", Nobody, 0, n) PROVE Goal
  BY <1>1, SizesAssumption DEF Ops
<1>2. ASSUME NEW u \in used, NEW off \in 0 .. meta[u].size - 1, NEW n \in Lens,
             Arrive(h, "chunk", u, off, n)
      PROVE  Goal
  <2>1. u \in Uploads /\ off \in Nat /\ n \in Nat
    BY SizesAssumption DEF FilesTypeOK, Meta
  <2> QED BY <1>2, <2>1 DEF Ops
<1>3. ASSUME NEW u \in used, NEW op \in {"complete", "delete", "consume"}, Arrive(h, op, u, 0, 0)
      PROVE  Goal
  <2>1. u \in Uploads /\ op \in Ops
    BY DEF FilesTypeOK, Ops
  <2> QED BY <1>3, <2>1
<1> QED BY <1>1, <1>2, <1>3 DEF Request

\* The local variables of a handler keep their types.
LEMMA ReqTypeStep == Inv /\ [Next]_vars => ReqTypeOK'
<1> SUFFICES ASSUME Inv, [Next]_vars PROVE ReqTypeOK'
  OBVIOUS
<1> USE DEF Inv, TypeOK
<1>1. ASSUME NEW h \in Handlers, Request(h) PROVE ReqTypeOK'
  <2>1. PICK op \in Ops, u \in Uploads \cup {Nobody}, off \in Nat, len \in Nat :
                Arrive(h, op, u, off, len)
    BY <1>1, RequestArrives
  <2> QED BY <2>1, OneRequest, ArriveType DEF Arrive
<1>2. ASSUME NEW h \in Handlers, Respond(h) PROVE ReqTypeOK'
  BY <1>2, OneRequest, IdleType DEF Respond
<1>3. ASSUME NEW h \in Handlers, InitLock(h) PROVE ReqTypeOK'
  BY <1>3, GotoType DEF InitLock, Pcs
<1>4. ASSUME NEW h \in Handlers, InitStaged(h) PROVE ReqTypeOK'
  <2>1. [req[h] EXCEPT !.pc = "pending", !.staged = data] \in ReqRecord
    BY <1>4, ReqUpdate DEF InitStaged, At, Pcs, ReqTypeOK, FilesTypeOK
  <2>2. req' = [req EXCEPT ![h] = [req[h] EXCEPT !.pc = "pending", !.staged = data]]
    BY <1>4 DEF InitStaged
  <2> QED BY <2>1, <2>2, OneRequest
<1>5. ASSUME NEW h \in Handlers, InitFits(h) PROVE ReqTypeOK'
  <2>1. [req[h] EXCEPT !.pc = "create", !.staged = NoBytes, !.counted = used] \in ReqRecord
    BY <1>5, ReqUpdate DEF InitFits, At, Pcs, ReqTypeOK, FilesTypeOK, NoBytes
  <2>2. req' = [req EXCEPT ![h] = [req[h] EXCEPT !.pc = "create", !.staged = NoBytes, !.counted = used]]
    BY <1>5 DEF InitFits
  <2> QED BY <2>1, <2>2, OneRequest
<1>6. ASSUME NEW h \in Handlers, InitFull(h) PROVE ReqTypeOK'
  <2>1. [req[h] EXCEPT !.pc = "sweep", !.staged = NoBytes] \in ReqRecord
    BY <1>6, ReqUpdate DEF InitFull, At, Pcs, ReqTypeOK, NoBytes
  <2>2. req' = [req EXCEPT ![h] = [req[h] EXCEPT !.pc = "sweep", !.staged = NoBytes]]
    BY <1>6 DEF InitFull
  <2> QED BY <2>1, <2>2, OneRequest
<1>7. ASSUME NEW h \in Handlers, InitSwept(h) PROVE ReqTypeOK'
  <2>1. [req[h] EXCEPT !.pc = "staged", !.swept = TRUE] \in ReqRecord
    BY <1>7, ReqUpdate DEF InitSwept, At, Pcs, ReqTypeOK
  <2>2. req' = [req EXCEPT ![h] = [req[h] EXCEPT !.pc = "staged", !.swept = TRUE]]
    BY <1>7 DEF InitSwept
  <2> QED BY <2>1, <2>2, OneRequest
<1>8. ASSUME NEW h \in Handlers, InitRefused(h) PROVE ReqTypeOK'
  BY <1>8, AnswerType DEF InitRefused
<1>9. ASSUME NEW h \in Handlers, ChunkRefused(h) PROVE ReqTypeOK'
  BY <1>9, AnswerType DEF ChunkRefused, ChunkStatus, LookupStatus
<1>10. ASSUME NEW h \in Handlers, ChunkRead(h) PROVE ReqTypeOK'
  <2>1. [req[h] EXCEPT !.pc = "write", !.meta = meta[req[h].up]] \in ReqRecord
    BY <1>10, ReqUpdate, UploadKnown DEF ChunkRead, At, Pcs, ReqTypeOK, FilesTypeOK
  <2>2. req' = [req EXCEPT ![h] = [req[h] EXCEPT !.pc = "write", !.meta = meta[req[h].up]]]
    BY <1>10 DEF ChunkRead
  <2> QED BY <2>1, <2>2, OneRequest
<1>11. ASSUME NEW h \in Handlers, ChunkWrite(h) PROVE ReqTypeOK'
  <2> DEFINE m == [req[h].meta EXCEPT !.received = @ + req[h].len]
  <2> DEFINE r == [req[h] EXCEPT !.pc = "truncate", !.off = 0, !.len = 0, !.meta = m]
  <2>1. req[h] \in ReqRecord
    BY DEF ReqTypeOK
  <2>2. m \in Meta
    BY <2>1 DEF Meta, ReqRecord
  <2>3. r \in ReqRecord
    BY <2>1, <2>2, ReqUpdate DEF Pcs
  <2>4. req' = [req EXCEPT ![h] = r]
    <3>1. req' = [req EXCEPT ![h] = [req[h] EXCEPT !.pc = "truncate", !.off = 0, !.len = 0,
                                                   !.meta.received = @ + req[h].len]]
      BY <1>11 DEF ChunkWrite
    <3>2. [req[h] EXCEPT !.pc = "truncate", !.off = 0, !.len = 0,
                         !.meta.received = @ + req[h].len] = r
      BY <2>1 DEF ReqRecord
    <3> QED BY <3>1, <3>2
  <2> QED BY <2>3, <2>4, OneRequest
<1>12. ASSUME NEW h \in Handlers, CompleteRefused(h) PROVE ReqTypeOK'
  BY <1>12, AnswerType DEF CompleteRefused, CompleteStatus, LookupStatus
<1>13. ASSUME NEW h \in Handlers, CompleteRead(h) PROVE ReqTypeOK'
  <2>1. [req[h] EXCEPT !.pc = "hash", !.meta = meta[req[h].up]] \in ReqRecord
    BY <1>13, ReqUpdate, UploadKnown DEF CompleteRead, At, Pcs, ReqTypeOK, FilesTypeOK
  <2>2. req' = [req EXCEPT ![h] = [req[h] EXCEPT !.pc = "hash", !.meta = meta[req[h].up]]]
    BY <1>13 DEF CompleteRead
  <2> QED BY <2>1, <2>2, OneRequest
<1>14. ASSUME NEW h \in Handlers, CompleteHash(h) PROVE ReqTypeOK'
  <2>1. CASE req[h].up \in parts
    <3> DEFINE m == [req[h].meta EXCEPT !.complete = TRUE, !.sha = data[req[h].up]]
    <3> DEFINE r == [req[h] EXCEPT !.pc = "truncate", !.meta = m]
    <3>1. req[h] \in ReqRecord /\ req[h].meta \in Meta
      BY DEF ReqTypeOK, ReqRecord
    <3>2. data[req[h].up] \in SUBSET Nat
      BY <2>1 DEF FilesTypeOK
    <3>3. m \in Meta
      BY <3>1, <3>2 DEF Meta
    <3>4. r \in ReqRecord
      BY <3>1, <3>3, ReqUpdate DEF Pcs
    <3>5. req' = [req EXCEPT ![h] = r]
      <4>1. req' = [req EXCEPT ![h] = [req[h] EXCEPT !.pc = "truncate", !.meta.complete = TRUE,
                                                     !.meta.sha = data[req[h].up]]]
        BY <1>14, <2>1 DEF CompleteHash
      <4>2. [req[h] EXCEPT !.pc = "truncate", !.meta.complete = TRUE,
                           !.meta.sha = data[req[h].up]] = r
        BY <3>1 DEF ReqRecord
      <4> QED BY <4>1, <4>2
    <3> QED BY <3>4, <3>5, OneRequest
  <2>2. CASE req[h].up \notin parts
    BY <1>14, <2>2, AnswerType DEF CompleteHash
  <2> QED BY <2>1, <2>2
<1>15. ASSUME NEW h \in Handlers, SaveTruncate(h) PROVE ReqTypeOK'
  BY <1>15, GotoType DEF SaveTruncate, Pcs
<1>16. ASSUME NEW h \in Handlers, SaveWrite(h) PROVE ReqTypeOK'
  BY <1>16, AnswerType DEF SaveWrite
<1>17. ASSUME NEW h \in Handlers, DeleteRefused(h) PROVE ReqTypeOK'
  BY <1>17, AnswerType DEF DeleteRefused
<1>18. ASSUME NEW h \in Handlers, DeleteStart(h) PROVE ReqTypeOK'
  BY <1>18, GotoType DEF DeleteStart, Pcs
<1>19. ASSUME NEW h \in Handlers, ConsumeGet(h) PROVE ReqTypeOK'
  BY <1>19, GotoType, AnswerType DEF ConsumeGet, Pcs
<1>20. ASSUME NEW h \in Handlers, ConsumeParsed(h) PROVE ReqTypeOK'
  BY <1>20, GotoType DEF ConsumeParsed, Pcs
<1>21. ASSUME NEW h \in Handlers, DiscardPart(h) PROVE ReqTypeOK'
  BY <1>21, GotoType DEF DiscardPart, Pcs
<1>22. ASSUME NEW h \in Handlers, DiscardJson(h) PROVE ReqTypeOK'
  BY <1>22, AnswerType DEF DiscardJson
<1>23. ASSUME NEW h \in Handlers, NEW f \in File, InitSweep(h, f) PROVE ReqTypeOK'
  BY <1>23 DEF InitSweep, ReqTypeOK
<1>24. ASSUME NEW h \in Handlers, NEW u \in Uploads, InitCreate(h, u) PROVE ReqTypeOK'
  <2>1. Reply(u, 200) \in ReqRecord
    BY ReplyType
  <2>2. req' = [req EXCEPT ![h] = Reply(u, 200)]
    BY <1>24 DEF InitCreate
  <2> QED BY <2>1, <2>2, OneRequest
<1>25. ASSUME TimePasses PROVE ReqTypeOK'
  BY <1>25 DEF TimePasses, ReqTypeOK
<1>26. ASSUME NEW f \in File, SweepStat(f) PROVE ReqTypeOK'
  BY <1>26 DEF SweepStat, ReqTypeOK
<1>27. ASSUME SweepUnlink PROVE ReqTypeOK'
  BY <1>27 DEF SweepUnlink, ReqTypeOK
<1>28. ASSUME Crash PROVE ReqTypeOK'
  BY <1>28, IdleType DEF Crash, Dies, ReqTypeOK
<1>29. ASSUME UNCHANGED vars PROVE ReqTypeOK'
  BY <1>29 DEF vars, ReqTypeOK
<1> QED
  BY <1>1, <1>2, <1>3, <1>4, <1>5, <1>6, <1>7, <1>8, <1>9, <1>10, <1>11, <1>12, <1>13, <1>14, <1>15,
     <1>16, <1>17, <1>18, <1>19, <1>20, <1>21, <1>22, <1>23, <1>24, <1>25, <1>26, <1>27, <1>28, <1>29
  DEF Next, Work

\* Unlinking a file leaves nothing recorded of it.
LEMMA UnlinkType ==
  ASSUME FilesTypeOK, NEW f \in File, Unlink(f)
  PROVE  /\ parts' \subseteq Uploads /\ metas' \subseteq Uploads /\ torn' \subseteq metas'
         /\ data' \in [Uploads -> SUBSET Nat] /\ meta' = meta
         /\ stale' \subseteq File /\ removed' \subseteq Uploads
<1>1. f[2] \in Uploads
  BY FileTypes
<1>2. data' \in [Uploads -> SUBSET Nat]
  BY <1>1 DEF Unlink, FilesTypeOK
<1> QED BY <1>1, <1>2 DEF Unlink, FilesTypeOK

\* Every step keeps the types of the files, and leaves no record of one that is gone.
LEMMA FilesTypeStep == Inv /\ [Next]_vars => FilesTypeOK'
<1> SUFFICES ASSUME Inv, [Next]_vars PROVE FilesTypeOK'
  OBVIOUS
<1> USE DEF Inv, TypeOK, FilesTypeOK, files
<1>1. ASSUME NEW h \in Handlers, Request(h) PROVE FilesTypeOK'
  <2>1. PICK op \in Ops, u \in Uploads \cup {Nobody}, off \in Nat, len \in Nat :
          Arrive(h, op, u, off, len) /\ (op = "init" \/ u \in used)
    BY <1>1, RequestArrives
  <2> QED BY <2>1 DEF Arrive
<1>2. ASSUME NEW h \in Handlers, Respond(h) PROVE FilesTypeOK'
  BY <1>2 DEF Respond
<1>3. ASSUME NEW h \in Handlers, InitLock(h) PROVE FilesTypeOK'
  BY <1>3 DEF InitLock, Goto
<1>4. ASSUME NEW h \in Handlers, InitStaged(h) PROVE FilesTypeOK'
  BY <1>4 DEF InitStaged
<1>5. ASSUME NEW h \in Handlers, InitFits(h) PROVE FilesTypeOK'
  BY <1>5 DEF InitFits
<1>6. ASSUME NEW h \in Handlers, InitFull(h) PROVE FilesTypeOK'
  BY <1>6 DEF InitFull
<1>7. ASSUME NEW h \in Handlers, InitSwept(h) PROVE FilesTypeOK'
  BY <1>7 DEF InitSwept
<1>8. ASSUME NEW h \in Handlers, InitRefused(h) PROVE FilesTypeOK'
  BY <1>8 DEF InitRefused, Answer, Reply
<1>9. ASSUME NEW h \in Handlers, ChunkRefused(h) PROVE FilesTypeOK'
  BY <1>9 DEF ChunkRefused, Answer, Reply
<1>10. ASSUME NEW h \in Handlers, ChunkRead(h) PROVE FilesTypeOK'
  BY <1>10 DEF ChunkRead
<1>11. ASSUME NEW h \in Handlers, ChunkWrite(h) PROVE FilesTypeOK'
  <2> DEFINE u == req[h].up
  <2>1. u \in Uploads /\ req[h].off \in Nat /\ req[h].len \in Nat
    BY <1>11, UploadKnown DEF ChunkWrite, At, ReqTypeOK, ReqRecord
  <2>2. data' \in [Uploads -> SUBSET Nat]
    BY <1>11, <2>1 DEF ChunkWrite
  <2> QED BY <1>11, <2>1, <2>2 DEF ChunkWrite
<1>12. ASSUME NEW h \in Handlers, CompleteRefused(h) PROVE FilesTypeOK'
  BY <1>12 DEF CompleteRefused, Answer, Reply
<1>13. ASSUME NEW h \in Handlers, CompleteRead(h) PROVE FilesTypeOK'
  BY <1>13 DEF CompleteRead
<1>14. ASSUME NEW h \in Handlers, CompleteHash(h) PROVE FilesTypeOK'
  BY <1>14 DEF CompleteHash, Answer, Reply
<1>15. ASSUME NEW h \in Handlers, SaveTruncate(h) PROVE FilesTypeOK'
  <2>1. req[h].up \in Uploads
    BY <1>15, UploadKnown DEF SaveTruncate
  <2> QED BY <1>15, <2>1 DEF SaveTruncate
<1>16. ASSUME NEW h \in Handlers, SaveWrite(h) PROVE FilesTypeOK'
  <2>1. req[h].up \in Uploads /\ req[h].meta \in Meta
    BY <1>16, UploadKnown DEF SaveWrite, ReqTypeOK, ReqRecord
  <2> QED BY <1>16, <2>1 DEF SaveWrite
<1>17. ASSUME NEW h \in Handlers, DeleteRefused(h) PROVE FilesTypeOK'
  BY <1>17 DEF DeleteRefused, Answer, Reply
<1>18. ASSUME NEW h \in Handlers, DeleteStart(h) PROVE FilesTypeOK'
  BY <1>18 DEF DeleteStart, Goto
<1>19. ASSUME NEW h \in Handlers, ConsumeGet(h) PROVE FilesTypeOK'
  BY <1>19 DEF ConsumeGet, Answer, Reply, Goto
<1>20. ASSUME NEW h \in Handlers, ConsumeParsed(h) PROVE FilesTypeOK'
  BY <1>20 DEF ConsumeParsed, Goto
<1>21. ASSUME NEW h \in Handlers, DiscardPart(h) PROVE FilesTypeOK'
  <2>1. Part(req[h].up) \in File
    BY <1>21, UploadKnown, FileTypes DEF DiscardPart
  <2> QED BY <1>21, <2>1, UnlinkType DEF DiscardPart
<1>22. ASSUME NEW h \in Handlers, DiscardJson(h) PROVE FilesTypeOK'
  <2>1. Json(req[h].up) \in File
    BY <1>22, UploadKnown, FileTypes DEF DiscardJson
  <2> QED BY <1>22, <2>1, UnlinkType DEF DiscardJson
<1>23. ASSUME NEW h \in Handlers, NEW f \in File, InitSweep(h, f) PROVE FilesTypeOK'
  BY <1>23, UnlinkType DEF InitSweep
<1>24. ASSUME NEW h \in Handlers, NEW u \in Uploads, InitCreate(h, u) PROVE FilesTypeOK'
  <2>1. req[h].len \in Nat
    BY DEF ReqTypeOK, ReqRecord
  <2>2. meta' \in [Uploads -> Meta]
    BY <1>24, <2>1 DEF InitCreate, NoMeta, Meta
  <2> QED BY <1>24, <2>2 DEF InitCreate
<1>25. ASSUME TimePasses PROVE FilesTypeOK'
  BY <1>25, FileTypes DEF TimePasses
<1>26. ASSUME NEW f \in File, SweepStat(f) PROVE FilesTypeOK'
  BY <1>26 DEF SweepStat
<1>27. ASSUME SweepUnlink PROVE FilesTypeOK'
  BY <1>27, UnlinkType DEF SweepUnlink
<1>28. ASSUME Crash PROVE FilesTypeOK'
  BY <1>28 DEF Crash, Dies, HalfMade
<1>29. ASSUME UNCHANGED vars PROVE FilesTypeOK'
  BY <1>29 DEF vars
<1> QED
  BY <1>1, <1>2, <1>3, <1>4, <1>5, <1>6, <1>7, <1>8, <1>9, <1>10, <1>11, <1>12, <1>13, <1>14, <1>15,
     <1>16, <1>17, <1>18, <1>19, <1>20, <1>21, <1>22, <1>23, <1>24, <1>25, <1>26, <1>27, <1>28, <1>29
  DEF Next, Work

-----------------------------------------------------------------------------
(* Handlers: what they know of, and the lock *)

\* Requests name ids that init has handed out, and ids are never taken back.
LEMMA KnownStep == Inv /\ [Next]_vars => KnownInv'
<1> SUFFICES ASSUME Inv, [Next]_vars PROVE KnownInv'
  OBVIOUS
<1> USE DEF Inv, TypeOK, ReqTypeOK, ReqRecord, KnownInv, At
<1>1. ASSUME NEW h \in Handlers, Request(h) PROVE KnownInv'
  <2>1. PICK op \in Ops, u \in Uploads \cup {Nobody}, off \in Nat, len \in Nat :
          Arrive(h, op, u, off, len) /\ (op = "init" \/ u \in used)
    BY <1>1, RequestArrives
  <2> QED BY <2>1 DEF Arrive, Idle
<1>2. ASSUME NEW h \in Handlers, Respond(h) PROVE KnownInv'
  BY <1>2 DEF Respond, Idle
<1>3. ASSUME NEW h \in Handlers, InitLock(h) PROVE KnownInv'
  BY <1>3 DEF InitLock, Goto
<1>4. ASSUME NEW h \in Handlers, InitStaged(h) PROVE KnownInv'
  BY <1>4 DEF InitStaged
<1>5. ASSUME NEW h \in Handlers, InitFits(h) PROVE KnownInv'
  BY <1>5 DEF InitFits
<1>6. ASSUME NEW h \in Handlers, InitFull(h) PROVE KnownInv'
  BY <1>6 DEF InitFull
<1>7. ASSUME NEW h \in Handlers, InitSwept(h) PROVE KnownInv'
  BY <1>7 DEF InitSwept
<1>8. ASSUME NEW h \in Handlers, InitRefused(h) PROVE KnownInv'
  BY <1>8 DEF InitRefused, Answer, Reply, Idle
<1>9. ASSUME NEW h \in Handlers, ChunkRefused(h) PROVE KnownInv'
  BY <1>9 DEF ChunkRefused, Answer, Reply, Idle
<1>10. ASSUME NEW h \in Handlers, ChunkRead(h) PROVE KnownInv'
  BY <1>10 DEF ChunkRead
<1>11. ASSUME NEW h \in Handlers, ChunkWrite(h) PROVE KnownInv'
  BY <1>11 DEF ChunkWrite
<1>12. ASSUME NEW h \in Handlers, CompleteRefused(h) PROVE KnownInv'
  BY <1>12 DEF CompleteRefused, Answer, Reply, Idle
<1>13. ASSUME NEW h \in Handlers, CompleteRead(h) PROVE KnownInv'
  BY <1>13 DEF CompleteRead
<1>14. ASSUME NEW h \in Handlers, CompleteHash(h) PROVE KnownInv'
  <2>1. CASE (req[h].up \in parts)
    BY <1>14, <2>1 DEF CompleteHash
  <2>2. CASE ~ (req[h].up \in parts)
    <3>1. Answer(h, 500) /\ UNCHANGED <<used, lock>>
      BY <1>14, <2>2 DEF CompleteHash
    <3> QED BY <3>1 DEF Answer, Reply, Idle
  <2> QED BY <2>1, <2>2
<1>15. ASSUME NEW h \in Handlers, SaveTruncate(h) PROVE KnownInv'
  BY <1>15 DEF SaveTruncate, Goto
<1>16. ASSUME NEW h \in Handlers, SaveWrite(h) PROVE KnownInv'
  BY <1>16 DEF SaveWrite, Answer, Reply, Idle
<1>17. ASSUME NEW h \in Handlers, DeleteRefused(h) PROVE KnownInv'
  BY <1>17 DEF DeleteRefused, Answer, Reply, Idle
<1>18. ASSUME NEW h \in Handlers, DeleteStart(h) PROVE KnownInv'
  BY <1>18 DEF DeleteStart, Goto
<1>19. ASSUME NEW h \in Handlers, ConsumeGet(h) PROVE KnownInv'
  <2>1. CASE Ready(req[h].up)
    BY <1>19, <2>1 DEF ConsumeGet, Goto
  <2>2. CASE ~ Ready(req[h].up)
    <3>1. Answer(h, 404) /\ UNCHANGED <<used, lock>>
      BY <1>19, <2>2 DEF ConsumeGet
    <3> QED BY <3>1 DEF Answer, Reply, Idle
  <2> QED BY <2>1, <2>2
<1>20. ASSUME NEW h \in Handlers, ConsumeParsed(h) PROVE KnownInv'
  BY <1>20 DEF ConsumeParsed, Goto
<1>21. ASSUME NEW h \in Handlers, DiscardPart(h) PROVE KnownInv'
  BY <1>21 DEF DiscardPart, Goto
<1>22. ASSUME NEW h \in Handlers, DiscardJson(h) PROVE KnownInv'
  BY <1>22 DEF DiscardJson, Answer, Reply, Idle
<1>23. ASSUME NEW h \in Handlers, NEW f \in File, InitSweep(h, f) PROVE KnownInv'
  BY <1>23 DEF InitSweep
<1>24. ASSUME NEW h \in Handlers, NEW u \in Uploads, InitCreate(h, u) PROVE KnownInv'
  BY <1>24 DEF InitCreate, Reply, Idle
<1>25. ASSUME TimePasses PROVE KnownInv'
  BY <1>25 DEF TimePasses
<1>26. ASSUME NEW f \in File, SweepStat(f) PROVE KnownInv'
  BY <1>26 DEF SweepStat
<1>27. ASSUME SweepUnlink PROVE KnownInv'
  BY <1>27 DEF SweepUnlink
<1>28. ASSUME Crash PROVE KnownInv'
  BY <1>28 DEF Crash, Dies, Idle
<1>29. ASSUME UNCHANGED vars PROVE KnownInv'
  BY <1>29 DEF vars
<1> QED
  BY <1>1, <1>2, <1>3, <1>4, <1>5, <1>6, <1>7, <1>8, <1>9, <1>10, <1>11, <1>12, <1>13, <1>14, <1>15,
     <1>16, <1>17, <1>18, <1>19, <1>20, <1>21, <1>22, <1>23, <1>24, <1>25, <1>26, <1>27, <1>28, <1>29
  DEF Next, Work

\* A handler that answers does not hold _reserve any more.
LEMMA AnswerKeepsLock ==
  ASSUME LockInv, ReqTypeOK, NEW h \in Handlers, NEW status, Answer(h, status), UNCHANGED lock
  PROVE  LockInv'
<1>1. req'[h].pc = "reply" /\ \A g \in Handlers \ {h} : req'[g] = req[g]
  BY DEF Answer, Reply, Idle, ReqTypeOK
<1> QED BY <1>1, Zenon DEF LockInv

\* Only the holder of _reserve counts, sweeps and creates.
LEMMA LockStep == Inv /\ [Next]_vars => LockInv'
<1> SUFFICES ASSUME Inv, [Next]_vars PROVE LockInv'
  OBVIOUS
<1> USE DEF Inv, TypeOK, ReqTypeOK, ReqRecord, LockInv, At
<1>1. ASSUME NEW h \in Handlers, Request(h) PROVE LockInv'
  <2>1. PICK op \in Ops, u \in Uploads \cup {Nobody}, off \in Nat, len \in Nat :
          Arrive(h, op, u, off, len) /\ (op = "init" \/ u \in used)
    BY <1>1, RequestArrives
  <2> QED BY <2>1 DEF Arrive, Idle
<1>2. ASSUME NEW h \in Handlers, Respond(h) PROVE LockInv'
  BY <1>2 DEF Respond, Idle
<1>3. ASSUME NEW h \in Handlers, InitLock(h) PROVE LockInv'
  BY <1>3, NobodyAssumption DEF InitLock, Goto
<1>4. ASSUME NEW h \in Handlers, InitStaged(h) PROVE LockInv'
  BY <1>4, NobodyAssumption DEF InitStaged
<1>5. ASSUME NEW h \in Handlers, InitFits(h) PROVE LockInv'
  BY <1>5, NobodyAssumption DEF InitFits
<1>6. ASSUME NEW h \in Handlers, InitFull(h) PROVE LockInv'
  BY <1>6, NobodyAssumption DEF InitFull
<1>7. ASSUME NEW h \in Handlers, InitSwept(h) PROVE LockInv'
  BY <1>7, NobodyAssumption DEF InitSwept
<1>8. ASSUME NEW h \in Handlers, InitRefused(h) PROVE LockInv'
  BY <1>8 DEF InitRefused, Answer, Reply, Idle
<1>9. ASSUME NEW h \in Handlers, ChunkRefused(h) PROVE LockInv'
  BY <1>9 DEF ChunkRefused, Answer, Reply, Idle
<1>10. ASSUME NEW h \in Handlers, ChunkRead(h) PROVE LockInv'
  BY <1>10, NobodyAssumption DEF ChunkRead
<1>11. ASSUME NEW h \in Handlers, ChunkWrite(h) PROVE LockInv'
  BY <1>11, NobodyAssumption DEF ChunkWrite
<1>12. ASSUME NEW h \in Handlers, CompleteRefused(h) PROVE LockInv'
  BY <1>12 DEF CompleteRefused, Answer, Reply, Idle
<1>13. ASSUME NEW h \in Handlers, CompleteRead(h) PROVE LockInv'
  BY <1>13, NobodyAssumption DEF CompleteRead
<1>14. ASSUME NEW h \in Handlers, CompleteHash(h) PROVE LockInv'
  <2>1. CASE (req[h].up \in parts)
    BY <1>14, <2>1 DEF CompleteHash
  <2>2. CASE ~ (req[h].up \in parts)
    <3>1. Answer(h, 500) /\ UNCHANGED <<used, lock>>
      BY <1>14, <2>2 DEF CompleteHash
    <3> HIDE DEF LockInv, ReqTypeOK
    <3> QED BY <3>1, AnswerKeepsLock DEF Inv, TypeOK
  <2> QED BY <2>1, <2>2
<1>15. ASSUME NEW h \in Handlers, SaveTruncate(h) PROVE LockInv'
  BY <1>15, NobodyAssumption DEF SaveTruncate, Goto
<1>16. ASSUME NEW h \in Handlers, SaveWrite(h) PROVE LockInv'
  BY <1>16 DEF SaveWrite, Answer, Reply, Idle
<1>17. ASSUME NEW h \in Handlers, DeleteRefused(h) PROVE LockInv'
  BY <1>17 DEF DeleteRefused, Answer, Reply, Idle
<1>18. ASSUME NEW h \in Handlers, DeleteStart(h) PROVE LockInv'
  BY <1>18, NobodyAssumption DEF DeleteStart, Goto
<1>19. ASSUME NEW h \in Handlers, ConsumeGet(h) PROVE LockInv'
  <2>1. CASE Ready(req[h].up)
    <3>1. req' = [req EXCEPT ![h].pc = "parse"] /\ lock' = lock
      BY <1>19, <2>1, Zenon DEF ConsumeGet, Goto
    <3>2. req'[h].pc = "parse" /\ \A g \in Handlers \ {h} : req'[g] = req[g]
      BY <3>1
    <3> QED BY <3>1, <3>2
  <2>2. CASE ~ Ready(req[h].up)
    <3>1. Answer(h, 404) /\ UNCHANGED <<used, lock>>
      BY <1>19, <2>2 DEF ConsumeGet
    <3> HIDE DEF LockInv, ReqTypeOK
    <3> QED BY <3>1, AnswerKeepsLock DEF Inv, TypeOK
  <2> QED BY <2>1, <2>2
<1>20. ASSUME NEW h \in Handlers, ConsumeParsed(h) PROVE LockInv'
  BY <1>20, NobodyAssumption DEF ConsumeParsed, Goto
<1>21. ASSUME NEW h \in Handlers, DiscardPart(h) PROVE LockInv'
  BY <1>21 DEF DiscardPart, Goto
<1>22. ASSUME NEW h \in Handlers, DiscardJson(h) PROVE LockInv'
  BY <1>22 DEF DiscardJson, Answer, Reply, Idle
<1>23. ASSUME NEW h \in Handlers, NEW f \in File, InitSweep(h, f) PROVE LockInv'
  BY <1>23 DEF InitSweep
<1>24. ASSUME NEW h \in Handlers, NEW u \in Uploads, InitCreate(h, u) PROVE LockInv'
  BY <1>24 DEF InitCreate, Reply, Idle
<1>25. ASSUME TimePasses PROVE LockInv'
  BY <1>25, NobodyAssumption DEF TimePasses
<1>26. ASSUME NEW f \in File, SweepStat(f) PROVE LockInv'
  BY <1>26, NobodyAssumption DEF SweepStat
<1>27. ASSUME SweepUnlink PROVE LockInv'
  BY <1>27 DEF SweepUnlink
<1>28. ASSUME Crash PROVE LockInv'
  BY <1>28 DEF Crash, Dies, Idle
<1>29. ASSUME UNCHANGED vars PROVE LockInv'
  BY <1>29, NobodyAssumption DEF vars
<1> QED
  BY <1>1, <1>2, <1>3, <1>4, <1>5, <1>6, <1>7, <1>8, <1>9, <1>10, <1>11, <1>12, <1>13, <1>14, <1>15,
     <1>16, <1>17, <1>18, <1>19, <1>20, <1>21, <1>22, <1>23, <1>24, <1>25, <1>26, <1>27, <1>28, <1>29
  DEF Next, Work

\* An id is handed out by the holder of _reserve, who is the only one about to create.
LEMMA UncountedStep == Inv /\ [Next]_vars => NoReservationUncounted'
<1> SUFFICES ASSUME Inv, [Next]_vars PROVE NoReservationUncounted'
  OBVIOUS
<1> USE DEF Inv, TypeOK, ReqTypeOK, ReqRecord, LockInv, NoReservationUncounted, At
<1>1. ASSUME NEW h \in Handlers, Request(h) PROVE NoReservationUncounted'
  <2>1. PICK op \in Ops, u \in Uploads \cup {Nobody}, off \in Nat, len \in Nat :
          Arrive(h, op, u, off, len) /\ (op = "init" \/ u \in used)
    BY <1>1, RequestArrives
  <2> QED BY <2>1 DEF Arrive, Idle
<1>2. ASSUME NEW h \in Handlers, Respond(h) PROVE NoReservationUncounted'
  BY <1>2 DEF Respond, Idle
<1>3. ASSUME NEW h \in Handlers, InitLock(h) PROVE NoReservationUncounted'
  BY <1>3 DEF InitLock, Goto
<1>4. ASSUME NEW h \in Handlers, InitStaged(h) PROVE NoReservationUncounted'
  BY <1>4 DEF InitStaged
<1>5. ASSUME NEW h \in Handlers, InitFits(h) PROVE NoReservationUncounted'
  BY <1>5 DEF InitFits
<1>6. ASSUME NEW h \in Handlers, InitFull(h) PROVE NoReservationUncounted'
  BY <1>6 DEF InitFull
<1>7. ASSUME NEW h \in Handlers, InitSwept(h) PROVE NoReservationUncounted'
  BY <1>7 DEF InitSwept
<1>8. ASSUME NEW h \in Handlers, InitRefused(h) PROVE NoReservationUncounted'
  BY <1>8 DEF InitRefused, Answer, Reply, Idle
<1>9. ASSUME NEW h \in Handlers, ChunkRefused(h) PROVE NoReservationUncounted'
  BY <1>9 DEF ChunkRefused, Answer, Reply, Idle
<1>10. ASSUME NEW h \in Handlers, ChunkRead(h) PROVE NoReservationUncounted'
  BY <1>10 DEF ChunkRead
<1>11. ASSUME NEW h \in Handlers, ChunkWrite(h) PROVE NoReservationUncounted'
  BY <1>11 DEF ChunkWrite
<1>12. ASSUME NEW h \in Handlers, CompleteRefused(h) PROVE NoReservationUncounted'
  BY <1>12 DEF CompleteRefused, Answer, Reply, Idle
<1>13. ASSUME NEW h \in Handlers, CompleteRead(h) PROVE NoReservationUncounted'
  BY <1>13 DEF CompleteRead
<1>14. ASSUME NEW h \in Handlers, CompleteHash(h) PROVE NoReservationUncounted'
  <2>1. CASE (req[h].up \in parts)
    BY <1>14, <2>1 DEF CompleteHash
  <2>2. CASE ~ (req[h].up \in parts)
    <3>1. Answer(h, 500) /\ UNCHANGED <<used, lock>>
      BY <1>14, <2>2 DEF CompleteHash
    <3> QED BY <3>1 DEF Answer, Reply, Idle
  <2> QED BY <2>1, <2>2
<1>15. ASSUME NEW h \in Handlers, SaveTruncate(h) PROVE NoReservationUncounted'
  BY <1>15 DEF SaveTruncate, Goto
<1>16. ASSUME NEW h \in Handlers, SaveWrite(h) PROVE NoReservationUncounted'
  BY <1>16 DEF SaveWrite, Answer, Reply, Idle
<1>17. ASSUME NEW h \in Handlers, DeleteRefused(h) PROVE NoReservationUncounted'
  BY <1>17 DEF DeleteRefused, Answer, Reply, Idle
<1>18. ASSUME NEW h \in Handlers, DeleteStart(h) PROVE NoReservationUncounted'
  BY <1>18 DEF DeleteStart, Goto
<1>19. ASSUME NEW h \in Handlers, ConsumeGet(h) PROVE NoReservationUncounted'
  <2>1. CASE Ready(req[h].up)
    BY <1>19, <2>1 DEF ConsumeGet, Goto
  <2>2. CASE ~ Ready(req[h].up)
    <3>1. Answer(h, 404) /\ UNCHANGED <<used, lock>>
      BY <1>19, <2>2 DEF ConsumeGet
    <3> QED BY <3>1 DEF Answer, Reply, Idle
  <2> QED BY <2>1, <2>2
<1>20. ASSUME NEW h \in Handlers, ConsumeParsed(h) PROVE NoReservationUncounted'
  BY <1>20 DEF ConsumeParsed, Goto
<1>21. ASSUME NEW h \in Handlers, DiscardPart(h) PROVE NoReservationUncounted'
  BY <1>21 DEF DiscardPart, Goto
<1>22. ASSUME NEW h \in Handlers, DiscardJson(h) PROVE NoReservationUncounted'
  BY <1>22 DEF DiscardJson, Answer, Reply, Idle
<1>23. ASSUME NEW h \in Handlers, NEW f \in File, InitSweep(h, f) PROVE NoReservationUncounted'
  BY <1>23 DEF InitSweep
<1>24. ASSUME NEW h \in Handlers, NEW u \in Uploads, InitCreate(h, u) PROVE NoReservationUncounted'
  BY <1>24 DEF InitCreate, Reply, Idle
<1>25. ASSUME TimePasses PROVE NoReservationUncounted'
  BY <1>25 DEF TimePasses
<1>26. ASSUME NEW f \in File, SweepStat(f) PROVE NoReservationUncounted'
  BY <1>26 DEF SweepStat
<1>27. ASSUME SweepUnlink PROVE NoReservationUncounted'
  BY <1>27 DEF SweepUnlink
<1>28. ASSUME Crash PROVE NoReservationUncounted'
  BY <1>28 DEF Crash, Dies, Idle
<1>29. ASSUME UNCHANGED vars PROVE NoReservationUncounted'
  BY <1>29 DEF vars
<1> QED
  BY <1>1, <1>2, <1>3, <1>4, <1>5, <1>6, <1>7, <1>8, <1>9, <1>10, <1>11, <1>12, <1>13, <1>14, <1>15,
     <1>16, <1>17, <1>18, <1>19, <1>20, <1>21, <1>22, <1>23, <1>24, <1>25, <1>26, <1>27, <1>28, <1>29
  DEF Next, Work

-----------------------------------------------------------------------------
(* The files, and what handlers know of them *)

\* The steps that touch files or what is recorded of them: all others leave them alone.
LEMMA FileSteps ==
  ASSUME Inv, [Next]_vars
  PROVE  \/ UNCHANGED <<parts, data, metas, torn, meta, used, removed>>
         \/ \E h \in Handlers : ChunkWrite(h) \/ SaveTruncate(h) \/ SaveWrite(h)
         \/ \E h \in Handlers, u \in Uploads : InitCreate(h, u)
         \/ \E f \in File : Unlink(f) /\ used' = used
         \/ Crash
<1> DEFINE Goal == \/ UNCHANGED <<parts, data, metas, torn, meta, used, removed>>
                   \/ \E h \in Handlers : ChunkWrite(h) \/ SaveTruncate(h) \/ SaveWrite(h)
                   \/ \E h \in Handlers, u \in Uploads : InitCreate(h, u)
                   \/ \E f \in File : Unlink(f) /\ used' = used
                   \/ Crash
<1>1. ASSUME NEW h \in Handlers, Request(h) PROVE Goal
  <2>1. PICK op \in Ops, u \in Uploads \cup {Nobody}, off \in Nat, len \in Nat :
          Arrive(h, op, u, off, len) /\ (op = "init" \/ u \in used)
    BY <1>1, RequestArrives DEF Inv, TypeOK
  <2> QED BY <2>1 DEF Arrive, files
<1>2. ASSUME NEW h \in Handlers, Respond(h) PROVE Goal
  BY <1>2 DEF Respond, files
<1>3. ASSUME NEW h \in Handlers, InitLock(h) PROVE Goal
  BY <1>3 DEF InitLock, files
<1>4. ASSUME NEW h \in Handlers, InitStaged(h) PROVE Goal
  BY <1>4 DEF InitStaged, files
<1>5. ASSUME NEW h \in Handlers, InitFits(h) PROVE Goal
  BY <1>5 DEF InitFits, files
<1>6. ASSUME NEW h \in Handlers, InitFull(h) PROVE Goal
  BY <1>6 DEF InitFull, files
<1>7. ASSUME NEW h \in Handlers, InitSwept(h) PROVE Goal
  BY <1>7 DEF InitSwept, files
<1>8. ASSUME NEW h \in Handlers, InitRefused(h) PROVE Goal
  BY <1>8 DEF InitRefused, files
<1>9. ASSUME NEW h \in Handlers, ChunkRefused(h) PROVE Goal
  BY <1>9 DEF ChunkRefused, files
<1>10. ASSUME NEW h \in Handlers, ChunkRead(h) PROVE Goal
  BY <1>10 DEF ChunkRead, files
<1>11. ASSUME NEW h \in Handlers, ChunkWrite(h) PROVE Goal
  BY <1>11
<1>12. ASSUME NEW h \in Handlers, CompleteRefused(h) PROVE Goal
  BY <1>12 DEF CompleteRefused, files
<1>13. ASSUME NEW h \in Handlers, CompleteRead(h) PROVE Goal
  BY <1>13 DEF CompleteRead, files
<1>14. ASSUME NEW h \in Handlers, CompleteHash(h) PROVE Goal
  BY <1>14 DEF CompleteHash, files
<1>15. ASSUME NEW h \in Handlers, SaveTruncate(h) PROVE Goal
  BY <1>15
<1>16. ASSUME NEW h \in Handlers, SaveWrite(h) PROVE Goal
  BY <1>16
<1>17. ASSUME NEW h \in Handlers, DeleteRefused(h) PROVE Goal
  BY <1>17 DEF DeleteRefused, files
<1>18. ASSUME NEW h \in Handlers, DeleteStart(h) PROVE Goal
  BY <1>18 DEF DeleteStart, files
<1>19. ASSUME NEW h \in Handlers, ConsumeGet(h) PROVE Goal
  BY <1>19 DEF ConsumeGet, files
<1>20. ASSUME NEW h \in Handlers, ConsumeParsed(h) PROVE Goal
  BY <1>20 DEF ConsumeParsed, files
<1>21. ASSUME NEW h \in Handlers, DiscardPart(h) PROVE Goal
  BY <1>21, UploadKnown, FileTypes DEF DiscardPart, Inv, TypeOK
<1>22. ASSUME NEW h \in Handlers, DiscardJson(h) PROVE Goal
  BY <1>22, UploadKnown, FileTypes DEF DiscardJson, Inv, TypeOK
<1>23. ASSUME NEW h \in Handlers, NEW f \in File, InitSweep(h, f) PROVE Goal
  BY <1>23 DEF InitSweep
<1>24. ASSUME NEW h \in Handlers, NEW u \in Uploads, InitCreate(h, u) PROVE Goal
  BY <1>24
<1>25. ASSUME TimePasses PROVE Goal
  BY <1>25 DEF TimePasses, files
<1>26. ASSUME NEW f \in File, SweepStat(f) PROVE Goal
  BY <1>26 DEF SweepStat, files
<1>27. ASSUME SweepUnlink PROVE Goal
  BY <1>27 DEF SweepUnlink, Inv, TypeOK, FilesTypeOK
<1>28. ASSUME Crash PROVE Goal
  BY <1>28
<1>29. ASSUME UNCHANGED vars PROVE Goal
  BY <1>29 DEF vars, files
<1> QED
  BY <1>1, <1>2, <1>3, <1>4, <1>5, <1>6, <1>7, <1>8, <1>9, <1>10, <1>11, <1>12, <1>13, <1>14, <1>15,
     <1>16, <1>17, <1>18, <1>19, <1>20, <1>21, <1>22, <1>23, <1>24, <1>25, <1>26, <1>27, <1>28, <1>29
  DEF Next, Work

\* Nothing of an upload is lost unless one of its files is removed, and its size is settled.
LEMMA FilesKept ==
  ASSUME Inv, [Next]_vars, NEW u \in used
  PROVE  /\ u \in Uploads /\ meta'[u].size = meta[u].size
         /\ u \notin removed' => /\ u \notin removed
                                 /\ data[u] \subseteq data'[u]
                                 /\ u \in parts => u \in parts'
<1> USE DEF Inv, TypeOK, FilesTypeOK
<1> DEFINE Goal == /\ meta'[u].size = meta[u].size
                   /\ u \notin removed' => /\ u \notin removed
                                           /\ data[u] \subseteq data'[u]
                                           /\ u \in parts => u \in parts'
<1>1. u \in Uploads
  OBVIOUS
<1>2. CASE UNCHANGED <<parts, data, metas, torn, meta, used, removed>>
  BY <1>2
<1>3. ASSUME NEW h \in Handlers, ChunkWrite(h) PROVE Goal
  BY <1>1, <1>3 DEF ChunkWrite
<1>4. ASSUME NEW h \in Handlers, SaveTruncate(h) PROVE Goal
  BY <1>4 DEF SaveTruncate
<1>5. ASSUME NEW h \in Handlers, SaveWrite(h) PROVE Goal
  <2>1. parts' = parts /\ data' = data /\ removed' = removed
    BY <1>5 DEF SaveWrite
  <2>2. CASE req[h].up = u /\ u \in metas
    <3>1. Holds(h, u)
      BY <1>5, <2>2 DEF SaveWrite, Holds
    <3>2. req[h].meta.size = meta[u].size
      BY <1>1, <3>1 DEF CopyInv, Copy
    <3>3. meta'[u] = req[h].meta
      BY <1>1, <1>5, <2>2 DEF SaveWrite
    <3> QED BY <2>1, <3>2, <3>3
  <2>3. CASE ~ (req[h].up = u /\ u \in metas)
    <3>1. meta'[u] = meta[u]
      BY <1>1, <1>5, <2>3 DEF SaveWrite
    <3> QED BY <2>1, <3>1
  <2> QED BY <2>2, <2>3
<1>6. ASSUME NEW h \in Handlers, NEW v \in Uploads, InitCreate(h, v) PROVE Goal
  <2>1. v # u
    BY <1>6 DEF InitCreate
  <2> QED BY <1>1, <1>6, <2>1 DEF InitCreate
<1>7. ASSUME NEW f \in File, Unlink(f) PROVE Goal
  BY <1>1, <1>7 DEF Unlink
<1>8. CASE Crash
  BY <1>1, <1>8 DEF Crash, Dies
<1> QED BY <1>1, <1>2, <1>3, <1>4, <1>5, <1>6, <1>7, <1>8, FileSteps

\* The steps of a handler that leave it with a copy it will write back.
LEMMA CopySteps ==
  ASSUME Inv, [Next]_vars, NEW g \in Handlers,
         req'[g].pc \in {"write", "hash", "truncate", "save"}
  PROVE  \/ req'[g] = req[g]
         \/ ChunkRead(g) \/ ChunkWrite(g)
         \/ CompleteRead(g) \/ CompleteHash(g)
         \/ SaveTruncate(g)
<1> DEFINE Goal == \/ req'[g] = req[g]
                   \/ ChunkRead(g) \/ ChunkWrite(g)
                   \/ CompleteRead(g) \/ CompleteHash(g)
                   \/ SaveTruncate(g)
<1> USE DEF Inv, TypeOK, ReqTypeOK, ReqRecord, At
<1>1. ASSUME NEW h \in Handlers, Request(h) PROVE Goal
  <2>1. PICK op \in Ops, u \in Uploads \cup {Nobody}, off \in Nat, len \in Nat :
          Arrive(h, op, u, off, len) /\ (op = "init" \/ u \in used)
    BY <1>1, RequestArrives DEF Inv, TypeOK
  <2> QED BY <2>1 DEF Arrive, Idle
<1>2. ASSUME NEW h \in Handlers, Respond(h) PROVE Goal
  BY <1>2 DEF Respond, Idle
<1>3. ASSUME NEW h \in Handlers, InitLock(h) PROVE Goal
  BY <1>3 DEF InitLock, Goto
<1>4. ASSUME NEW h \in Handlers, InitStaged(h) PROVE Goal
  BY <1>4 DEF InitStaged
<1>5. ASSUME NEW h \in Handlers, InitFits(h) PROVE Goal
  BY <1>5 DEF InitFits
<1>6. ASSUME NEW h \in Handlers, InitFull(h) PROVE Goal
  BY <1>6 DEF InitFull
<1>7. ASSUME NEW h \in Handlers, InitSwept(h) PROVE Goal
  BY <1>7 DEF InitSwept
<1>8. ASSUME NEW h \in Handlers, InitRefused(h) PROVE Goal
  BY <1>8 DEF InitRefused, Answer, Reply, Idle
<1>9. ASSUME NEW h \in Handlers, ChunkRefused(h) PROVE Goal
  BY <1>9 DEF ChunkRefused, Answer, Reply, Idle
<1>10. ASSUME NEW h \in Handlers, ChunkRead(h) PROVE Goal
  BY <1>10 DEF ChunkRead
<1>11. ASSUME NEW h \in Handlers, ChunkWrite(h) PROVE Goal
  BY <1>11 DEF ChunkWrite
<1>12. ASSUME NEW h \in Handlers, CompleteRefused(h) PROVE Goal
  BY <1>12 DEF CompleteRefused, Answer, Reply, Idle
<1>13. ASSUME NEW h \in Handlers, CompleteRead(h) PROVE Goal
  BY <1>13 DEF CompleteRead
<1>14. ASSUME NEW h \in Handlers, CompleteHash(h) PROVE Goal
  <2>1. g # h => req'[g] = req[g]
    BY <1>14 DEF CompleteHash, Answer
  <2> QED BY <1>14, <2>1
<1>15. ASSUME NEW h \in Handlers, SaveTruncate(h) PROVE Goal
  BY <1>15 DEF SaveTruncate, Goto
<1>16. ASSUME NEW h \in Handlers, SaveWrite(h) PROVE Goal
  BY <1>16 DEF SaveWrite, Answer, Reply, Idle
<1>17. ASSUME NEW h \in Handlers, DeleteRefused(h) PROVE Goal
  BY <1>17 DEF DeleteRefused, Answer, Reply, Idle
<1>18. ASSUME NEW h \in Handlers, DeleteStart(h) PROVE Goal
  BY <1>18 DEF DeleteStart, Goto
<1>19. ASSUME NEW h \in Handlers, ConsumeGet(h) PROVE Goal
  <2>1. CASE Ready(req[h].up)
    BY <1>19, <2>1 DEF ConsumeGet, Goto
  <2>2. CASE ~ Ready(req[h].up)
    <3>1. Answer(h, 404) /\ UNCHANGED <<used, lock>>
      BY <1>19, <2>2 DEF ConsumeGet
    <3> QED BY <3>1 DEF Answer, Reply, Idle
  <2> QED BY <2>1, <2>2
<1>20. ASSUME NEW h \in Handlers, ConsumeParsed(h) PROVE Goal
  BY <1>20 DEF ConsumeParsed, Goto
<1>21. ASSUME NEW h \in Handlers, DiscardPart(h) PROVE Goal
  BY <1>21 DEF DiscardPart, Goto
<1>22. ASSUME NEW h \in Handlers, DiscardJson(h) PROVE Goal
  BY <1>22 DEF DiscardJson, Answer, Reply, Idle
<1>23. ASSUME NEW h \in Handlers, NEW f \in File, InitSweep(h, f) PROVE Goal
  BY <1>23 DEF InitSweep
<1>24. ASSUME NEW h \in Handlers, NEW u \in Uploads, InitCreate(h, u) PROVE Goal
  BY <1>24 DEF InitCreate, Reply, Idle
<1>25. ASSUME TimePasses PROVE Goal
  BY <1>25 DEF TimePasses
<1>26. ASSUME NEW f \in File, SweepStat(f) PROVE Goal
  BY <1>26 DEF SweepStat
<1>27. ASSUME SweepUnlink PROVE Goal
  BY <1>27 DEF SweepUnlink
<1>28. ASSUME Crash PROVE Goal
  BY <1>28 DEF Crash, Dies, Idle
<1>29. ASSUME UNCHANGED vars PROVE Goal
  BY <1>29 DEF vars
<1> QED
  BY <1>1, <1>2, <1>3, <1>4, <1>5, <1>6, <1>7, <1>8, <1>9, <1>10, <1>11, <1>12, <1>13, <1>14, <1>15,
     <1>16, <1>17, <1>18, <1>19, <1>20, <1>21, <1>22, <1>23, <1>24, <1>25, <1>26, <1>27, <1>28, <1>29
  DEF Next, Work

\* A prefix and the bytes of a chunk that follows it make a longer prefix.
LEMMA PrefixGrows ==
  ASSUME NEW n \in Nat, NEW l \in Nat
  PROVE  Prefix(n) \cup (n .. n + l - 1) = Prefix(n + l)
BY DEF Prefix

\* A handler that reads the .json gets what is true of the files, and what it goes on to do
\* keeps it true.
LEMMA CopyStep == Inv /\ [Next]_vars => CopyInv'
<1> SUFFICES ASSUME Inv, [Next]_vars, NEW h \in Handlers, NEW u \in Uploads, Holds(h, u)'
             PROVE  Copy(h, u)'
  BY DEF CopyInv
<1> USE DEF Inv, TypeOK
<1> req[h] \in ReqRecord
  BY DEF ReqTypeOK
<1>1. CASE req'[h] = req[h]
  <2>1. Holds(h, u) /\ Copy(h, u)
    BY <1>1 DEF CopyInv, Holds
  <2>2. u \in used
    BY <2>1 DEF Holds, KnownInv
  <2> QED BY <1>1, <2>1, <2>2, FilesKept DEF Copy
<1>2. CASE ChunkRead(h)
  <2>1. req[h].up = u /\ u \in metas \ torn /\ ~meta[u].complete
        /\ req[h].off = meta[u].received /\ req[h].off + req[h].len <= meta[u].size
    BY <1>2 DEF ChunkRead, ChunkStatus, LookupStatus, Holds, ReqTypeOK, ReqRecord, FilesTypeOK, Meta
  <2>2. /\ req'[h].pc = "write" /\ req'[h].meta = meta[u]
        /\ req'[h].off = req[h].off /\ req'[h].len = req[h].len
    BY <1>2, <2>1 DEF ChunkRead, ReqTypeOK, ReqRecord
  <2>3. UNCHANGED <<parts, data, meta, removed>>
    BY <1>2 DEF ChunkRead, files
  <2>4. u \notin removed => u \in parts /\ Prefix(meta[u].received) \subseteq data[u]
    BY <2>1 DEF ReceivedOnDisk
  <2> QED BY <2>1, <2>2, <2>3, <2>4 DEF Copy
<1>3. CASE ChunkWrite(h)
  <2>1. Holds(h, u) /\ req[h].pc = "write"
    BY <1>3 DEF ChunkWrite, At, Holds, ReqTypeOK, ReqRecord
  <2>2. Copy(h, u) /\ u \in used
    BY <2>1 DEF CopyInv, KnownInv, Holds
  <2>3. req[h].off \in Nat /\ req[h].len \in Nat
    BY DEF ReqRecord
  <2>4. /\ req'[h].pc = "truncate" /\ req'[h].meta.size = req[h].meta.size
        /\ req'[h].meta.received = req[h].off + req[h].len /\ ~req'[h].meta.complete
    BY <1>3, <2>1, <2>2 DEF ChunkWrite, Copy, ReqTypeOK, ReqRecord, Meta
  <2>5. /\ data'[u] = data[u] \cup (req[h].off .. req[h].off + req[h].len - 1)
        /\ u \in parts' /\ removed' = removed /\ meta' = meta
    BY <1>3, <2>1 DEF ChunkWrite, Holds, FilesTypeOK
  <2>6. u \notin removed => Prefix(req'[h].meta.received) \subseteq data'[u]
    BY <2>1, <2>2, <2>3, <2>4, <2>5, PrefixGrows DEF Copy
  <2> QED BY <2>2, <2>4, <2>5, <2>6 DEF Copy
<1>4. CASE CompleteRead(h)
  <2>1. req[h].up = u /\ u \in metas \ torn /\ meta[u].received = meta[u].size
    BY <1>4 DEF CompleteRead, CompleteStatus, LookupStatus, Holds, ReqTypeOK, ReqRecord,
                FilesTypeOK, Meta
  <2>2. req'[h].pc = "hash" /\ req'[h].meta = meta[u]
    BY <1>4, <2>1 DEF CompleteRead, ReqTypeOK, ReqRecord
  <2>3. UNCHANGED <<parts, data, meta, removed>>
    BY <1>4 DEF CompleteRead, files
  <2>4. u \notin removed => u \in parts /\ Prefix(meta[u].received) \subseteq data[u]
    BY <2>1 DEF ReceivedOnDisk
  <2> QED BY <2>1, <2>2, <2>3, <2>4 DEF Copy
<1>5. CASE CompleteHash(h)
  <2>1. req[h].up \in parts
    <3>1. CASE req[h].up \notin parts
      <4>1. Answer(h, 500)
        BY <1>5, <3>1 DEF CompleteHash
      <4>2. req'[h].pc = "reply"
        BY <4>1 DEF Answer, Reply, Idle, ReqTypeOK
      <4> QED BY <4>2 DEF Holds
    <3> QED BY <3>1
  <2>2. req[h].pc = "hash" /\ req[h].up = u
    BY <1>5, <2>1 DEF CompleteHash, At, Holds, ReqTypeOK, ReqRecord
  <2>3. Copy(h, u)
    BY <2>2 DEF CopyInv, Holds
  <2>4. /\ req'[h].pc = "truncate" /\ req'[h].meta.size = req[h].meta.size
        /\ req'[h].meta.received = req[h].meta.received /\ req'[h].meta.sha = data[u]
    BY <1>5, <2>1, <2>2 DEF CompleteHash, ReqTypeOK, ReqRecord, Meta
  <2>5. UNCHANGED <<parts, data, meta, removed>>
    BY <1>5 DEF CompleteHash, files
  <2>6. u \notin removed => data[u] = Prefix(meta[u].size)
    BY <2>2, <2>3 DEF Copy, SizeInv
  <2> QED BY <2>2, <2>3, <2>4, <2>5, <2>6 DEF Copy
<1>6. CASE SaveTruncate(h)
  <2>1. Holds(h, u) /\ req[h].pc = "truncate" /\ req'[h].pc = "save" /\ req'[h].meta = req[h].meta
    BY <1>6 DEF SaveTruncate, Goto, Holds, ReqTypeOK, ReqRecord
  <2>2. Copy(h, u)
    BY <2>1 DEF CopyInv
  <2>3. UNCHANGED <<parts, data, meta, removed>>
    BY <1>6 DEF SaveTruncate
  <2> QED BY <2>1, <2>2, <2>3 DEF Copy
<1> QED BY <1>1, <1>2, <1>3, <1>4, <1>5, <1>6, CopySteps DEF Holds

\* A chunk is written within the announced size, which an upload has from its init on.
LEMMA SizeStep == Inv /\ [Next]_vars => SizeInv'
<1> SUFFICES ASSUME Inv, [Next]_vars, NEW u \in Uploads
             PROVE  /\ data'[u] \subseteq Prefix(meta'[u].size)
                    /\ u \notin used' => meta'[u].size = 0
  BY DEF SizeInv
<1> USE DEF Inv, TypeOK, FilesTypeOK, SizeInv
<1> DEFINE Goal == /\ data'[u] \subseteq Prefix(meta'[u].size)
                   /\ u \notin used' => meta'[u].size = 0
<1>1. CASE UNCHANGED <<parts, data, metas, torn, meta, used, removed>>
  BY <1>1
<1>2. ASSUME NEW h \in Handlers, ChunkWrite(h) PROVE Goal
  <2>1. used' = used /\ meta' = meta
    BY <1>2 DEF ChunkWrite
  <2>2. CASE req[h].up = u
    <3>1. Copy(h, u)
      BY <1>2, <2>2 DEF ChunkWrite, At, CopyInv, Holds
    <3>2. req[h].off \in Nat /\ req[h].len \in Nat /\ meta[u].size \in Nat
      BY DEF ReqTypeOK, ReqRecord, Meta
    <3>3. req[h].off + req[h].len <= meta[u].size
      BY <1>2, <3>1 DEF ChunkWrite, At, Copy
    <3>4. data'[u] = data[u] \cup (req[h].off .. req[h].off + req[h].len - 1)
      BY <1>2, <2>2 DEF ChunkWrite
    <3>5. req[h].off .. req[h].off + req[h].len - 1 \subseteq Prefix(meta[u].size)
      BY <3>2, <3>3 DEF Prefix
    <3> QED BY <2>1, <3>4, <3>5
  <2>3. CASE req[h].up # u
    BY <1>2, <2>1, <2>3 DEF ChunkWrite
  <2> QED BY <2>2, <2>3
<1>3. ASSUME NEW h \in Handlers, SaveTruncate(h) PROVE Goal
  BY <1>3 DEF SaveTruncate
<1>4. ASSUME NEW h \in Handlers, SaveWrite(h) PROVE Goal
  <2>1. used' = used /\ data' = data
    BY <1>4 DEF SaveWrite
  <2>2. CASE u \in used
    BY <2>1, <2>2, FilesKept
  <2>3. CASE u \notin used
    <3>1. req[h].up # u
      BY <1>4, <2>3 DEF SaveWrite, KnownInv
    <3> QED BY <1>4, <2>1, <3>1 DEF SaveWrite
  <2> QED BY <2>2, <2>3
<1>5. ASSUME NEW h \in Handlers, NEW v \in Uploads, InitCreate(h, v) PROVE Goal
  <2>1. CASE u = v
    <3>1. data[u] = {}
      BY <1>5, <2>1 DEF InitCreate, Prefix
    <3> QED BY <1>5, <2>1, <3>1 DEF InitCreate
  <2>2. CASE u # v
    BY <1>5, <2>2 DEF InitCreate
  <2> QED BY <2>1, <2>2
<1>6. ASSUME NEW f \in File, Unlink(f), used' = used PROVE Goal
  BY <1>6 DEF Unlink
<1>7. CASE Crash
  BY <1>7 DEF Crash, Dies
<1> QED BY <1>1, <1>2, <1>3, <1>4, <1>5, <1>6, <1>7, FileSteps

\* What a .json says is what a handler wrote back, and what it wrote back is true of the files.
LEMMA RecordedStep == Inv /\ [Next]_vars => ReceivedOnDisk' /\ DigestOfWhole'
<1> SUFFICES ASSUME Inv, [Next]_vars, NEW u \in metas' \ (torn' \cup removed')
             PROVE  /\ u \in parts' /\ Prefix(meta'[u].received) \subseteq data'[u]
                    /\ meta'[u].complete => meta'[u].sha = Prefix(meta'[u].size)
  BY DEF ReceivedOnDisk, DigestOfWhole
<1> USE DEF Inv, TypeOK, FilesTypeOK, ReceivedOnDisk, DigestOfWhole
<1> DEFINE Goal == /\ u \in parts' /\ Prefix(meta'[u].received) \subseteq data'[u]
                   /\ meta'[u].complete => meta'[u].sha = Prefix(meta'[u].size)
<1>1. CASE UNCHANGED <<parts, data, metas, torn, meta, used, removed>>
  BY <1>1
<1>2. ASSUME NEW h \in Handlers, ChunkWrite(h) PROVE Goal
  <2>1. UNCHANGED <<metas, torn, meta, removed>> /\ parts \subseteq parts'
    BY <1>2 DEF ChunkWrite
  <2>2. data[u] \subseteq data'[u]
    BY <1>2 DEF ChunkWrite
  <2> QED BY <2>1, <2>2
<1>3. ASSUME NEW h \in Handlers, SaveTruncate(h) PROVE Goal
  BY <1>3 DEF SaveTruncate
<1>4. ASSUME NEW h \in Handlers, SaveWrite(h) PROVE Goal
  <2>1. UNCHANGED <<parts, data, metas, removed>>
    BY <1>4 DEF SaveWrite
  <2>2. CASE req[h].up = u
    <3>1. meta'[u] = req[h].meta
      BY <1>4, <2>1, <2>2 DEF SaveWrite
    <3>2. Copy(h, u)
      BY <1>4, <2>1, <2>2 DEF SaveWrite, CopyInv, Holds
    <3> QED BY <1>4, <2>1, <3>1, <3>2 DEF Copy, SaveWrite
  <2>3. CASE req[h].up # u
    <3>1. meta'[u] = meta[u] /\ u \notin torn
      BY <1>4, <2>1, <2>3 DEF SaveWrite
    <3> QED BY <2>1, <3>1
  <2> QED BY <2>2, <2>3
<1>5. ASSUME NEW h \in Handlers, NEW v \in Uploads, InitCreate(h, v) PROVE Goal
  <2>1. CASE u = v
    <3>1. meta'[u].received = 0 /\ ~meta'[u].complete /\ u \in parts'
      BY <1>5, <2>1 DEF InitCreate, NoMeta
    <3> QED BY <3>1 DEF Prefix
  <2>2. CASE u # v
    BY <1>5, <2>2 DEF InitCreate
  <2> QED BY <2>1, <2>2
<1>6. ASSUME NEW f \in File, Unlink(f) PROVE Goal
  BY <1>6, FileTypes DEF Unlink
<1>7. CASE Crash
  <2>1. meta' = meta /\ u \in metas \ (torn \cup removed) /\ Part(u) \notin stale
    BY <1>7 DEF Crash, Dies
  <2>2. u \in parts' /\ data'[u] = data[u]
    BY <1>7, <2>1 DEF Crash, Dies
  <2> QED BY <2>1, <2>2
<1> QED BY <1>1, <1>2, <1>3, <1>4, <1>5, <1>6, <1>7, FileSteps

-----------------------------------------------------------------------------
(* The theorems *)

\* The initial state has the invariant.
LEMMA InvInit == Init => Inv
<1> SUFFICES ASSUME Init PROVE Inv
  OBVIOUS
<1> USE DEF Init
<1>1. \A h \in Handlers : req[h] = Idle /\ req[h].pc = "idle" /\ req[h].op = "none"
  BY DEF Idle
<1>2. FilesTypeOK
  BY DEF FilesTypeOK, Meta, NoMeta
<1>3. ReqTypeOK
  BY IdleType DEF ReqTypeOK
<1>4. KnownInv /\ LockInv /\ NoReservationUncounted /\ CopyInv
  BY <1>1 DEF KnownInv, LockInv, NoReservationUncounted, CopyInv, Holds, At
<1>5. SizeInv /\ ReceivedOnDisk /\ DigestOfWhole
  BY DEF SizeInv, ReceivedOnDisk, DigestOfWhole, NoMeta
<1> QED BY <1>2, <1>3, <1>4, <1>5 DEF Inv, TypeOK

\* The conjunction is an invariant: the initial state has it and every step keeps it.
THEOREM StagingInvariant == Spec => []Inv
<1>1. Inv /\ [Next]_vars => Inv'
  BY ReqTypeStep, FilesTypeStep, KnownStep, LockStep, UncountedStep, CopyStep, SizeStep,
     RecordedStep DEF Inv, TypeOK
<1> QED BY InvInit, <1>1, PTL DEF Spec

\* The files and the handlers' variables keep their types, and a .json that does not parse is
\* one that exists.
THEOREM StagingTypeCorrect == Spec => []TypeOK
<1>1. Inv => TypeOK
  BY DEF Inv
<1> QED BY StagingInvariant, <1>1, PTL

\* The offset a client resumes from is on disk, for any number of overlapping chunks, however
\* late or often they are sent, and however often the server dies.
THEOREM ReceivedBytesOnDisk == Spec => []ReceivedOnDisk
<1>1. Inv => ReceivedOnDisk
  BY DEF Inv
<1> QED BY StagingInvariant, <1>1, PTL

\* The digest of a completed upload is that of the announced file, whatever chunks are written
\* while it is computed.
THEOREM DigestsOfWholeFiles == Spec => []DigestOfWhole
<1>1. Inv => DigestOfWhole
  BY DEF Inv
<1> QED BY StagingInvariant, <1>1, PTL

\* Between the count of an init and its reservation there is no other reservation.
THEOREM ReservationsCounted == Spec => []NoReservationUncounted
<1>1. Inv => NoReservationUncounted
  BY DEF Inv
<1> QED BY StagingInvariant, <1>1, PTL
=============================================================================
