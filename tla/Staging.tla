------------------------------- MODULE Staging -------------------------------
(***************************************************************************)
(* The staging area of chunked uploads (backend/api/views/upload.py): the  *)
(* .part and .json files of every upload, the request handlers that work   *)
(* on them (init, chunk, complete, DELETE, and the ingestion that consumes *)
(* a completed upload) and the sweeper thread.  A handler is a process: it *)
(* reads the .json, works from that copy and writes it back, and only init *)
(* takes a lock, so every step between two file accesses may interleave    *)
(* with another handler, the sweeper or a crash of the server.             *)
(*                                                                         *)
(* Bytes are counted in units.  A .part file is the set of the offsets     *)
(* that were written: a chunk always carries the bytes the file has at     *)
(* its offset, so what can go wrong is a byte that is missing, never a     *)
(* byte of something else.  A digest is the set of offsets it was computed *)
(* over.  Requests that are refused before they reach a file (bad id, bad  *)
(* JSON, a size or a chunk above the limits) are left out.                 *)
(***************************************************************************)
EXTENDS Integers, FiniteSets, FiniteSetsExt

CONSTANTS Uploads,      \* the ids init may hand out (uuid4: each once)
          Handlers,     \* the requests the server works on at the same time
          Sizes,        \* the sizes a client may announce
          Lens,         \* the lengths of the chunks a client may send
          Budget,       \* FORENSIC_TMP_MAX_GB
          MaxCrashes,   \* bound: how often the server process dies
          MaxRequests,  \* bound: how many requests arrive
          Nobody        \* no handler, or no file

ASSUME SizesAssumption == Sizes \subseteq Nat \ {0} /\ Lens \subseteq Nat \ {0}
ASSUME BudgetAssumption == Budget \in Nat /\ MaxCrashes \in Nat /\ MaxRequests \in Nat
ASSUME NobodyAssumption == Nobody \notin Handlers

VARIABLES parts,    \* uploads whose .part file exists
          data,     \* the offsets written in each .part
          metas,    \* uploads whose .json file exists
          torn,     \* those whose .json does not parse (write_text under way, or cut short)
          meta,     \* what each .json says
          stale,    \* files whose mtime is older than the retention
          used,     \* ids handed out so far
          lock,     \* the holder of _reserve
          req,      \* what each handler is doing, with its local variables
          victim,   \* the file the sweeper has found stale and is about to unlink
          crashes,  \* deaths of the server so far
          requests, \* requests that arrived so far
          removed   \* history: uploads something has removed a file of

files == <<parts, data, metas, torn, meta, stale>>
vars  == <<files, used, lock, req, victim, crashes, requests, removed>>

File  == {"part", "json"} \X Uploads
Part(u) == <<"part", u>>
Json(u) == <<"json", u>>

Meta == [size : Nat, received : Nat, complete : BOOLEAN, sha : SUBSET Nat]
NoMeta == [size |-> 0, received |-> 0, complete |-> FALSE, sha |-> {}]
NoBytes == [u \in Uploads |-> {}]

Idle == [op |-> "none", pc |-> "idle", up |-> Nobody, off |-> 0, len |-> 0,
         meta |-> NoMeta, staged |-> NoBytes, swept |-> FALSE, counted |-> {}, status |-> 0]

\* The first n offsets of a file
Prefix(n) == 0 .. n - 1

-----------------------------------------------------------------------------
(* What the handlers read *)

\* st_size of a .part: one more than the last offset written, holes included
Length(offsets) == IF offsets = {} THEN 0 ELSE 1 + Max(offsets)

\* the bytes of all files, when a pass over the directory saw them as d (no file has none)
staged_bytes(d) == LET size(u) == Length(d[u]) IN MapThenSumSet(size, Uploads)

Unsent(u) == IF meta[u].received < meta[u].size THEN meta[u].size - meta[u].received ELSE 0

\* a .json that does not parse is skipped
pending_bytes == MapThenSumSet(Unsent, {u \in metas \ torn : ~meta[u].complete})

\* The answer a handler that looks the upload up gives at once, 0 if it goes on
LookupStatus(u) ==
  IF u \notin metas THEN 404 ELSE IF u \in torn THEN 400 ELSE 0

-----------------------------------------------------------------------------
(* Steps of handlers *)

At(h, op, pc) == req[h].op = op /\ req[h].pc = pc

Goto(h, pc) == req' = [req EXCEPT ![h].pc = pc]

\* The handler is through with its local variables; the answer names the upload.
Reply(u, status) == [Idle EXCEPT !.pc = "reply", !.up = u, !.status = status]

Answer(h, status) == req' = [req EXCEPT ![h] = Reply(req[h].up, status)]

Unlink(f) ==
  LET u == f[2] IN
  /\ parts' = IF f[1] = "part" THEN parts \ {u} ELSE parts
  /\ data'  = IF f[1] = "part" THEN [data EXCEPT ![u] = {}] ELSE data
  /\ metas' = IF f[1] = "json" THEN metas \ {u} ELSE metas
  /\ torn'  = IF f[1] = "json" THEN torn \ {u} ELSE torn
  /\ stale' = stale \ {f}
  /\ removed' = removed \cup {u}
  /\ UNCHANGED meta

\* A request reaches a free handler.
Arrive(h, op, u, off, len) ==
  /\ req[h] = Idle
  /\ requests < MaxRequests
  /\ requests' = requests + 1
  /\ req' = [req EXCEPT ![h] = [Idle EXCEPT !.op = op, !.pc = "start", !.up = u,
                                            !.off = off, !.len = len]]
  /\ UNCHANGED <<files, used, lock, victim, crashes, removed>>

\* The answer leaves and the handler is free again.
Respond(h) ==
  /\ req[h].pc = "reply"
  /\ req' = [req EXCEPT ![h] = Idle]
  /\ UNCHANGED <<files, used, lock, victim, crashes, requests, removed>>

\* --- POST init (len is the announced size) ---

\* faulty: the check and the reservation are not under one lock
InitLock_NotHeld(h) ==
  /\ At(h, "init", "start")
  /\ Goto(h, "staged")
  /\ UNCHANGED <<files, used, lock, victim, crashes, requests, removed>>

InitLock(h) ==
  /\ At(h, "init", "start")
  /\ lock = Nobody
  /\ lock' = h
  /\ Goto(h, "staged")
  /\ UNCHANGED <<files, used, victim, crashes, requests, removed>>

\* the two sums are two passes over the directory
InitStaged(h) ==
  /\ At(h, "init", "staged")
  /\ req' = [req EXCEPT ![h].pc = "pending", ![h].staged = data]
  /\ UNCHANGED <<files, used, lock, victim, crashes, requests, removed>>

Fits(h) == staged_bytes(req[h].staged) + pending_bytes + req[h].len <= Budget

InitFits(h) ==
  /\ At(h, "init", "pending")
  /\ Fits(h)
  /\ req' = [req EXCEPT ![h].pc = "create", ![h].staged = NoBytes, ![h].counted = used]
  /\ UNCHANGED <<files, used, lock, victim, crashes, requests, removed>>

InitFull(h) ==
  /\ At(h, "init", "pending")
  /\ ~Fits(h) /\ ~req[h].swept
  /\ req' = [req EXCEPT ![h].pc = "sweep", ![h].staged = NoBytes]
  /\ UNCHANGED <<files, used, lock, victim, crashes, requests, removed>>

InitSweep(h, f) ==
  /\ At(h, "init", "sweep")
  /\ f \in stale
  /\ Unlink(f)
  /\ UNCHANGED <<used, lock, req, victim, crashes, requests>>

InitSwept(h) ==
  /\ At(h, "init", "sweep")
  /\ stale = {}
  /\ req' = [req EXCEPT ![h].pc = "staged", ![h].swept = TRUE]
  /\ UNCHANGED <<files, used, lock, victim, crashes, requests, removed>>

\* faulty: a refusal leaves _reserve taken
InitRefused_KeepsLock(h) ==
  /\ At(h, "init", "pending")
  /\ ~Fits(h) /\ req[h].swept
  /\ Answer(h, 507)
  /\ UNCHANGED <<files, used, lock, victim, crashes, requests, removed>>

\* 507 staging-full
InitRefused(h) ==
  /\ At(h, "init", "pending")
  /\ ~Fits(h) /\ req[h].swept
  /\ Answer(h, 507)
  /\ lock' = Nobody
  /\ UNCHANGED <<files, used, victim, crashes, requests, removed>>

\* touch the .part and record the reservation
InitCreate(h, u) ==
  /\ At(h, "init", "create")
  /\ u \in Uploads \ used
  /\ used' = used \cup {u}
  /\ parts' = parts \cup {u}
  /\ metas' = metas \cup {u}
  /\ meta' = [meta EXCEPT ![u] = [NoMeta EXCEPT !.size = req[h].len]]
  /\ req' = [req EXCEPT ![h] = Reply(u, 200)]
  /\ lock' = Nobody
  /\ UNCHANGED <<data, torn, stale, victim, crashes, requests, removed>>

\* --- PUT chunk?offset= ---

\* faulty: a chunk is taken at whatever offset it names
ChunkStatus_AnyOffset(h) ==
  LET u == req[h].up IN
  IF LookupStatus(u) # 0 THEN LookupStatus(u)
  ELSE IF meta[u].complete THEN 409
  ELSE IF meta[u].received + req[h].len > meta[u].size THEN 400
  ELSE 0

ChunkStatus(h) ==
  LET u == req[h].up IN
  IF LookupStatus(u) # 0 THEN LookupStatus(u)
  ELSE IF meta[u].complete \/ req[h].off # meta[u].received THEN 409
  ELSE IF meta[u].received + req[h].len > meta[u].size THEN 400
  ELSE 0

ChunkRefused(h) ==
  /\ At(h, "chunk", "start")
  /\ ChunkStatus(h) # 0
  /\ Answer(h, ChunkStatus(h))
  /\ UNCHANGED <<files, used, lock, victim, crashes, requests, removed>>

ChunkRead(h) ==
  /\ At(h, "chunk", "start")
  /\ ChunkStatus(h) = 0
  /\ req' = [req EXCEPT ![h].pc = "write", ![h].meta = meta[req[h].up]]
  /\ UNCHANGED <<files, used, lock, victim, crashes, requests, removed>>

\* "r+b" if the .part exists, else "wb": a file something removed is made anew
ChunkWrite(h) ==
  LET u == req[h].up IN
  /\ At(h, "chunk", "write")
  /\ parts' = parts \cup {u}
  /\ data' = [data EXCEPT ![u] = @ \cup (req[h].off .. req[h].off + req[h].len - 1)]
  /\ stale' = stale \ {Part(u)}
  /\ req' = [req EXCEPT ![h].pc = "truncate", ![h].off = 0, ![h].len = 0,
                         ![h].meta.received = @ + req[h].len]
  /\ UNCHANGED <<metas, torn, meta, used, lock, victim, crashes, requests, removed>>

\* --- POST complete ---

\* faulty: does not compare what was received with what was announced
CompleteStatus_AnySize(h) == LookupStatus(req[h].up)

CompleteStatus(h) ==
  LET u == req[h].up IN
  IF LookupStatus(u) # 0 THEN LookupStatus(u)
  ELSE IF meta[u].received # meta[u].size THEN 409
  ELSE 0

CompleteRefused(h) ==
  /\ At(h, "complete", "start")
  /\ CompleteStatus(h) # 0
  /\ Answer(h, CompleteStatus(h))
  /\ UNCHANGED <<files, used, lock, victim, crashes, requests, removed>>

CompleteRead(h) ==
  /\ At(h, "complete", "start")
  /\ CompleteStatus(h) = 0
  /\ req' = [req EXCEPT ![h].pc = "hash", ![h].meta = meta[req[h].up]]
  /\ UNCHANGED <<files, used, lock, victim, crashes, requests, removed>>

\* a .part that is not there any more raises: the request ends in a 500
CompleteHash(h) ==
  /\ At(h, "complete", "hash")
  /\ IF req[h].up \in parts
       THEN req' = [req EXCEPT ![h].pc = "truncate", ![h].meta.complete = TRUE,
                               ![h].meta.sha = data[req[h].up]]
       ELSE Answer(h, 500)
  /\ UNCHANGED <<files, used, lock, victim, crashes, requests, removed>>

\* --- _save_meta, of chunk and complete: write_text truncates, then writes ---

SaveTruncate(h) ==
  LET u == req[h].up IN
  /\ req[h].pc = "truncate"
  /\ metas' = metas \cup {u}
  /\ torn' = torn \cup {u}
  /\ stale' = stale \ {Json(u)}
  /\ Goto(h, "save")
  /\ UNCHANGED <<parts, data, meta, used, lock, victim, crashes, requests, removed>>

\* A .json unlinked since then stays gone.  Over a text another handler wrote since then,
\* a shorter text leaves the end of the longer one behind it: the result does not parse.
SaveWrite(h) ==
  LET u == req[h].up IN
  /\ req[h].pc = "save"
  /\ IF u \in metas
       THEN /\ meta' = [meta EXCEPT ![u] = req[h].meta]
            /\ torn' \in IF u \in torn THEN {torn \ {u}} ELSE {torn, torn \cup {u}}
       ELSE UNCHANGED <<meta, torn>>
  /\ Answer(h, 200)
  /\ UNCHANGED <<parts, data, metas, stale, used, lock, victim, crashes, requests, removed>>

\* --- DELETE, and the ingestion that consumes the upload ---

\* the view reads the .json before it looks at the method: one that does not parse is a 400
DeleteRefused(h) ==
  /\ At(h, "delete", "start")
  /\ LookupStatus(req[h].up) = 400
  /\ Answer(h, 400)
  /\ UNCHANGED <<files, used, lock, victim, crashes, requests, removed>>

DeleteStart(h) ==
  /\ At(h, "delete", "start")
  /\ LookupStatus(req[h].up) # 400
  /\ Goto(h, "unlinkPart")
  /\ UNCHANGED <<files, used, lock, victim, crashes, requests, removed>>

\* get_upload: there, and completed
Ready(u) == u \in metas \ torn /\ u \in parts /\ meta[u].complete

ConsumeGet(h) ==
  /\ At(h, "consume", "start")
  /\ IF Ready(req[h].up) THEN Goto(h, "parse") ELSE Answer(h, 404)
  /\ UNCHANGED <<files, used, lock, victim, crashes, requests, removed>>

\* the job has read the file, or failed: it discards it either way
ConsumeParsed(h) ==
  /\ At(h, "consume", "parse")
  /\ Goto(h, "unlinkPart")
  /\ UNCHANGED <<files, used, lock, victim, crashes, requests, removed>>

DiscardPart(h) ==
  /\ req[h].pc = "unlinkPart"
  /\ Unlink(Part(req[h].up))
  /\ Goto(h, "unlinkJson")
  /\ UNCHANGED <<used, lock, victim, crashes, requests>>

DiscardJson(h) ==
  /\ req[h].pc = "unlinkJson"
  /\ Unlink(Json(req[h].up))
  /\ Answer(h, 200)
  /\ UNCHANGED <<used, lock, victim, crashes, requests>>

-----------------------------------------------------------------------------
(* The sweeper thread, the clock, the end of the process *)

\* The retention period passes: every file there is has not been written for that long, until
\* somebody writes it.
TimePasses ==
  /\ stale' = {Part(u) : u \in parts} \cup {Json(u) : u \in metas}
  /\ stale' # stale
  /\ UNCHANGED <<parts, data, metas, torn, meta, used, lock, req, victim, crashes, requests, removed>>

\* faulty: only ever looks at .part files
SweepStat_PartsOnly(f) ==
  /\ victim = Nobody
  /\ f \in stale /\ f[1] = "part"
  /\ victim' = f
  /\ UNCHANGED <<files, used, lock, req, crashes, requests, removed>>

SweepStat(f) ==
  /\ victim = Nobody
  /\ f \in stale
  /\ victim' = f
  /\ UNCHANGED <<files, used, lock, req, crashes, requests, removed>>

\* missing_ok: the file may have gone meanwhile, or have been written
SweepUnlink ==
  /\ victim # Nobody
  /\ Unlink(victim)
  /\ victim' = Nobody
  /\ UNCHANGED <<used, lock, req, crashes, requests>>

\* The uploads an init may be in the middle of making when the process dies
HalfMade == {{}} \cup {{u} : u \in {v \in Uploads \ used : \E h \in Handlers : At(h, "init", "create")}}

\* The process dies and starts again: handlers and locks are gone, files stay, and ready()
\* sweeps before the first request.  An init under way may leave an empty .part, and a .json
\* that was opened and not written.
Dies(born, cut) ==
  /\ crashes < MaxCrashes
  /\ crashes' = crashes + 1
  /\ req' = [h \in Handlers |-> Idle]
  /\ lock' = Nobody
  /\ victim' = Nobody
  /\ parts' = {u \in parts : Part(u) \notin stale} \cup born
  /\ metas' = {u \in metas : Json(u) \notin stale} \cup cut
  /\ torn' = {u \in torn : Json(u) \notin stale} \cup cut
  /\ data' = [u \in Uploads |-> IF Part(u) \in stale THEN {} ELSE data[u]]
  /\ removed' = removed \cup {u \in Uploads : Part(u) \in stale \/ Json(u) \in stale}
  /\ stale' = {}
  /\ used' = used \cup born
  /\ UNCHANGED <<meta, requests>>

Crash == \E born \in HalfMade : \E cut \in SUBSET born : Dies(born, cut)

-----------------------------------------------------------------------------
Init ==
  /\ parts = {} /\ metas = {} /\ torn = {} /\ stale = {}
  /\ data = [u \in Uploads |-> {}]
  /\ meta = [u \in Uploads |-> NoMeta]
  /\ used = {}
  /\ lock = Nobody
  /\ req = [h \in Handlers |-> Idle]
  /\ victim = Nobody
  /\ crashes = 0 /\ requests = 0
  /\ removed = {}

\* bound: no more inits than ids
IdsLeft ==
  Cardinality(used) + Cardinality({h \in Handlers : req[h].op = "init" /\ req[h].up = Nobody})
    < Cardinality(Uploads)

\* A client knows an id once init has answered; its requests may come late, twice, or after
\* the upload is gone.
Request(h) ==
  \/ IdsLeft /\ \E n \in Sizes : Arrive(h, "init", Nobody, 0, n)
  \/ \E u \in used :
       \/ \E off \in 0 .. meta[u].size - 1, n \in Lens : Arrive(h, "chunk", u, off, n)
       \/ \E op \in {"complete", "delete", "consume"} : Arrive(h, op, u, 0, 0)

Work(h) ==
  \/ Respond(h)
  \/ InitLock(h) \/ InitStaged(h) \/ InitFits(h) \/ InitFull(h) \/ InitSwept(h) \/ InitRefused(h)
  \/ \E f \in File : InitSweep(h, f)
  \/ \E u \in Uploads : InitCreate(h, u)
  \/ ChunkRefused(h) \/ ChunkRead(h) \/ ChunkWrite(h)
  \/ CompleteRefused(h) \/ CompleteRead(h) \/ CompleteHash(h)
  \/ SaveTruncate(h) \/ SaveWrite(h)
  \/ DeleteRefused(h) \/ DeleteStart(h)
  \/ ConsumeGet(h) \/ ConsumeParsed(h)
  \/ DiscardPart(h) \/ DiscardJson(h)

Next ==
  \/ \E h \in Handlers : Request(h) \/ Work(h)
  \/ TimePasses
  \/ \E f \in File : SweepStat(f)
  \/ SweepUnlink
  \/ Crash

Spec == Init /\ [][Next]_vars

\* Threads run, time passes, and every pass of the sweeper looks at every file.
Fairness ==
  /\ \A h \in Handlers : WF_vars(Work(h))
  /\ \A f \in File : SF_vars(SweepStat(f))
  /\ WF_vars(TimePasses) /\ WF_vars(SweepUnlink)

FairSpec == Spec /\ Fairness

-----------------------------------------------------------------------------
(* Properties *)

Ops == {"none", "init", "chunk", "complete", "delete", "consume"}
Pcs == {"idle", "start", "staged", "pending", "sweep", "create", "write", "hash", "truncate",
        "save", "parse", "unlinkPart", "unlinkJson", "reply"}

ReqRecord ==
  [op : Ops, pc : Pcs, up : Uploads \cup {Nobody}, off : Nat, len : Nat, meta : Meta,
   staged : [Uploads -> SUBSET Nat], swept : BOOLEAN, counted : SUBSET Uploads, status : Nat]

ReqTypeOK == req \in [Handlers -> ReqRecord]

\* Types of the files: nothing is recorded of one that does not exist.
FilesTypeOK ==
  /\ parts \subseteq Uploads /\ metas \subseteq Uploads /\ torn \subseteq metas
  /\ data \in [Uploads -> SUBSET Nat]
  /\ meta \in [Uploads -> Meta]
  /\ stale \subseteq File /\ removed \subseteq Uploads /\ used \subseteq Uploads
  /\ lock \in Handlers \cup {Nobody}
  /\ victim \in File \cup {Nobody}
  /\ crashes \in Nat /\ requests \in Nat

\* Types of the variables.
TypeOK == FilesTypeOK /\ ReqTypeOK

\* The offset the server tells a client to resume from is on disk: whatever handlers overlap
\* and whenever the process dies, every byte before `received` was written, unless something
\* removed a file of the upload.
ReceivedOnDisk ==
  \A u \in metas \ (torn \cup removed) :
    u \in parts /\ Prefix(meta[u].received) \subseteq data[u]

\* A completed upload's digest was computed over the whole announced file, although the hash
\* is taken outside any lock while chunks may still be written.
DigestOfWhole ==
  \A u \in metas \ (torn \cup removed) :
    meta[u].complete => meta[u].sha = Prefix(meta[u].size)

\* "two inits must not both pass on the same room" (upload.py:71): no reservation is recorded
\* between the count an init made and its own reservation.
NoReservationUncounted ==
  \A h \in Handlers : At(h, "init", "create") => used = req[h].counted

\* Whatever clients abandon, duplicate or send late, every staged file is gone in the end: the
\* sweeper reaches .part and .json files alike, a .json that does not parse, and files a late
\* chunk brought back after a DELETE.
StagedFilesCleared ==
  \A u \in Uploads : (u \in parts \cup metas) ~> (u \notin parts \cup metas)

\* An init is always answered: it sweeps once and then refuses, and it never keeps _reserve.
InitAnswered ==
  \A h \in Handlers : At(h, "init", "start") ~> req[h].pc \in {"reply", "idle"}

(* What the code says of itself and does not do: see the README, Disagreements *)

\* What an upload takes of the budget: the announced size until it is complete, then its file.
Taken(u) ==
  IF u \in metas \ torn /\ ~meta[u].complete THEN meta[u].size ELSE Length(data[u])

\* "What is announced counts as taken: the room an upload will need is reserved when it starts"
\* (upload.py:188): the uploads that were admitted fit the budget together.
RoomReserved == MapThenSumSet(Taken, parts \cup metas) <= Budget

\* "Remove staged evidence nothing is going to consume" (upload.py:116): the sweeper leaves the
\* file of an upload alone while an ingestion holds it.
SweepSparesWanted ==
  [][\A f \in File : (f = victim /\ SweepUnlink) =>
        ~ \E h \in Handlers : At(h, "consume", "parse") /\ req[h].up = f[2]]_vars
=============================================================================
