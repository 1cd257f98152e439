------------------------------- MODULE Uploads -------------------------------
(***************************************************************************)
(* The upload half of FileTransferManager (crates/transport/src/           *)
(* file_transfer.rs), the part of SessionManager it consults and the three *)
(* ways a session ends.  Every HTTP request is a handler task that runs    *)
(* from one await point to the next; the staging directory, the Inbox and  *)
(* tokio's blocking pool are explicit.                                     *)
(*                                                                         *)
(* A file is the set of its 1 MiB chunks that were written; the bytes of a *)
(* chunk are a function of its offset.  Every upload asks for the same     *)
(* leaf name, the only case in which destinations can clash, so an Inbox   *)
(* path is a member of Slots: slot 1 is `name.ext`, slot n+1 `name (n).ext`*)
(* Requests refused without changing anything (disabled transfer, wrong    *)
(* checksum, bad name, too large, no session) are left out.                *)
(***************************************************************************)
EXTENDS Integers, FiniteSets

CONSTANTS
    Procs,        \* handler tasks that can be alive at once
    Ids,          \* upload UUIDs chosen by browsers
    Size,         \* chunks in every upload
    MaxRecs,      \* bound: UploadRecords (and staging files) ever made
    MaxSession,   \* bound: sessions ever started
    Slots,        \* bound: Inbox paths, numbered from 1
    MaxActive,    \* MAX_ACTIVE_UPLOADS
    MaxTickets,   \* MAX_COMPLETED_UPLOAD_TICKETS
    MaxDrops,     \* bound: requests whose client goes away
    Retries,      \* TRUE when a create request may be sent again
    MayEnd,       \* the ways a session may end in this instance
    CrossVolume,  \* TRUE when the Inbox is on another volume than staging
    None          \* no record, no process, no file

Recs    == 1..MaxRecs
Sids    == 1..MaxSession
Chunks  == 0..(Size - 1)
Enders  == {"rotate", "disconnect", "expire"}
File    == [ino : Recs, data : SUBSET Chunks]
Ticket  == [id : Ids, sid : Sids, slot : Slots, at : Nat]
Request == [id : Ids, sid : Sids, off : Chunks, rec : Recs \cup {None},
            ino : Recs \cup {None}, slot : Slots \cup {None}]

ASSUME ConstantsAssumption ==
    /\ Size \in Nat \ {0} /\ MaxActive \in Nat \ {0} /\ MaxTickets \in Nat \ {0}
    /\ MaxRecs \in Nat /\ MaxSession \in Nat \ {0} /\ MaxDrops \in Nat
    /\ Slots \subseteq Nat /\ MayEnd \subseteq Enders
    /\ Retries \in BOOLEAN /\ CrossVolume \in BOOLEAN
    /\ None \notin Procs /\ None \notin Nat /\ None \notin File /\ None \notin Request

VARIABLES
    sid, paired,       \* SessionManager: current session id, paired flag
    ender,             \* session ends under way
    uploads,           \* Inner.uploads: upload id -> UploadRecord
    made,              \* records (and staging files) made so far: 1..made
    rsid, received,    \* UploadRecord.session_id, UploadState.received
    lock,              \* UploadRecord.state: the handler that holds the mutex
    fin,               \* Inner.finalize_lock: the handler that holds it
    tickets,           \* Inner.completed_uploads; `at` orders them
    uploads_completed, \* Inner.uploads_completed
    part,              \* staging: id -> the file `nfidb-{id}.part` names
    data,              \* staging file -> chunks present in it
    temp,              \* Inbox: id -> copy at `.nfidb-{id}.incoming`
    inbox,             \* Inbox: slot -> file
    pc, req,           \* handler tasks: where each one waits, its locals
    late, drops,       \* file operations of dropped handlers, how many drops
    created,           \* ids for which a create request was sent
    \* History, read by the properties only:
    published,         \* <<upload id, staging file, slot>> put in the Inbox
    ended              \* sessions whose uploads were (or are being) canceled

sessionVars == <<sid, paired, ended, ender>>
tableVars   == <<uploads, made, rsid, received>>
lockVars    == <<lock, fin>>
resultVars  == <<tickets, uploads_completed>>
diskVars    == <<part, data, temp, inbox, published>>
envVars     == <<late, drops, created>>
vars == <<sessionVars, tableVars, lockVars, resultVars, diskVars, pc, req, envVars>>

\* Await points behind which a file operation is in tokio's blocking pool.
\* Dropping the task at one of these does not take the operation back.
LatePcs == {"open", "write", "move", "copy", "publish", "rmsrc", "unlink"}
\* Await points without such an effect, then the other thread switches.
AwaitPcs == LatePcs \cup {"lock", "wopen", "pace", "fin", "check", "hash", "cwait"}
Pcs == AwaitPcs \cup {"idle", "lookup", "insert", "find", "commit", "ticket",
                      "record", "cfind", "cremove"}

SessionType ==
    /\ sid \in Sids /\ paired \in BOOLEAN /\ ended \subseteq Sids
    /\ ender \in [Enders -> [pc : {"idle", "close", "collect", "unlink", "session"},
                             sid : Sids, todo : SUBSET Ids]]
TableType ==
    /\ uploads \in [Ids -> Recs \cup {None}]
    /\ made \in 0..MaxRecs
    /\ rsid \in [Recs -> Sids]
    /\ received \in [Recs -> 0..Size]
LockType == lock \in [Recs -> Procs \cup {None}] /\ fin \in Procs \cup {None}
ResultType == tickets \subseteq Ticket /\ uploads_completed \in Nat
DiskType ==
    /\ part \in [Ids -> Recs \cup {None}]
    /\ data \in [Recs -> SUBSET Chunks]
    /\ temp \in [Ids -> File \cup {None}]
    /\ inbox \in [Slots -> File \cup {None}]
    /\ published \subseteq (Ids \X Recs \X Slots)
\* The locals a task at l has assigned by then.
LocalsSet(l, q) ==
    /\ l \in {"insert", "lock", "wopen", "write", "commit", "check", "hash", "move",
              "copy", "publish", "rmsrc", "record", "cremove", "cwait", "unlink"}
       => q.rec \in Recs
    /\ l \in {"write", "commit"} => q.ino \in Recs
    /\ l \in {"move", "copy", "publish", "rmsrc", "record"} => q.slot \in Slots
EnvType ==
    /\ late \subseteq [pc : LatePcs, q : Request] /\ drops \in 0..MaxDrops
    /\ created \subseteq Ids
    /\ \A o \in late : LocalsSet(o.pc, o.q)
TaskType ==
    /\ pc \in [Procs -> Pcs]
    /\ req \in [Procs -> Request \cup {None}]
    /\ \A p \in Procs : /\ pc[p] # "idle" => req[p] \in Request
                        /\ LocalsSet(pc[p], req[p])

TypeOK == SessionType /\ TableType /\ LockType /\ ResultType /\ DiskType
          /\ EnvType /\ TaskType

-----------------------------------------------------------------------------
(* Helpers of the manager                                                   *)

\* completed_upload: a remembered result of this session for this upload.
CompletedUpload(id, s) == \E t \in tickets : t.id = id /\ t.sid = s

\* upload_record succeeds: the id is known and belongs to the session.
UploadRecord(id, s) == uploads[id] # None /\ rsid[uploads[id]] = s

ActiveUploads == {id \in Ids : uploads[id] # None}

\* unique_destination returns the first candidate path that does not exist.
UniqueDestination(d) ==
    /\ inbox[d] = None
    /\ \A e \in Slots : inbox[e] = None => d <= e

\* completed.push_front(..); completed.truncate(MAX_COMPLETED_UPLOAD_TICKETS)
PushTicket(t) ==
    IF Cardinality(tickets) < MaxTickets
    THEN tickets \cup {t}
    ELSE {x \in tickets : \E y \in tickets : y.at < x.at} \cup {t}

Goto(p, l) == pc' = [pc EXCEPT ![p] = l]
Free(r) == lock[r] = None

\* The handler's future ends: its locals go and its mutex guards unlock.
Return(p) ==
    /\ Goto(p, "idle")
    /\ req' = [req EXCEPT ![p] = None]
    /\ lock' = [r \in Recs |-> IF lock[r] = p THEN None ELSE lock[r]]
    /\ fin' = IF fin = p THEN None ELSE fin

-----------------------------------------------------------------------------
(* The effects of the blocking file operations, for the handler that waits  *)
(* for one and for the pool when that handler is gone.                      *)

\* OpenOptions::create_new on the part path.
FsCreate(q) ==
    /\ part[q.id] = None
    /\ made < MaxRecs
    /\ made' = made + 1
    /\ part' = [part EXCEPT ![q.id] = made + 1]
    /\ UNCHANGED <<data, temp, inbox, published>>

\* write_all at the chunk's offset, through the handle opened before.
FsWrite(q) ==
    /\ data' = [data EXCEPT ![q.ino] = @ \cup {q.off}]
    /\ UNCHANGED <<part, temp, inbox, published>>

\* rename(part, destination): replaces whatever the destination names.
FsMove(q) ==
    /\ part[q.id] # None
    /\ inbox' = [inbox EXCEPT ![q.slot] =
                    [ino |-> part[q.id], data |-> data[part[q.id]]]]
    /\ published' = published \cup {<<q.id, part[q.id], q.slot>>}
    /\ part' = [part EXCEPT ![q.id] = None]
    /\ UNCHANGED <<data, temp>>

\* fs::copy(part, temporary)
FsCopy(q) ==
    /\ part[q.id] # None
    /\ temp' = [temp EXCEPT ![q.id] =
                    [ino |-> part[q.id], data |-> data[part[q.id]]]]
    /\ UNCHANGED <<part, data, inbox, published>>

\* rename(temporary, destination)
FsPublish(q) ==
    /\ temp[q.id] # None
    /\ inbox' = [inbox EXCEPT ![q.slot] = temp[q.id]]
    /\ published' = published \cup {<<q.id, temp[q.id].ino, q.slot>>}
    /\ temp' = [temp EXCEPT ![q.id] = None]
    /\ UNCHANGED <<part, data>>

\* remove_file(part): its failure is ignored by every caller.
FsUnlink(id) ==
    /\ part' = [part EXCEPT ![id] = None]
    /\ UNCHANGED <<data, temp, inbox, published>>

-----------------------------------------------------------------------------
(* A request arrives: the handler has authorized the cookie, read the       *)
(* session id and passed ensure_enabled and ensure_session.                 *)

Entry == [create |-> "lookup", chunk |-> "find", complete |-> "fin",
          cancel |-> "cfind"]

\* Bound: only as many create requests as there are records left for them.
RecordsLeft ==
    made + Cardinality({p \in Procs : pc[p] \in {"lookup", "open"}})
         + Cardinality({o \in late : o.pc = "open"}) < MaxRecs

Arrive(p, op, id, off) ==
    /\ pc[p] = "idle"
    /\ paired
    /\ op = "create" => RecordsLeft /\ (Retries \/ id \notin created)
    /\ op # "chunk" => off = 0
    /\ created' = IF op = "create" THEN created \cup {id} ELSE created
    /\ Goto(p, Entry[op])
    /\ req' = [req EXCEPT ![p] = [id |-> id, sid |-> sid, off |-> off,
                                  rec |-> None, ino |-> None, slot |-> None]]
    /\ UNCHANGED <<sessionVars, tableVars, lockVars, resultVars, diskVars,
                   late, drops>>

-----------------------------------------------------------------------------
(* create_upload                                                            *)

CreateUploadLookup(p) ==
    /\ pc[p] = "lookup"
    /\ uploads[req[p].id] = None
    /\ Cardinality(ActiveUploads) < MaxActive
    /\ Goto(p, "open")
    /\ UNCHANGED <<sessionVars, tableVars, lockVars, resultVars, diskVars, req, envVars>>

CreateUploadOpen(p) ==
    /\ pc[p] = "open"
    /\ FsCreate(req[p])
    /\ rsid' = [rsid EXCEPT ![made + 1] = req[p].sid]
    /\ req' = [req EXCEPT ![p].rec = made + 1]
    /\ Goto(p, "insert")
    /\ UNCHANGED <<sessionVars, uploads, received, lockVars, resultVars, envVars>>

CreateUploadInsert(p) ==
    /\ pc[p] = "insert"
    /\ uploads' = [uploads EXCEPT ![req[p].id] = req[p].rec]
    /\ Return(p)
    /\ UNCHANGED <<sessionVars, made, rsid, received, resultVars, diskVars, envVars>>

\* A known id answers with its ticket or a conflict, a full table with a
\* conflict, an existing part file with the error of create_new.
CreateUploadAnswer(p) ==
    /\ \/ pc[p] = "lookup" /\ uploads[req[p].id] # None
       \/ pc[p] = "lookup" /\ Cardinality(ActiveUploads) >= MaxActive
       \/ pc[p] = "open" /\ part[req[p].id] # None
    /\ Return(p)
    /\ UNCHANGED <<sessionVars, tableVars, resultVars, diskVars, envVars>>

-----------------------------------------------------------------------------
(* write_upload_chunk                                                       *)

WriteUploadChunkFind(p) ==
    /\ pc[p] = "find"
    /\ UploadRecord(req[p].id, req[p].sid)
    /\ req' = [req EXCEPT ![p].rec = uploads[req[p].id]]
    /\ Goto(p, "lock")
    /\ UNCHANGED <<sessionVars, tableVars, lockVars, resultVars, diskVars, envVars>>

\* Mutation: the verified offset advances before the chunk is written.
MutantEarlyOffset(p) ==
    /\ pc[p] = "lock" /\ Free(req[p].rec) /\ req[p].off = received[req[p].rec]
    /\ lock' = [lock EXCEPT ![req[p].rec] = p]
    /\ received' = [received EXCEPT ![req[p].rec] = req[p].off + 1]
    /\ Goto(p, "wopen")
    /\ UNCHANGED <<sessionVars, uploads, made, rsid, fin, resultVars, diskVars,
                   req, envVars>>

\* The offset check; Chunks keeps the end of the chunk within the size.
WriteUploadChunkLock(p) ==
    /\ pc[p] = "lock"
    /\ Free(req[p].rec)
    /\ req[p].off = received[req[p].rec]
    /\ lock' = [lock EXCEPT ![req[p].rec] = p]
    /\ Goto(p, "wopen")
    /\ UNCHANGED <<sessionVars, tableVars, fin, resultVars, diskVars, req, envVars>>

WriteUploadChunkOpen(p) ==
    /\ pc[p] = "wopen"
    /\ part[req[p].id] # None
    /\ req' = [req EXCEPT ![p].ino = part[req[p].id]]
    /\ Goto(p, "write")
    /\ UNCHANGED <<sessionVars, tableVars, lockVars, resultVars, diskVars, envVars>>

WriteUploadChunkWrite(p) ==
    /\ pc[p] = "write"
    /\ FsWrite(req[p])
    /\ Goto(p, "commit")
    /\ UNCHANGED <<sessionVars, tableVars, lockVars, resultVars, req, envVars>>

\* Mutation: the offset advances by one chunk too many.
MutantOffsetPastChunk(p) ==
    /\ pc[p] = "commit"
    /\ received' = [received EXCEPT ![req[p].rec] = req[p].off + 2]
    /\ lock' = [lock EXCEPT ![req[p].rec] = None]
    /\ Goto(p, "pace")
    /\ UNCHANGED <<sessionVars, uploads, made, rsid, fin, resultVars, diskVars,
                   req, envVars>>

\* After the flush: advance the verified offset and unlock.
WriteUploadChunkCommit(p) ==
    /\ pc[p] = "commit"
    /\ received' = [received EXCEPT ![req[p].rec] = req[p].off + 1]
    /\ lock' = [lock EXCEPT ![req[p].rec] = None]
    /\ Goto(p, "pace")
    /\ UNCHANGED <<sessionVars, uploads, made, rsid, fin, resultVars, diskVars,
                   req, envVars>>

\* Unknown or foreign record, stale offset, missing part file, or the end of
\* pace (whose own errors change nothing).
WriteUploadChunkAnswer(p) ==
    /\ \/ pc[p] = "find" /\ ~UploadRecord(req[p].id, req[p].sid)
       \/ pc[p] = "lock" /\ Free(req[p].rec) /\ req[p].off # received[req[p].rec]
       \/ pc[p] = "wopen" /\ part[req[p].id] = None
       \/ pc[p] = "pace"
    /\ Return(p)
    /\ UNCHANGED <<sessionVars, tableVars, resultVars, diskVars, envVars>>

-----------------------------------------------------------------------------
(* complete_upload                                                          *)

\* Mutation: completion does not wait for finalize_lock.
MutantNoFinalizeLock(p) ==
    /\ pc[p] = "fin"
    /\ Goto(p, "ticket")
    /\ UNCHANGED <<sessionVars, tableVars, lockVars, resultVars, diskVars, req, envVars>>

CompleteUploadFinalize(p) ==
    /\ pc[p] = "fin"
    /\ fin = None
    /\ fin' = p
    /\ Goto(p, "ticket")
    /\ UNCHANGED <<sessionVars, tableVars, lock, resultVars, diskVars, req, envVars>>

CompleteUploadFind(p) ==
    /\ pc[p] = "ticket"
    /\ ~CompletedUpload(req[p].id, req[p].sid)
    /\ UploadRecord(req[p].id, req[p].sid)
    /\ req' = [req EXCEPT ![p].rec = uploads[req[p].id]]
    /\ Goto(p, "check")
    /\ UNCHANGED <<sessionVars, tableVars, lockVars, resultVars, diskVars, envVars>>

\* The state mutex is taken, read and dropped without an await in between.
CompleteUploadCheck(p) ==
    /\ pc[p] = "check"
    /\ Free(req[p].rec)
    /\ received[req[p].rec] = Size
    /\ Goto(p, "hash")
    /\ UNCHANGED <<sessionVars, tableVars, lockVars, resultVars, diskVars, req, envVars>>

\* hash_file returns, then unique_destination picks the path.  The rename of
\* move_completed_file fails across volumes, and may fail on one.
CompleteUploadHash(p) ==
    /\ pc[p] = "hash"
    /\ part[req[p].id] # None
    /\ \E d \in Slots :
          /\ UniqueDestination(d)
          /\ req' = [req EXCEPT ![p].slot = d]
    /\ Goto(p, "copy") \/ (~CrossVolume /\ Goto(p, "move"))
    /\ UNCHANGED <<sessionVars, tableVars, lockVars, resultVars, diskVars, envVars>>

\* move_completed_file when the rename succeeds.
MoveCompletedFile(p) ==
    /\ pc[p] = "move"
    /\ FsMove(req[p])
    /\ Goto(p, "record")
    /\ UNCHANGED <<sessionVars, tableVars, lockVars, resultVars, req, envVars>>

\* The rename failed: copy, compare the size, rename the copy,
\* remove the source.
MoveCompletedCopy(p) ==
    /\ pc[p] = "copy"
    /\ FsCopy(req[p])
    /\ Size - 1 \in data[part[req[p].id]]
    /\ Goto(p, "publish")
    /\ UNCHANGED <<sessionVars, tableVars, lockVars, resultVars, req, envVars>>

\* The source is gone or the copy is short: no copy stays and the move fails.
MoveCompletedShort(p) ==
    /\ pc[p] = "copy"
    /\ \/ part[req[p].id] = None
       \/ part[req[p].id] # None /\ Size - 1 \notin data[part[req[p].id]]
    /\ temp' = [temp EXCEPT ![req[p].id] = None]
    /\ Return(p)
    /\ UNCHANGED <<sessionVars, tableVars, resultVars, part, data, inbox,
                   published, envVars>>

MoveCompletedPublish(p) ==
    /\ pc[p] = "publish"
    /\ FsPublish(req[p])
    /\ Goto(p, "rmsrc")
    /\ UNCHANGED <<sessionVars, tableVars, lockVars, resultVars, req, envVars>>

MoveCompletedRemoveSource(p) ==
    /\ pc[p] = "rmsrc"
    /\ FsUnlink(req[p].id)
    /\ Goto(p, "record")
    /\ UNCHANGED <<sessionVars, tableVars, lockVars, resultVars, req, envVars>>

\* After the move: forget the record, count and remember the result, unlock.
CompleteUploadRecord(p) ==
    /\ pc[p] = "record"
    /\ uploads' = [uploads EXCEPT ![req[p].id] = None]
    /\ tickets' = PushTicket([id |-> req[p].id, sid |-> req[p].sid,
                              slot |-> req[p].slot, at |-> uploads_completed])
    /\ uploads_completed' = uploads_completed + 1
    /\ Return(p)
    /\ UNCHANGED <<sessionVars, made, rsid, received, diskVars, envVars>>

\* Mutation: an incomplete upload is waited for, not refused.
MutantWaitForChunks(p) ==
    /\ \/ pc[p] = "ticket" /\ CompletedUpload(req[p].id, req[p].sid) /\ Return(p)
       \/ pc[p] = "ticket" /\ ~UploadRecord(req[p].id, req[p].sid) /\ Return(p)
       \/ pc[p] \in {"hash", "move"} /\ part[req[p].id] = None /\ Return(p)
       \/ pc[p] = "publish" /\ temp[req[p].id] = None /\ Return(p)
       \/ /\ pc[p] = "check" /\ Free(req[p].rec) /\ received[req[p].rec] # Size
          /\ Goto(p, "ticket")
          /\ UNCHANGED <<lockVars, req>>
    /\ UNCHANGED <<sessionVars, tableVars, resultVars, diskVars, envVars>>

\* A remembered result, an unknown or incomplete upload, or a file operation
\* that fails because its source is gone.
CompleteUploadAnswer(p) ==
    /\ \/ pc[p] = "ticket" /\ CompletedUpload(req[p].id, req[p].sid)
       \/ pc[p] = "ticket" /\ ~UploadRecord(req[p].id, req[p].sid)
       \/ pc[p] = "check" /\ Free(req[p].rec) /\ received[req[p].rec] # Size
       \/ pc[p] \in {"hash", "move"} /\ part[req[p].id] = None
       \/ pc[p] = "publish" /\ temp[req[p].id] = None
    /\ Return(p)
    /\ UNCHANGED <<sessionVars, tableVars, resultVars, diskVars, envVars>>

-----------------------------------------------------------------------------
(* cancel_upload                                                            *)

CancelUploadFind(p) ==
    /\ pc[p] = "cfind"
    /\ ~CompletedUpload(req[p].id, req[p].sid)
    /\ UploadRecord(req[p].id, req[p].sid)
    /\ req' = [req EXCEPT ![p].rec = uploads[req[p].id]]
    /\ Goto(p, "cremove")
    /\ UNCHANGED <<sessionVars, tableVars, lockVars, resultVars, diskVars, envVars>>

\* uploads.write().remove(&id): whatever record the id has by now.
CancelUploadRemove(p) ==
    /\ pc[p] = "cremove"
    /\ uploads' = [uploads EXCEPT ![req[p].id] = None]
    /\ Goto(p, "cwait")
    /\ UNCHANGED <<sessionVars, made, rsid, received, lockVars, resultVars,
                   diskVars, req, envVars>>

CancelUploadLock(p) ==
    /\ pc[p] = "cwait"
    /\ Free(req[p].rec)
    /\ lock' = [lock EXCEPT ![req[p].rec] = p]
    /\ Goto(p, "unlink")
    /\ UNCHANGED <<sessionVars, tableVars, fin, resultVars, diskVars, req, envVars>>

CancelUploadUnlink(p) ==
    /\ pc[p] = "unlink"
    /\ FsUnlink(req[p].id)
    /\ Return(p)
    /\ UNCHANGED <<sessionVars, tableVars, resultVars, envVars>>

\* A finished upload answers Ok without doing anything, an unknown one fails.
CancelUploadAnswer(p) ==
    /\ pc[p] = "cfind"
    /\ CompletedUpload(req[p].id, req[p].sid) \/ ~UploadRecord(req[p].id, req[p].sid)
    /\ Return(p)
    /\ UNCHANGED <<sessionVars, tableVars, resultVars, diskVars, envVars>>

-----------------------------------------------------------------------------
(* The session: pairing, and the three ways it ends.  rotate_pairing and    *)
(* the disconnect handler cancel the uploads of the session they read first *)
(* and change the session last; rotate_pairing_if_expired rotates first.    *)

Pair ==
    /\ ~paired
    /\ paired' = TRUE
    /\ UNCHANGED <<sid, ended, ender, tableVars, lockVars, resultVars, diskVars,
                   pc, req, envVars>>

NotEnding == [pc |-> "idle", sid |-> 1, todo |-> {}]

\* rotate_pairing and rotate_pairing_if_expired run on the host's UI thread, one
\* at a time; the disconnect handler authorizes its token and closes the peer.
StartEnd(e) ==
    /\ e \in MayEnd
    /\ ender[e].pc = "idle"
    /\ e = "disconnect" => paired
    /\ e # "disconnect" =>
          /\ sid < MaxSession
          /\ ender["rotate"].pc = "idle" /\ ender["expire"].pc = "idle"
    /\ e = "expire" => ~paired
    /\ sid' = IF e = "expire" THEN sid + 1 ELSE sid
    /\ ender' = [ender EXCEPT ![e] = [pc |-> IF e = "disconnect" THEN "close" ELSE "collect",
                                     sid |-> sid, todo |-> {}]]
    /\ ended' = IF e = "disconnect" THEN ended ELSE ended \cup {sid}
    /\ UNCHANGED <<paired, tableVars, lockVars, resultVars, diskVars, pc, req, envVars>>

\* The peer is closed: disconnect reads the session id of that moment.
DisconnectPeerClosed(e) ==
    /\ ender[e].pc = "close"
    /\ ender' = [ender EXCEPT ![e].pc = "collect", ![e].sid = sid]
    /\ ended' = ended \cup {sid}
    /\ UNCHANGED <<sid, paired, tableVars, lockVars, resultVars, diskVars, pc, req, envVars>>

\* cancel_session_uploads: empty the table under its write lock, ...
CancelSessionCollect(e) ==
    LET mine == {id \in Ids : UploadRecord(id, ender[e].sid)} IN
    /\ ender[e].pc = "collect"
    /\ uploads' = [id \in Ids |-> IF id \in mine THEN None ELSE uploads[id]]
    /\ ender' = [ender EXCEPT ![e].pc = "unlink", ![e].todo = mine]
    /\ UNCHANGED <<sid, paired, ended, made, rsid, received, lockVars, resultVars,
                   diskVars, pc, req, envVars>>

\* Mutation: the part paths of the collected records are kept.
MutantKeepParts(e, id) ==
    /\ ender[e].pc = "unlink" /\ id \in ender[e].todo
    /\ ender' = [ender EXCEPT ![e].todo = @ \ {id}]
    /\ UNCHANGED <<sid, paired, ended, tableVars, lockVars, resultVars, diskVars,
                   pc, req, envVars>>

\* ... remove the part paths one by one, without the state mutexes, ...
CancelSessionUnlink(e, id) ==
    /\ ender[e].pc = "unlink"
    /\ id \in ender[e].todo
    /\ FsUnlink(id)
    /\ ender' = [ender EXCEPT ![e].todo = @ \ {id}]
    /\ UNCHANGED <<sid, paired, ended, tableVars, lockVars, resultVars, pc, req, envVars>>

\* Mutation: ending one session forgets the results of every session.
MutantForgetAllResults(e) ==
    /\ ender[e].pc = "unlink" /\ ender[e].todo = {}
    /\ tickets' = {}
    /\ ender' = [ender EXCEPT ![e] =
                    IF e = "expire" THEN NotEnding ELSE [@ EXCEPT !.pc = "session"]]
    /\ UNCHANGED <<sid, paired, ended, tableVars, lockVars, uploads_completed,
                   diskVars, pc, req, envVars>>

\* ... and forget the session's completed results.
CancelSessionTickets(e) ==
    /\ ender[e].pc = "unlink"
    /\ ender[e].todo = {}
    /\ tickets' = {t \in tickets : t.sid # ender[e].sid}
    /\ ender' = [ender EXCEPT ![e] =
                    IF e = "expire" THEN NotEnding ELSE [@ EXCEPT !.pc = "session"]]
    /\ UNCHANGED <<sid, paired, ended, tableVars, lockVars, uploads_completed,
                   diskVars, pc, req, envVars>>

\* SessionManager::rotate and SessionManager::disconnect.
EndSession(e) ==
    /\ ender[e].pc = "session"
    /\ e = "rotate" => sid < MaxSession
    /\ sid' = IF e = "rotate" THEN sid + 1 ELSE sid
    /\ paired' = FALSE
    /\ ender' = [ender EXCEPT ![e] = NotEnding]
    /\ UNCHANGED <<ended, tableVars, lockVars, resultVars, diskVars, pc, req, envVars>>

-----------------------------------------------------------------------------
(* A client goes away: its handler future is dropped at an await point.  An *)
(* operation already in the blocking pool still runs, and nobody waits.     *)

Drop(p) ==
    /\ drops < MaxDrops
    /\ pc[p] \in AwaitPcs
    /\ drops' = drops + 1
    /\ late' = IF pc[p] \in LatePcs
               THEN late \cup {[pc |-> pc[p], q |-> req[p]]}
               ELSE late
    /\ Return(p)
    /\ UNCHANGED <<sessionVars, tableVars, resultVars, diskVars, created>>

LateFails(o) ==
    \/ o.pc = "open" /\ part[o.q.id] # None
    \/ o.pc \in {"move", "copy"} /\ part[o.q.id] = None
    \/ o.pc = "publish" /\ temp[o.q.id] = None

Late(o) ==
    /\ \/ o.pc = "open" /\ FsCreate(o.q)
       \/ o.pc = "write" /\ FsWrite(o.q) /\ UNCHANGED made
       \/ o.pc = "move" /\ FsMove(o.q) /\ UNCHANGED made
       \/ o.pc = "copy" /\ FsCopy(o.q) /\ UNCHANGED made
       \/ o.pc = "publish" /\ FsPublish(o.q) /\ UNCHANGED made
       \/ o.pc \in {"rmsrc", "unlink"} /\ FsUnlink(o.q.id) /\ UNCHANGED made
       \/ LateFails(o) /\ UNCHANGED <<diskVars, made>>
    /\ late' = late \ {o}
    /\ UNCHANGED <<sessionVars, uploads, rsid, received, lockVars, resultVars,
                   pc, req, drops, created>>

-----------------------------------------------------------------------------
\* FileTransferManager::new: cleanup_staging_directory has emptied the staging
\* directory, the Inbox holds nothing of this run, the session is unpaired.
Init ==
    /\ sid = 1 /\ paired = FALSE /\ ended = {}
    /\ ender = [e \in Enders |-> NotEnding]
    /\ uploads = [id \in Ids |-> None]
    /\ made = 0
    /\ rsid = [r \in Recs |-> 1]
    /\ received = [r \in Recs |-> 0]
    /\ lock = [r \in Recs |-> None]
    /\ fin = None
    /\ tickets = {} /\ uploads_completed = 0
    /\ part = [id \in Ids |-> None]
    /\ data = [r \in Recs |-> {}]
    /\ temp = [id \in Ids |-> None]
    /\ inbox = [d \in Slots |-> None]
    /\ pc = [p \in Procs |-> "idle"]
    /\ req = [p \in Procs |-> None]
    /\ late = {} /\ drops = 0 /\ created = {}
    /\ published = {}

CreateUpload(p) ==
    \/ CreateUploadLookup(p) \/ CreateUploadOpen(p) \/ CreateUploadInsert(p)
    \/ CreateUploadAnswer(p)

WriteUploadChunk(p) ==
    \/ WriteUploadChunkFind(p) \/ WriteUploadChunkLock(p) \/ WriteUploadChunkOpen(p)
    \/ WriteUploadChunkWrite(p) \/ WriteUploadChunkCommit(p)
    \/ WriteUploadChunkAnswer(p)

CompleteUpload(p) ==
    \/ CompleteUploadFinalize(p) \/ CompleteUploadFind(p) \/ CompleteUploadCheck(p)
    \/ CompleteUploadHash(p) \/ MoveCompletedFile(p) \/ MoveCompletedCopy(p)
    \/ MoveCompletedShort(p) \/ MoveCompletedPublish(p)
    \/ MoveCompletedRemoveSource(p) \/ CompleteUploadRecord(p)
    \/ CompleteUploadAnswer(p)

CancelUpload(p) ==
    \/ CancelUploadFind(p) \/ CancelUploadRemove(p) \/ CancelUploadLock(p)
    \/ CancelUploadUnlink(p) \/ CancelUploadAnswer(p)

Handler(p) ==
    CreateUpload(p) \/ WriteUploadChunk(p) \/ CompleteUpload(p) \/ CancelUpload(p)

SessionEnd(e) ==
    \/ StartEnd(e) \/ DisconnectPeerClosed(e) \/ CancelSessionCollect(e) \/ CancelSessionTickets(e)
    \/ EndSession(e)
    \/ \E id \in Ids : CancelSessionUnlink(e, id)

Next ==
    \/ \E p \in Procs, op \in DOMAIN Entry, id \in Ids, off \in Chunks :
          Arrive(p, op, id, off)
    \/ \E p \in Procs : Handler(p) \/ Drop(p)
    \/ Pair
    \/ \E e \in Enders : SessionEnd(e)
    \/ \E o \in late : Late(o)

Spec == Init /\ [][Next]_vars

\* tokio polls every task that can run and its mutexes are FIFO, so a handler
\* that is enabled again and again runs: strong fairness.  Clients, the host
\* user and the pool's abandoned operations owe nothing.
FairSpec == Spec /\ \A p \in Procs : SF_vars(Handler(p))

-----------------------------------------------------------------------------
(* Properties                                                               *)

\* Nobody is at work: no handler, no session end, no abandoned operation.
Quiet ==
    /\ \A p \in Procs : pc[p] = "idle"
    /\ \A e \in Enders : ender[e].pc = "idle"
    /\ late = {}

\* Two finalizations never pick the same destination and none replaces a file
\* that is already in the Inbox: unique_destination looks and rename replaces,
\* and only finalize_lock keeps the two together.
NeverOverwritesInbox ==
    [][\A d \in Slots : inbox[d] # None => inbox'[d] = inbox[d]]_vars

\* Between unique_destination and the rename nobody else finalizes and the
\* chosen Inbox path stays free.
FinalizePcs == {"ticket", "check", "hash", "move", "copy", "publish", "rmsrc", "record"}
DestinationReserved ==
    \A p \in Procs :
        /\ pc[p] \in FinalizePcs => fin = p
        /\ pc[p] \in {"move", "copy", "publish"} => inbox[req[p].slot] = None

\* Once an upload is in the Inbox and its completion is over, the result is
\* remembered for a repeated request until the session ends or more results than
\* the table keeps were recorded (completed_uploads is written after the move),
\* unless a client went away in the middle of its request.
ResultRemembered ==
    drops = 0 => \A x \in published :
        \/ rsid[x[2]] \in ended
        \/ uploads_completed > MaxTickets
        \/ \E t \in tickets :
              t.id = x[1] /\ t.sid = rsid[x[2]] /\ t.slot = x[3]
        \/ \E p \in Procs : fin = p /\ pc[p] \in {"rmsrc", "record"}
                                    /\ req[p].id = x[1]

\* The eight awaits of a completion look like one step: what happens to the
\* Inbox and to the count of completed uploads is a behaviour of Inbox.
AtomicInbox == INSTANCE Inbox WITH
    Files <- Recs, Whole <- Chunks, completed <- uploads_completed,
    delivered <- {x[2] : x \in published}
DeliversAtomically == AtomicInbox!Spec

\* A file in the Inbox has every chunk of its upload: complete_upload looks at
\* the record's counter and then moves whatever the part path names.
PublishedWhole == \A d \in Slots : inbox[d] # None => inbox[d].data = Chunks

\* When nobody is at work the staging directory and the upload table agree:
\* no part file without a record, no record without its part file, unless a
\* client went away in the middle of its request.
NoStagingLeak == drops = 0 /\ Quiet => part = uploads

\* Every request is answered: no handler waits for a mutex forever.
RequestsAnswered == \A p \in Procs : pc[p] # "idle" ~> pc[p] = "idle"
==============================================================================
