------------------------------ MODULE Downloads ------------------------------
(***************************************************************************)
(* The download half of FileTransferManager (crates/transport/src/         *)
(* file_transfer.rs): the Outbox, the checksum worker, open_download, the  *)
(* body stream with its pacing, and DownloadGuard.                         *)
(*                                                                         *)
(* A file is a path with the number of its version; length and modification*)
(* time identify a version.  Positions in a file are counted in a unit of  *)
(* which one read returns up to Block.  A checksum is the version it was   *)
(* computed of.  Requests refused without changing anything (bad name, file*)
(* too large, malformed range, no session, transfer disabled) are left out.*)
(* A file that is deleted, and transfer that is switched off under an open *)
(* body, only make the next operation fail; every operation on a file may  *)
(* fail here at any time, and every body may be dropped.                   *)
(***************************************************************************)
EXTENDS Integers, FiniteSets

CONSTANTS
    Procs,      \* download requests that can be alive at once
    Paths,      \* Windows files
    MaxVer,     \* bound: versions of a file
    Len,        \* Len[f][v]: length of version v of file f
    Block,      \* DOWNLOAD_CHUNK_SIZE
    MaxIds,     \* bound: files ever queued
    MaxOutbox,  \* MAX_OUTBOX_FILES
    MaxSession, \* bound: sessions ever started
    MaxOpens,   \* bound: downloads ever answered with a body
    Headers,    \* Range headers that requests carry
    Mixed,      \* checksum of a file that changed while it was read
    None        \* no checksum, no request, nothing being hashed

Vers == 1..MaxVer
Ids  == 1..MaxIds
Sids == 1..MaxSession
Sha  == Vers \cup {Mixed, None}

\* A Range header: absent, `bytes=-a`, `bytes=a-` or `bytes=a-b`.
Header == [kind : {"none", "suffix", "from", "span"}, a : Nat, b : Nat]

\* The locals of open_download, then DownloadStreamState and DownloadGuard.
Request == [id : Ids, sid : Sids, header : Header, remove : BOOLEAN, sha : Sha,
            first : Nat, last : Nat, remaining : Nat, transferred : Nat]

ASSUME ConstantsAssumption ==
    /\ MaxVer \in Nat \ {0} /\ MaxIds \in Nat /\ MaxOutbox \in Nat
    /\ MaxSession \in Nat \ {0} /\ MaxOpens \in Nat /\ Block \in Nat \ {0}
    /\ IsFiniteSet(Procs)
    /\ Len \in [Paths -> [Vers -> Nat]] /\ Headers \subseteq Header
    /\ Mixed \notin Vers /\ None \notin Vers /\ Mixed # None
    /\ None \notin Request /\ None \notin [id : Ids, ver : Vers]

VARIABLES
    sid, paired,      \* SessionManager: current session id, paired flag
    drawing,          \* pause_while_drawing and a pointer is down
    ver,              \* Windows: the version of the file a path names
    outbox,           \* Inner.outbox: its keys
    queued,           \* ids given out: 1..queued
    path, modified,   \* OutgoingRecord.path, size and modified (a version)
    sha,              \* OutgoingRecord.public.sha256
    hashed, hashing,  \* checksum worker: jobs done, the job in hand
    pc, req,          \* where a request is, its locals
    sent,             \* history: positions handed to the client
    active, completed, failed,  \* active_downloads, downloads_completed,
                                \* failed_transfers
    opened            \* history: downloads that were answered with a body

sessionVars == <<sid, paired>>
recordVars  == <<queued, path, modified, sha>>
workerVars  == <<hashed, hashing>>
taskVars    == <<pc, req, sent>>
countVars   == <<active, completed, failed, opened>>
vars == <<sessionVars, drawing, ver, outbox, recordVars, workerVars,
          taskVars, countVars>>

\* The states of a request whose DownloadGuard is alive.
Streaming == {"body", "pace", "read"}
Pcs       == {"idle", "stat", "open"} \cup Streaming

Streams == {p \in Procs : pc[p] \in Streaming}

\* The length of a queued file.
Size(id) == Len[path[id]][modified[id]]

\* The stream's arithmetic: what is sent, what remains and what was asked for.
Progress(p) ==
    LET q == req[p] IN
    /\ q.first <= q.last /\ q.last < Size(q.id)
    /\ q.transferred + q.remaining = q.last - q.first + 1
    /\ sent[p] = q.first..(q.first + q.transferred - 1)

EnvType ==
    /\ sid \in Sids /\ paired \in BOOLEAN
    /\ drawing \in BOOLEAN /\ ver \in [Paths -> Vers]

RecordType ==
    /\ queued \in 0..MaxIds /\ outbox \subseteq 1..queued
    /\ path \in [1..queued -> Paths] /\ modified \in [1..queued -> Vers]
    /\ sha \in [1..queued -> Sha]

WorkerType ==
    /\ hashed \in 0..queued /\ hashing \in [id : Ids, ver : Vers] \cup {None}
    /\ hashing # None => hashed < queued /\ hashing.id = hashed + 1

TaskType ==
    /\ pc \in [Procs -> Pcs] /\ req \in [Procs -> Request \cup {None}]
    /\ sent \in [Procs -> SUBSET Nat]
    /\ \A p \in Procs : pc[p] # "idle" => req[p] \in Request /\ req[p].id <= queued

RangeType ==
    \A p \in Procs :
        /\ pc[p] = "stat" => req[p].transferred = 0 /\ sent[p] = {}
        /\ pc[p] \in {"open"} \cup Streaming => Progress(p)

CountType == active \in Int /\ completed \in Nat /\ failed \in Nat /\ opened \in Nat

\* Every variable has its type, and a request keeps count of its range.
TypeOK == EnvType /\ RecordType /\ WorkerType /\ TaskType /\ RangeType /\ CountType

-----------------------------------------------------------------------------
(* parse_range. *)

Least(m, n) == IF m <= n THEN m ELSE n

MutantSuffixAsPrefix(h, size) ==
    [first |-> IF h.kind \in {"none", "suffix"} THEN 0 ELSE h.a,
     last  |-> IF h.kind = "suffix" THEN Least(h.a, size) - 1
               ELSE IF h.kind = "span" THEN Least(h.b, size - 1) ELSE size - 1]

\* The range a header asks for; without one, the whole file.
ParseRange(h, size) ==
    [first |-> IF h.kind = "none" THEN 0
               ELSE IF h.kind = "suffix" THEN size - Least(h.a, size) ELSE h.a,
     last  |-> IF h.kind = "span" THEN Least(h.b, size - 1) ELSE size - 1]

\* A range that is served: the checks at the end of parse_range, and
\* open_download's own, which cannot fail after them.
Satisfiable(h, size) ==
    LET r == ParseRange(h, size) IN
    /\ size > 0
    /\ h.kind = "suffix" => h.a > 0
    /\ r.first < size /\ r.last < size /\ r.first <= r.last

-----------------------------------------------------------------------------
(* Windows, the session, the settings: what happens around a download.     *)

\* Another program writes the file anew.
Save(f) ==
    /\ ver[f] < MaxVer
    /\ ver' = [ver EXCEPT ![f] = @ + 1]
    /\ UNCHANGED <<sessionVars, drawing, outbox, recordVars, workerVars, taskVars, countVars>>

Pair ==
    /\ ~paired
    /\ paired' = TRUE
    /\ UNCHANGED <<sid, drawing, ver, outbox, recordVars, workerVars, taskVars, countVars>>

\* rotate and rotate_if_expired: a new session id, not paired.
Rotate ==
    /\ sid < MaxSession
    /\ sid' = sid + 1 /\ paired' = FALSE
    /\ UNCHANGED <<drawing, ver, outbox, recordVars, workerVars, taskVars, countVars>>

\* disconnect keeps the session id.
Disconnect ==
    /\ paired
    /\ paired' = FALSE
    /\ UNCHANGED <<sid, drawing, ver, outbox, recordVars, workerVars, taskVars, countVars>>

\* A contact begins or ends, or the user changes pause_while_drawing.
Draw ==
    /\ drawing' = ~drawing
    /\ UNCHANGED <<sessionVars, ver, outbox, recordVars, workerVars, taskVars, countVars>>

-----------------------------------------------------------------------------
(* The Outbox and the checksum worker.  Jobs are sent in the order of the  *)
(* ids, so the queue of the worker is hashed+1..queued; the send fails only*)
(* when the manager is gone.                                               *)

QueueOutgoing(f) ==
    /\ Cardinality(outbox) < MaxOutbox
    /\ queued < MaxIds
    /\ queued' = queued + 1
    /\ outbox' = outbox \cup {queued + 1}
    /\ path' = [i \in 1..(queued + 1) |-> IF i <= queued THEN path[i] ELSE f]
    /\ modified' = [i \in 1..(queued + 1) |-> IF i <= queued THEN modified[i] ELSE ver[f]]
    /\ sha' = [i \in 1..(queued + 1) |-> IF i <= queued THEN sha[i] ELSE None]
    /\ UNCHANGED <<sessionVars, drawing, ver, workerVars, taskVars, countVars>>

\* By the host's user or by DELETE /api/files/outbox/{id}.
RemoveOutgoing(id) ==
    /\ id \in outbox
    /\ outbox' = outbox \ {id}
    /\ UNCHANGED <<sessionVars, drawing, ver, recordVars, workerVars, taskVars, countVars>>

ClearOutgoing ==
    /\ outbox' = {}
    /\ UNCHANGED <<sessionVars, drawing, ver, recordVars, workerVars, taskVars, countVars>>

\* hash_file opens the next job's file, or fails.
HashOpen ==
    /\ hashing = None /\ hashed < queued
    /\ \/ /\ hashing' = [id |-> hashed + 1, ver |-> ver[path[hashed + 1]]]
          /\ hashed' = hashed
       \/ hashed' = hashed + 1 /\ hashing' = None
    /\ UNCHANGED <<sessionVars, drawing, ver, outbox, recordVars, taskVars, countVars>>

\* hash_file returns.  A file written meanwhile hashes to the old version, the
\* new one or neither; a record removed meanwhile gets no checksum.
HashFile ==
    LET i == hashing.id IN
    /\ hashing # None
    /\ \/ sha' = sha
       \/ /\ i \in outbox
          /\ \E h \in IF ver[path[i]] = hashing.ver THEN {hashing.ver}
                      ELSE {hashing.ver, ver[path[i]], Mixed} :
                sha' = [sha EXCEPT ![i] = h]
    /\ hashed' = hashed + 1 /\ hashing' = None
    /\ UNCHANGED <<sessionVars, drawing, ver, outbox, queued, path, modified,
                   taskVars, countVars>>

-----------------------------------------------------------------------------
(* open_download.                                                          *)

SessionCurrent(p) == sid = req[p].sid /\ paired

Goto(p, l) == pc' = [pc EXCEPT ![p] = l]

\* The request is over: its locals go.
Return(p) ==
    /\ Goto(p, "idle")
    /\ req' = [req EXCEPT ![p] = None]
    /\ sent' = [sent EXCEPT ![p] = {}]

\* ensure_enabled, ensure_session, and a clone of the record.
OpenDownload(p, id, h, rm) ==
    /\ pc[p] = "idle"
    /\ paired /\ id \in outbox
    /\ Goto(p, "stat")
    /\ req' = [req EXCEPT ![p] = [id |-> id, sid |-> sid, header |-> h, remove |-> rm,
                                  sha |-> sha[id], first |-> 0, last |-> 0,
                                  remaining |-> 0, transferred |-> 0]]
    /\ sent' = [sent EXCEPT ![p] = {}]
    /\ UNCHANGED <<sessionVars, drawing, ver, outbox, recordVars, workerVars, countVars>>

\* The file is the one that was queued.
Unchanged(id) == ver[path[id]] = modified[id]

\* The stream's range, and whether its end clears the Outbox entry.
Ranged(q, r, rm) ==
    [q EXCEPT !.first = r.first, !.last = r.last, !.remaining = r.last - r.first + 1,
              !.remove = rm]

MutantSkipModified(p) ==
    LET q == req[p]  r == ParseRange(q.header, Size(q.id)) IN
    /\ pc[p] = "stat"
    /\ Satisfiable(q.header, Size(q.id))
    /\ req' = [req EXCEPT ![p] = Ranged(q, r, q.remove /\ r.first = 0
                                                     /\ r.last = Size(q.id) - 1)]
    /\ Goto(p, "open")
    /\ UNCHANGED <<sessionVars, drawing, ver, outbox, recordVars, workerVars,
                   sent, countVars>>

MutantRemoveAnyRange(p) ==
    LET q == req[p]  r == ParseRange(q.header, Size(q.id)) IN
    /\ pc[p] = "stat"
    /\ Unchanged(q.id) /\ Satisfiable(q.header, Size(q.id))
    /\ req' = [req EXCEPT ![p] = Ranged(q, r, q.remove)]
    /\ Goto(p, "open")
    /\ UNCHANGED <<sessionVars, drawing, ver, outbox, recordVars, workerVars,
                   sent, countVars>>

\* fs::metadata agrees with the record and the range can be served.
OpenCheck(p) ==
    LET q == req[p]  r == ParseRange(q.header, Size(q.id)) IN
    /\ pc[p] = "stat"
    /\ Unchanged(q.id) /\ Satisfiable(q.header, Size(q.id))
    /\ req' = [req EXCEPT ![p] = Ranged(q, r, q.remove /\ r.first = 0
                                                     /\ r.last = Size(q.id) - 1)]
    /\ Goto(p, "open")
    /\ UNCHANGED <<sessionVars, drawing, ver, outbox, recordVars, workerVars,
                   sent, countVars>>

\* An empty file is delivered by its headers: there is no stream and no guard.
OpenEmpty(p) ==
    LET q == req[p] IN
    /\ pc[p] = "stat"
    /\ Unchanged(q.id) /\ Size(q.id) = 0 /\ q.header.kind = "none"
    /\ opened < MaxOpens
    /\ completed' = completed + 1 /\ opened' = opened + 1
    /\ outbox' = IF q.remove THEN outbox \ {q.id} ELSE outbox
    /\ Return(p)
    /\ UNCHANGED <<sessionVars, drawing, ver, recordVars, workerVars, active, failed>>

\* fs::File::open and seek; the path may name another version by now.
OpenFile(p) ==
    /\ pc[p] = "open"
    /\ opened < MaxOpens
    /\ active' = active + 1 /\ opened' = opened + 1
    /\ Goto(p, "body")
    /\ UNCHANGED <<sessionVars, drawing, ver, outbox, recordVars, workerVars,
                   req, sent, completed, failed>>

\* A check or an operation fails, or the client goes away at its await.
OpenFails(p) ==
    /\ pc[p] \in {"stat", "open"}
    /\ Return(p)
    /\ UNCHANGED <<sessionVars, drawing, ver, outbox, recordVars, workerVars, countVars>>

-----------------------------------------------------------------------------
(* The body: stream::unfold, pace and DownloadGuard.  A body that yields an *)
(* error is not polled again: hyper drops it, and the guard with it.       *)

\* The entry of a finished download goes, if its request asked for that.
ClearedBy(q) == IF q.remove THEN outbox \ {q.id} ELSE outbox

\* Every byte was handed over and the session goes on.
Delivered(p) == sid = req[p].sid /\ req[p].transferred >= req[p].last - req[p].first + 1

MutantUncountedSessionEnd(p) ==
    /\ active' = active - 1
    /\ IF Delivered(p)
       THEN completed' = completed + 1 /\ failed' = failed /\ outbox' = ClearedBy(req[p])
       ELSE /\ failed' = IF sid = req[p].sid THEN failed + 1 ELSE failed
            /\ UNCHANGED <<completed, outbox>>
    /\ Return(p)
    /\ UNCHANGED <<sessionVars, drawing, ver, recordVars, workerVars, opened>>

\* DownloadGuard::drop of a body that was not completed.
GuardDrop(p) ==
    /\ active' = active - 1
    /\ IF Delivered(p)
       THEN completed' = completed + 1 /\ failed' = failed /\ outbox' = ClearedBy(req[p])
       ELSE failed' = failed + 1 /\ UNCHANGED <<completed, outbox>>
    /\ Return(p)
    /\ UNCHANGED <<sessionVars, drawing, ver, recordVars, workerVars, opened>>

\* The next block is asked for.
PollBody(p) ==
    /\ pc[p] = "body" /\ req[p].remaining > 0
    /\ Goto(p, "pace")
    /\ UNCHANGED <<sessionVars, drawing, ver, outbox, recordVars, workerVars,
                   req, sent, countVars>>

\* pace returns Ok: nobody drew and the session is the request's.  The sleep of
\* the rate limit lies within "pace" when the check after it fails (PaceFails)
\* and within "read" when it agrees.
Pace(p) ==
    /\ pc[p] = "pace" /\ ~drawing /\ SessionCurrent(p)
    /\ Goto(p, "read")
    /\ UNCHANGED <<sessionVars, drawing, ver, outbox, recordVars, workerVars,
                   req, sent, countVars>>

MutantNoCheckWhileDrawing(p) ==
    /\ pc[p] = "pace" /\ ~drawing /\ ~SessionCurrent(p)
    /\ GuardDrop(p)

\* An ensure_session of pace fails; one of them is in the loop that waits
\* while somebody draws.
PaceFails(p) ==
    /\ pc[p] = "pace" /\ ~SessionCurrent(p)
    /\ GuardDrop(p)

MutantShortReadIgnored(p) ==
    LET q == req[p]  amount == Least(q.remaining, Block) IN
    /\ pc[p] = "read"
    /\ \E n \in 1..amount :
          /\ req' = [req EXCEPT ![p].remaining = @ - amount, ![p].transferred = @ + n]
          /\ sent' = [sent EXCEPT ![p] = @ \cup ((q.first + q.transferred)..
                                                 (q.first + q.transferred + n - 1))]
    /\ Goto(p, "body")
    /\ UNCHANGED <<sessionVars, drawing, ver, outbox, recordVars, workerVars, countVars>>

\* A read returns up to a block; it may return less.
Read(p) ==
    LET q == req[p] IN
    /\ pc[p] = "read"
    /\ \E n \in 1..Least(q.remaining, Block) :
          /\ req' = [req EXCEPT ![p].remaining = @ - n, ![p].transferred = @ + n]
          /\ sent' = [sent EXCEPT ![p] = @ \cup ((q.first + q.transferred)..
                                                 (q.first + q.transferred + n - 1))]
    /\ Goto(p, "body")
    /\ UNCHANGED <<sessionVars, drawing, ver, outbox, recordVars, workerVars, countVars>>

\* The file ended early, or the read failed.
ReadFails(p) ==
    /\ pc[p] = "read"
    /\ GuardDrop(p)

\* Polled after its last block: DownloadGuard::complete, and the guard's drop.
BodyEnd(p) ==
    /\ pc[p] = "body" /\ req[p].remaining = 0
    /\ completed' = completed + 1 /\ active' = active - 1
    /\ outbox' = ClearedBy(req[p])
    /\ Return(p)
    /\ UNCHANGED <<sessionVars, drawing, ver, recordVars, workerVars, failed, opened>>

\* The client went away, transfer was disabled, or hyper has the
\* Content-Length it announced and does not poll again.
DropBody(p) ==
    /\ pc[p] \in Streaming
    /\ GuardDrop(p)

-----------------------------------------------------------------------------

Init ==
    /\ sid = 1 /\ paired = FALSE /\ drawing = FALSE /\ ver = [f \in Paths |-> 1]
    /\ outbox = {} /\ queued = 0
    /\ path = [i \in 1..0 |-> None] /\ modified = [i \in 1..0 |-> None]
    /\ sha = [i \in 1..0 |-> None]
    /\ hashed = 0 /\ hashing = None
    /\ pc = [p \in Procs |-> "idle"] /\ req = [p \in Procs |-> None]
    /\ sent = [p \in Procs |-> {}]
    /\ active = 0 /\ completed = 0 /\ failed = 0 /\ opened = 0

Environment ==
    \/ \E f \in Paths : Save(f)
    \/ Pair \/ Rotate \/ Disconnect \/ Draw

Outbox ==
    \/ \E f \in Paths : QueueOutgoing(f)
    \/ \E id \in outbox : RemoveOutgoing(id)
    \/ ClearOutgoing

Worker == HashOpen \/ HashFile

Open(p) ==
    \/ \E id \in outbox, h \in Headers, rm \in BOOLEAN : OpenDownload(p, id, h, rm)
    \/ OpenCheck(p) \/ OpenEmpty(p) \/ OpenFile(p) \/ OpenFails(p)

\* What the host's runtime does by itself once a block was asked for.
Stream(p) == Pace(p) \/ PaceFails(p) \/ Read(p) \/ ReadFails(p)

Next ==
    \/ Environment \/ Outbox \/ Worker
    \/ \E p \in Procs : Open(p) \/ PollBody(p) \/ Stream(p) \/ BodyEnd(p) \/ DropBody(p)

Spec == Init /\ [][Next]_vars

\* Timers fire and reads return.  Clients owe nothing: polls and drops are theirs.
FairSpec == Spec /\ \A p \in Procs : WF_vars(Stream(p))

-----------------------------------------------------------------------------
(* Properties.                                                             *)

\* What a Range header asks for, position by position (RFC 9110, section 14).
Wanted(h, size) ==
    {i \in 0..(size - 1) : /\ h.kind = "suffix" => i >= size - h.a
                           /\ h.kind \in {"from", "span"} => i >= h.a
                           /\ h.kind = "span" => i <= h.b}

\* A stream sends positions its Range header asks for and no others, and when
\* nothing remains it has sent all of them (parse_range and the counting of
\* open_download's stream, through short reads).
RangeServed ==
    \A p \in Streams :
        LET w == Wanted(req[p].header, Size(req[p].id)) IN
        sent[p] \subseteq w /\ (req[p].remaining = 0 => sent[p] = w)

\* "Only complete whole-file delivery removes the matching Outbox ID": unless
\* the user removes it, an entry leaves the Outbox through a download of it
\* that asked for removal and has handed over every position of the file,
\* whether the body is polled to its end or dropped after its last block.
RemovedOnlyDelivered ==
    [][\A id \in outbox \ outbox' :
          \/ RemoveOutgoing(id) \/ ClearOutgoing
          \/ \E p \in Procs : /\ pc[p] # "idle" /\ pc'[p] = "idle"
                             /\ req[p].id = id /\ req[p].remove
                             /\ sent[p] = 0..(Size(id) - 1)]_vars

\* active_downloads is the number of bodies alive, and each download that got
\* a body is counted once, as completed or as failed, however it ends
\* (DownloadGuard::complete and DownloadGuard::drop).
StreamsAccounted ==
    /\ active = Cardinality(Streams)
    /\ completed + failed + active = opened

\* The checksum that goes out in x-nfidb-sha256 is that of the version that
\* was queued, although the worker hashes whatever the path names when its
\* turn comes: the later comparison of length and modification time refuses
\* every file that changed before it.
ChecksumOfQueued ==
    \A p \in Procs :
        pc[p] \in {"open"} \cup Streaming => req[p].sha \in {None, modified[req[p].id]}

\* A body that waits to send a block, for a drawing contact or for the rate
\* limit, stops waiting once its session is over.
EndedStreamStops ==
    \A p \in Procs :
        (pc[p] = "pace" /\ req[p].sid # sid) ~> pc[p] # "pace"
=============================================================================
