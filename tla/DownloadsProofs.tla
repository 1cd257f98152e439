--------------------------- MODULE DownloadsProofs ---------------------------
(***************************************************************************)
(* Proofs about Downloads, for every value of its constants.               *)
(***************************************************************************)
EXTENDS Downloads, FiniteSetTheorems, TLAPS

\* A satisfiable range lies within the file and is what the header asks for
\* (parse_range against the reference definition).
THEOREM RangeWanted ==
    ASSUME NEW h \in Header, NEW size \in Nat, Satisfiable(h, size)
    PROVE  LET r == ParseRange(h, size) IN
           /\ r.first \in Nat /\ r.last \in Nat
           /\ r.first <= r.last /\ r.last < size
           /\ r.first..r.last = Wanted(h, size)
<1>1. h.a \in Nat /\ h.b \in Nat /\ h.kind \in {"none", "suffix", "from", "span"}
  BY DEF Header
<1>2. CASE h.kind = "none"
  BY <1>1, <1>2 DEF Satisfiable, ParseRange, Wanted
<1>3. CASE h.kind = "suffix"
  BY <1>1, <1>3 DEF Satisfiable, ParseRange, Wanted, Least
<1>4. CASE h.kind = "from"
  BY <1>1, <1>4 DEF Satisfiable, ParseRange, Wanted
<1>5. CASE h.kind = "span"
  BY <1>1, <1>5 DEF Satisfiable, ParseRange, Wanted, Least
<1>6. QED BY <1>1, <1>2, <1>3, <1>4, <1>5

\* A range that parse_range or open_download refuses asks for no position of
\* the file, so nothing that could be served is turned away.
THEOREM RangeRefused ==
    ASSUME NEW h \in Header, NEW size \in Nat, ~Satisfiable(h, size)
    PROVE  Wanted(h, size) = {}
<1>1. h.a \in Nat /\ h.b \in Nat /\ h.kind \in {"none", "suffix", "from", "span"}
  BY DEF Header
<1>2. CASE h.kind = "none"
  BY <1>1, <1>2 DEF Satisfiable, ParseRange, Wanted
<1>3. CASE h.kind = "suffix"
  BY <1>1, <1>3 DEF Satisfiable, ParseRange, Wanted, Least
<1>4. CASE h.kind = "from"
  BY <1>1, <1>4 DEF Satisfiable, ParseRange, Wanted
<1>5. CASE h.kind = "span"
  BY <1>1, <1>5 DEF Satisfiable, ParseRange, Wanted, Least
<1>6. QED BY <1>1, <1>2, <1>3, <1>4, <1>5

\* The length of a queued file is a number.
LEMMA SizeType ==
    ASSUME RecordType, NEW id \in 1..queued
    PROVE  Size(id) \in Nat /\ path[id] \in Paths /\ modified[id] \in Vers
  BY ConstantsAssumption DEF RecordType, Size

-----------------------------------------------------------------------------
(* How a step of one request keeps TaskType and RangeType.                 *)

\* The request ends.
LEMMA RequestReturns ==
    ASSUME TaskType, RangeType, NEW p \in Procs, Return(p), UNCHANGED recordVars
    PROVE  TaskType' /\ RangeType'
<1>1. /\ pc' \in [Procs -> Pcs] /\ req' \in [Procs -> Request \cup {None}]
      /\ sent' \in [Procs -> SUBSET Nat] /\ pc'[p] = "idle"
  BY DEF TaskType, Return, Goto, Pcs
<1>2. \A x \in Procs \ {p} : pc'[x] = pc[x] /\ req'[x] = req[x] /\ sent'[x] = sent[x]
  BY DEF TaskType, Return, Goto
<1>3. TaskType'
  BY <1>1, <1>2 DEF TaskType, recordVars
<1>4. RangeType'
  BY <1>1, <1>2 DEF RangeType, Progress, Size, recordVars, Streaming
<1>5. QED BY <1>3, <1>4

\* The request moves on and keeps its locals.
LEMMA RequestMoves ==
    ASSUME TaskType, RangeType, UNCHANGED <<recordVars, req, sent>>,
           NEW p \in Procs, pc[p] \in {"open"} \cup Streaming,
           NEW l \in Streaming, Goto(p, l)
    PROVE  TaskType' /\ RangeType'
<1>1. pc' \in [Procs -> Pcs] /\ pc'[p] = l
  BY DEF TaskType, Goto, Pcs
<1>2. \A x \in Procs \ {p} : pc'[x] = pc[x]
  BY DEF TaskType, Goto
<1>3. TaskType'
  BY <1>1, <1>2 DEF TaskType, recordVars, Streaming
<1>4. RangeType'
  BY <1>1, <1>2 DEF RangeType, Progress, Size, recordVars, Streaming
<1>5. QED BY <1>3, <1>4

\* No request takes a step and no record changes.
LEMMA RequestsStay ==
    ASSUME TaskType, RangeType, UNCHANGED <<taskVars, queued, path, modified>>
    PROVE  TaskType' /\ RangeType'
<1>1. TaskType'
  BY DEF TaskType, taskVars
<1>2. RangeType'
  BY DEF RangeType, Progress, Size, taskVars
<1>3. QED BY <1>1, <1>2

\* What the two ways to finish a body leave of the other parts.
LEMMA GuardDropType ==
    ASSUME TypeOK, NEW p \in Procs, GuardDrop(p)
    PROVE  TypeOK'
<1>1. TaskType' /\ RangeType'
  BY RequestReturns DEF TypeOK, GuardDrop
<1>2. EnvType' /\ WorkerType' /\ RecordType'
  BY DEF TypeOK, GuardDrop, EnvType, WorkerType, RecordType, ClearedBy,
         sessionVars, recordVars, workerVars
<1>3. CountType'
  BY DEF TypeOK, GuardDrop, CountType
<1>4. QED BY <1>1, <1>2, <1>3 DEF TypeOK

-----------------------------------------------------------------------------
(* The steps of a request that assign locals.                              *)

\* Locals with a range.
LEMMA RangedType ==
    ASSUME NEW q \in Request, NEW r \in [first : Nat, last : Nat], NEW rm \in BOOLEAN,
           r.first <= r.last
    PROVE  LET n == Ranged(q, r, rm) IN
           /\ n \in Request /\ n.id = q.id /\ n.sid = q.sid /\ n.sha = q.sha
           /\ n.header = q.header /\ n.transferred = q.transferred
           /\ n.first = r.first /\ n.last = r.last
           /\ n.remaining = r.last - r.first + 1 /\ n.remove = rm
<1>1. r.last - r.first + 1 \in Nat
  OBVIOUS
<1> DEFINE k == r.last - r.first + 1
<1>2. k \in Nat /\ Ranged(q, r, rm) = [q EXCEPT !.first = r.first, !.last = r.last,
                                                !.remaining = k, !.remove = rm]
  BY <1>1 DEF Ranged
<1> HIDE DEF k
<1>3. Ranged(q, r, rm) \in Request
  BY <1>2 DEF Request
<1>4. QED BY <1>2, <1>3 DEF Request, k

\* Two adjacent intervals are one.
LEMMA Adjacent ==
    ASSUME NEW a \in Nat, NEW t \in Nat, NEW n \in Nat
    PROVE  (a..(a + t - 1)) \cup ((a + t)..(a + t + n - 1)) = a..(a + (t + n) - 1)
  OBVIOUS

\* open_download, up to the clone of the record, keeps the types.
LEMMA OpenDownloadType ==
    ASSUME TypeOK, NEW p \in Procs, NEW id \in outbox, NEW h \in Headers, NEW rm \in BOOLEAN,
           OpenDownload(p, id, h, rm)
    PROVE  TypeOK'
<1> DEFINE q == [id |-> id, sid |-> sid, header |-> h, remove |-> rm, sha |-> sha[id],
                 first |-> 0, last |-> 0, remaining |-> 0, transferred |-> 0]
<1>1. id \in 1..queued /\ id \in Ids /\ sha[id] \in Sha
  BY ConstantsAssumption DEF TypeOK, RecordType, Ids
<1>2. q \in Request
  BY <1>1, ConstantsAssumption DEF TypeOK, EnvType, Request
<1>3. /\ pc' \in [Procs -> Pcs] /\ req' \in [Procs -> Request \cup {None}]
      /\ sent' \in [Procs -> SUBSET Nat]
      /\ pc'[p] = "stat" /\ req'[p] = q /\ sent'[p] = {}
  BY <1>2 DEF TypeOK, TaskType, OpenDownload, Goto, Pcs
<1>4. \A x \in Procs \ {p} : pc'[x] = pc[x] /\ req'[x] = req[x] /\ sent'[x] = sent[x]
  BY DEF TypeOK, TaskType, OpenDownload, Goto
<1>5. UNCHANGED <<queued, path, modified>>
  BY DEF OpenDownload, recordVars
<1> HIDE DEF q
<1>6. q.id <= queued /\ q.transferred = 0
  BY <1>1 DEF q
<1>7. TaskType'
  BY <1>2, <1>3, <1>4, <1>5, <1>6 DEF TypeOK, TaskType
<1>8. RangeType'
  BY <1>3, <1>4, <1>5, <1>6 DEF TypeOK, RangeType, Progress, Size, Streaming
<1>9. EnvType' /\ RecordType' /\ WorkerType' /\ CountType'
  BY DEF TypeOK, OpenDownload, EnvType, RecordType, WorkerType, CountType,
         sessionVars, recordVars, workerVars, countVars
<1>10. QED BY <1>7, <1>8, <1>9 DEF TypeOK

\* The locals after the check: the range is within the file.
LEMMA OpenCheckLocals ==
    ASSUME TypeOK, NEW p \in Procs, OpenCheck(p)
    PROVE  LET q == req[p]  n == req'[p] IN
           /\ q \in Request /\ q.id \in 1..queued /\ Size(q.id) \in Nat
           /\ n \in Request /\ n.id = q.id /\ n.sha = q.sha /\ n.header = q.header
           /\ n.first <= n.last /\ n.last < Size(q.id)
           /\ n.transferred = 0 /\ n.remaining = n.last - n.first + 1
           /\ n.first..n.last = Wanted(n.header, Size(q.id))
           /\ n.remove => q.remove /\ n.first = 0 /\ n.last = Size(q.id) - 1
           /\ sent[p] = {}
<1> DEFINE q == req[p]
           r == ParseRange(q.header, Size(q.id))
           rm == q.remove /\ r.first = 0 /\ r.last = Size(q.id) - 1
<1>1. /\ pc[p] = "stat" /\ Satisfiable(q.header, Size(q.id))
      /\ req' = [req EXCEPT ![p] = Ranged(q, r, rm)]
  BY DEF OpenCheck
<1>2. q \in Request /\ q.id <= queued /\ q.transferred = 0 /\ sent[p] = {}
  BY <1>1 DEF TypeOK, TaskType, RangeType
<1>3. q.id \in 1..queued /\ q.header \in Header /\ q.remove \in BOOLEAN
  BY <1>2 DEF Request, Ids, TypeOK, RecordType
<1>4. Size(q.id) \in Nat
  BY <1>3, SizeType DEF TypeOK
<1>5. /\ r.first \in Nat /\ r.last \in Nat /\ r.first <= r.last /\ r.last < Size(q.id)
      /\ r.first..r.last = Wanted(q.header, Size(q.id))
  BY <1>1, <1>3, <1>4, RangeWanted
<1>6. req'[p] = Ranged(q, r, rm)
  BY <1>1 DEF TypeOK, TaskType
<1>7. rm \in BOOLEAN /\ r \in [first : Nat, last : Nat]
  BY <1>3, <1>5 DEF ParseRange
<1> HIDE DEF q, r, rm
<1>8. /\ Ranged(q, r, rm) \in Request
      /\ Ranged(q, r, rm).id = q.id /\ Ranged(q, r, rm).sha = q.sha
      /\ Ranged(q, r, rm).header = q.header /\ Ranged(q, r, rm).transferred = q.transferred
      /\ Ranged(q, r, rm).first = r.first /\ Ranged(q, r, rm).last = r.last
      /\ Ranged(q, r, rm).remaining = r.last - r.first + 1
      /\ Ranged(q, r, rm).remove = rm
  BY <1>2, <1>5, <1>7, RangedType
<1>9. QED BY <1>2, <1>3, <1>4, <1>5, <1>6, <1>8 DEF q, rm

\* The check of length, time and range keeps the types; a served range lies in the file.
LEMMA OpenCheckType ==
    ASSUME TypeOK, NEW p \in Procs, OpenCheck(p)
    PROVE  TypeOK'
<1>1. /\ req[p].id \in 1..queued
      /\ req'[p] \in Request /\ req'[p].id = req[p].id
      /\ req'[p].first <= req'[p].last /\ req'[p].last < Size(req[p].id)
      /\ req'[p].transferred = 0 /\ req'[p].remaining = req'[p].last - req'[p].first + 1
      /\ sent[p] = {}
  BY OpenCheckLocals
<1>2. /\ pc' \in [Procs -> Pcs] /\ pc'[p] = "open" /\ sent' = sent
      /\ UNCHANGED <<queued, path, modified>>
  BY DEF TypeOK, TaskType, OpenCheck, Goto, Pcs, recordVars
<1>3. \A x \in Procs \ {p} : pc'[x] = pc[x] /\ req'[x] = req[x]
  BY DEF TypeOK, TaskType, OpenCheck, Goto
<1>4. req' \in [Procs -> Request \cup {None}]
  BY <1>1, <1>3 DEF TypeOK, TaskType, OpenCheck
<1>5. TaskType'
  BY <1>1, <1>2, <1>3, <1>4 DEF TypeOK, TaskType
<1>6. Progress(p)'
  <2>1. req'[p].first..(req'[p].first + req'[p].transferred - 1) = {}
    BY <1>1 DEF Request
  <2>2. req'[p].first \in Nat /\ req'[p].last \in Nat
    BY <1>1 DEF Request
  <2>3. req'[p].transferred + req'[p].remaining = req'[p].last - req'[p].first + 1
    BY <1>1, <2>2
  <2>4. Size(req[p].id)' = Size(req[p].id) /\ sent'[p] = {}
    BY <1>1, <1>2 DEF Size
  <2>5. QED BY <1>1, <2>1, <2>3, <2>4 DEF Progress
<1>7. RangeType'
  BY <1>2, <1>3, <1>6 DEF TypeOK, RangeType, Progress, Size, Streaming
<1>8. EnvType' /\ RecordType' /\ WorkerType' /\ CountType'
  BY DEF TypeOK, OpenCheck, EnvType, RecordType, WorkerType, CountType,
         sessionVars, recordVars, workerVars, countVars
<1>9. QED BY <1>5, <1>7, <1>8 DEF TypeOK

\* A read moves positions from `remaining` to `sent`, from the front.
LEMMA ReadLocals ==
    ASSUME TypeOK, NEW p \in Procs, Read(p)
    PROVE  LET q == req[p]  n == req'[p] IN
           /\ q \in Request /\ n \in Request
           /\ n.id = q.id /\ n.sha = q.sha /\ n.header = q.header /\ n.remove = q.remove
           /\ n.first = q.first /\ n.last = q.last /\ n.sid = q.sid
           /\ n.transferred + n.remaining = n.last - n.first + 1
           /\ sent'[p] = n.first..(n.first + n.transferred - 1)
           /\ \A x \in Procs \ {p} : req'[x] = req[x] /\ sent'[x] = sent[x]
           /\ req' \in [Procs -> Request \cup {None}] /\ sent' \in [Procs -> SUBSET Nat]
<1> DEFINE q == req[p]
<1>1. pc[p] = "read" /\ q \in Request /\ Progress(p)
  BY DEF Read, TypeOK, TaskType, RangeType, Streaming
<1>2. PICK n \in 1..Least(q.remaining, Block) :
          /\ req' = [req EXCEPT ![p].remaining = @ - n, ![p].transferred = @ + n]
          /\ sent' = [sent EXCEPT ![p] = @ \cup ((q.first + q.transferred)..
                                                 (q.first + q.transferred + n - 1))]
  BY DEF Read
<1>3. /\ q.first \in Nat /\ q.last \in Nat /\ q.remaining \in Nat /\ q.transferred \in Nat
  BY <1>1 DEF Request
<1>4. n \in Nat /\ q.remaining - n \in Nat /\ q.transferred + n \in Nat
  BY <1>3, ConstantsAssumption DEF Least
<1> DEFINE m == [q EXCEPT !.remaining = @ - n, !.transferred = @ + n]
<1>5. req'[p] = m
  BY <1>2 DEF TypeOK, TaskType
<1>6. /\ m \in Request /\ m.id = q.id /\ m.sha = q.sha /\ m.header = q.header
      /\ m.remove = q.remove /\ m.first = q.first /\ m.last = q.last /\ m.sid = q.sid
      /\ m.remaining = q.remaining - n /\ m.transferred = q.transferred + n
  <2> DEFINE k == q.remaining - n
             t == q.transferred + n
  <2>1. k \in Nat /\ t \in Nat /\ m = [q EXCEPT !.remaining = k, !.transferred = t]
    BY <1>4
  <2> HIDE DEF k, t, m, q
  <2>2. /\ m \in Request /\ m.id = q.id /\ m.sha = q.sha /\ m.header = q.header
        /\ m.remove = q.remove /\ m.first = q.first /\ m.last = q.last /\ m.sid = q.sid
        /\ m.remaining = k /\ m.transferred = t
    BY <1>1, <2>1 DEF Request
  <2>3. QED BY <2>2 DEF k, t
<1>7. sent'[p] = sent[p] \cup ((q.first + q.transferred)..(q.first + q.transferred + n - 1))
  BY <1>2 DEF TypeOK, TaskType
<1>8. /\ sent[p] = q.first..(q.first + q.transferred - 1)
      /\ q.transferred + q.remaining = q.last - q.first + 1
  BY <1>1 DEF Progress
<1>9. sent'[p] = q.first..(q.first + (q.transferred + n) - 1)
  <2>1. (q.first..(q.first + q.transferred - 1))
          \cup ((q.first + q.transferred)..(q.first + q.transferred + n - 1))
        = q.first..(q.first + (q.transferred + n) - 1)
    BY <1>3, <1>4, Adjacent
  <2>2. QED BY <1>7, <1>8, <2>1
<1>10. \A x \in Procs \ {p} : req'[x] = req[x] /\ sent'[x] = sent[x]
  BY <1>2 DEF TypeOK, TaskType
<1>11. req' \in [Procs -> Request \cup {None}]
  BY <1>2, <1>5, <1>6, <1>10 DEF TypeOK, TaskType
<1>12. sent' \in [Procs -> SUBSET Nat]
  BY <1>2, <1>3, <1>4, <1>7, <1>9, <1>10 DEF TypeOK, TaskType
<1> HIDE DEF m
<1>13. /\ m.transferred + m.remaining = m.last - m.first + 1
       /\ sent'[p] = m.first..(m.first + m.transferred - 1)
  BY <1>3, <1>4, <1>6, <1>8, <1>9
<1>14. QED BY <1>1, <1>5, <1>6, <1>10, <1>11, <1>12, <1>13

\* A read moves units from what remains to what is transferred, and keeps the types.
LEMMA ReadType ==
    ASSUME TypeOK, NEW p \in Procs, Read(p)
    PROVE  TypeOK'
<1>1. /\ req[p] \in Request /\ req'[p] \in Request /\ req'[p].id = req[p].id
      /\ req'[p].first = req[p].first /\ req'[p].last = req[p].last
      /\ req'[p].transferred + req'[p].remaining = req'[p].last - req'[p].first + 1
      /\ sent'[p] = req'[p].first..(req'[p].first + req'[p].transferred - 1)
      /\ \A x \in Procs \ {p} : req'[x] = req[x] /\ sent'[x] = sent[x]
      /\ req' \in [Procs -> Request \cup {None}] /\ sent' \in [Procs -> SUBSET Nat]
  BY ReadLocals
<1>2. /\ pc[p] = "read" /\ pc' \in [Procs -> Pcs] /\ pc'[p] = "body"
      /\ UNCHANGED <<queued, path, modified>>
      /\ \A x \in Procs \ {p} : pc'[x] = pc[x]
  BY DEF TypeOK, TaskType, Read, Goto, Pcs, Streaming, recordVars
<1>3. TaskType'
  BY <1>1, <1>2 DEF TypeOK, TaskType
<1>4. Progress(p)'
  BY <1>1, <1>2 DEF TypeOK, RangeType, Progress, Size, Streaming
<1>5. RangeType'
  BY <1>1, <1>2, <1>4 DEF TypeOK, RangeType, Progress, Size, Streaming
<1>6. EnvType' /\ RecordType' /\ WorkerType' /\ CountType'
  BY DEF TypeOK, Read, EnvType, RecordType, WorkerType, CountType,
         sessionVars, recordVars, workerVars, countVars
<1>7. QED BY <1>3, <1>5, <1>6 DEF TypeOK

-----------------------------------------------------------------------------

\* Steps that leave the requests alone.
LEMMA EnvironmentType ==
    ASSUME TypeOK, Environment
    PROVE  TypeOK'
<1>1. UNCHANGED <<outbox, recordVars, workerVars, taskVars, countVars>>
  BY DEF Environment, Save, Pair, Rotate, Disconnect, Draw
<1>2. EnvType'
  <2>1. sid' \in Sids
    BY ConstantsAssumption
    DEF TypeOK, EnvType, Environment, Save, Pair, Rotate, Disconnect, Draw, sessionVars, Sids
  <2>2. ver' \in [Paths -> Vers]
    <3>1. CASE \E f \in Paths : Save(f)
      <4>1. PICK f \in Paths : Save(f)
        BY <3>1
      <4>2. ver[f] + 1 \in Vers
        BY <4>1, ConstantsAssumption DEF TypeOK, EnvType, Save, Vers
      <4>3. QED BY <4>1, <4>2 DEF TypeOK, EnvType, Save
    <3>2. CASE Pair \/ Rotate \/ Disconnect \/ Draw
      BY <3>2 DEF TypeOK, EnvType, Pair, Rotate, Disconnect, Draw
    <3>3. QED BY <3>1, <3>2 DEF Environment
  <2>3. paired' \in BOOLEAN /\ drawing' \in BOOLEAN
    BY Zenon DEF TypeOK, EnvType, Environment, Save, Pair, Rotate, Disconnect, Draw, sessionVars
  <2>4. QED BY <2>1, <2>2, <2>3 DEF EnvType
<1>3. RecordType' /\ WorkerType' /\ CountType'
  BY <1>1 DEF TypeOK, RecordType, WorkerType, CountType, recordVars, workerVars, countVars
<1>4. TaskType' /\ RangeType'
  BY <1>1, RequestsStay DEF TypeOK, recordVars
<1>5. QED BY <1>2, <1>3, <1>4 DEF TypeOK

\* A file that is queued extends the records, and keeps the types.
LEMMA QueueOutgoingType ==
    ASSUME TypeOK, NEW f \in Paths, QueueOutgoing(f)
    PROVE  TypeOK'
<1>1. queued \in Nat /\ queued' = queued + 1 /\ queued' \in 0..MaxIds
  BY ConstantsAssumption DEF TypeOK, RecordType, QueueOutgoing
<1>2. /\ path' \in [1..queued' -> Paths] /\ modified' \in [1..queued' -> Vers]
      /\ sha' \in [1..queued' -> Sha]
  BY <1>1 DEF TypeOK, EnvType, RecordType, QueueOutgoing, Sha
<1>3. \A i \in 1..queued : path'[i] = path[i] /\ modified'[i] = modified[i]
  BY <1>1 DEF QueueOutgoing
<1>4. RecordType'
  BY <1>1, <1>2 DEF TypeOK, RecordType, QueueOutgoing
<1>5. WorkerType'
  BY <1>1 DEF TypeOK, WorkerType, QueueOutgoing, workerVars
<1>6. TaskType'
  BY <1>1 DEF TypeOK, TaskType, QueueOutgoing, taskVars, Request, Ids
<1>7. \A p \in Procs : pc[p] # "idle" => Size(req[p].id)' = Size(req[p].id)
  BY <1>1, <1>3 DEF TypeOK, TaskType, QueueOutgoing, taskVars, Request, Ids, Size
<1>8. RangeType'
  BY <1>7 DEF TypeOK, RangeType, Progress, QueueOutgoing, taskVars, Streaming
<1>9. EnvType' /\ CountType'
  BY DEF TypeOK, EnvType, CountType, QueueOutgoing, sessionVars, countVars
<1>10. QED BY <1>4, <1>5, <1>6, <1>8, <1>9 DEF TypeOK

\* The operations of the Outbox keep the types.
LEMMA OutboxType ==
    ASSUME TypeOK, Outbox
    PROVE  TypeOK'
<1>1. CASE \E f \in Paths : QueueOutgoing(f)
  BY <1>1, QueueOutgoingType
<1>2. CASE (\E id \in outbox : RemoveOutgoing(id)) \/ ClearOutgoing
  <2>1. /\ UNCHANGED <<sessionVars, drawing, ver, recordVars, workerVars, taskVars, countVars>>
        /\ outbox' \subseteq outbox
    BY <1>2 DEF RemoveOutgoing, ClearOutgoing
  <2>2. EnvType' /\ RecordType' /\ WorkerType' /\ CountType'
    BY <2>1 DEF TypeOK, EnvType, RecordType, WorkerType, CountType,
                sessionVars, recordVars, workerVars, countVars
  <2>3. TaskType' /\ RangeType'
    BY <2>1, RequestsStay DEF TypeOK, recordVars
  <2>4. QED BY <2>2, <2>3 DEF TypeOK
<1>3. QED BY <1>1, <1>2 DEF Outbox

\* The checksum worker keeps the types.
LEMMA WorkerTypeStep ==
    ASSUME TypeOK, Worker
    PROVE  TypeOK'
<1>1. UNCHANGED <<sessionVars, drawing, ver, outbox, queued, path, modified, taskVars, countVars>>
  BY DEF Worker, HashOpen, HashFile, recordVars
<1>2. EnvType' /\ CountType' /\ TaskType' /\ RangeType'
  BY <1>1, RequestsStay DEF TypeOK, EnvType, CountType, sessionVars, countVars
<1>3. CASE HashOpen
  <2>1. sha' = sha
    BY <1>3 DEF HashOpen, recordVars
  <2>2. hashed \in Nat /\ queued \in Nat /\ hashed < queued /\ queued <= MaxIds
    BY <1>3, ConstantsAssumption DEF TypeOK, RecordType, WorkerType, HashOpen
  <2>3. hashed + 1 \in 1..queued /\ hashed + 1 \in Ids
    BY <2>2, ConstantsAssumption DEF Ids
  <2>4. ver[path[hashed + 1]] \in Vers
    BY <2>3 DEF TypeOK, EnvType, RecordType
  <2>5. WorkerType'
    BY <1>1, <1>3, <2>2, <2>3, <2>4 DEF WorkerType, HashOpen
  <2>6. RecordType'
    BY <1>1, <2>1 DEF TypeOK, RecordType
  <2>7. QED BY <1>2, <2>5, <2>6 DEF TypeOK
<1>4. CASE HashFile
  <2>1. /\ hashing \in [id : Ids, ver : Vers] /\ hashed < queued /\ hashing.id = hashed + 1
        /\ hashed \in Nat /\ queued \in Nat
    BY <1>4, ConstantsAssumption DEF TypeOK, RecordType, WorkerType, HashFile
  <2>2. hashing.id \in 1..queued /\ hashing.ver \in Vers
    BY <2>1
  <2>3. ver[path[hashing.id]] \in Vers
    BY <2>2 DEF TypeOK, EnvType, RecordType
  <2>4. RecordType'
    BY <1>1, <1>4, <2>2, <2>3 DEF TypeOK, RecordType, HashFile, Sha
  <2>5. WorkerType'
    BY <1>1, <1>4, <2>1 DEF WorkerType, HashFile
  <2>6. QED BY <1>2, <2>4, <2>5 DEF TypeOK
<1>5. QED BY <1>3, <1>4 DEF Worker

\* Every step of a download keeps the types.
LEMMA RequestType ==
    ASSUME TypeOK, NEW p \in Procs,
           Open(p) \/ PollBody(p) \/ Stream(p) \/ BodyEnd(p) \/ DropBody(p)
    PROVE  TypeOK'
<1>1. CASE \E id \in outbox, h \in Headers, rm \in BOOLEAN : OpenDownload(p, id, h, rm)
  BY <1>1, OpenDownloadType
<1>2. CASE OpenCheck(p)
  BY <1>2, OpenCheckType
<1>3. CASE OpenEmpty(p) \/ OpenFails(p) \/ BodyEnd(p)
  <2>1. TaskType' /\ RangeType'
    BY <1>3, RequestReturns DEF TypeOK, OpenEmpty, OpenFails, BodyEnd
  <2>2. EnvType' /\ WorkerType' /\ RecordType'
    BY <1>3 DEF TypeOK, OpenEmpty, OpenFails, BodyEnd, EnvType, WorkerType, RecordType,
                ClearedBy, sessionVars, recordVars, workerVars
  <2>3. CountType'
    BY <1>3 DEF TypeOK, OpenEmpty, OpenFails, BodyEnd, CountType, countVars
  <2>4. QED BY <2>1, <2>2, <2>3 DEF TypeOK
<1>4. CASE OpenFile(p) \/ PollBody(p) \/ Pace(p)
  <2>1. TaskType' /\ RangeType'
    BY <1>4, RequestMoves DEF TypeOK, OpenFile, PollBody, Pace, Streaming
  <2>2. EnvType' /\ WorkerType' /\ RecordType'
    BY <1>4 DEF TypeOK, OpenFile, PollBody, Pace, EnvType, WorkerType, RecordType,
                sessionVars, recordVars, workerVars
  <2>3. CountType'
    BY <1>4 DEF TypeOK, OpenFile, PollBody, Pace, CountType, countVars
  <2>4. QED BY <2>1, <2>2, <2>3 DEF TypeOK
<1>5. CASE PaceFails(p) \/ ReadFails(p) \/ DropBody(p)
  BY <1>5, GuardDropType DEF PaceFails, ReadFails, DropBody
<1>6. CASE Read(p)
  BY <1>6, ReadType
<1>7. QED BY <1>1, <1>2, <1>3, <1>4, <1>5, <1>6 DEF Open, Stream

\* Type correctness of the Outbox, the worker and the streams, for every value
\* of the constants: in particular a stream's counters add up to its range
\* after every short read.
THEOREM TypeCorrect == Spec => []TypeOK
<1>1. Init => TypeOK
  <2> SUFFICES ASSUME Init PROVE TypeOK
    OBVIOUS
  <2>1. EnvType /\ RecordType /\ WorkerType
    <3>1. EnvType
      <4>1. 1 \in Sids /\ 1 \in Vers
        BY ConstantsAssumption DEF Sids, Vers
      <4>2. QED BY <4>1 DEF Init, EnvType
    <3>2. RecordType
      BY ConstantsAssumption DEF Init, RecordType
    <3>3. WorkerType
      BY ConstantsAssumption DEF Init, WorkerType
    <3>4. QED BY <3>1, <3>2, <3>3
  <2>2. TaskType /\ RangeType /\ CountType
    BY DEF Init, TaskType, RangeType, CountType, Pcs, Streaming
  <2>3. QED BY <2>1, <2>2 DEF TypeOK
<1>2. TypeOK /\ [Next]_vars => TypeOK'
  <2> SUFFICES ASSUME TypeOK, [Next]_vars PROVE TypeOK'
    OBVIOUS
  <2>1. CASE Next
    BY <2>1, EnvironmentType, OutboxType, WorkerTypeStep, RequestType DEF Next
  <2>2. CASE UNCHANGED vars
    <3>1. TaskType' /\ RangeType'
      BY <2>2, RequestsStay DEF TypeOK, vars, recordVars
    <3>2. EnvType' /\ RecordType' /\ WorkerType' /\ CountType'
      BY <2>2 DEF TypeOK, vars, EnvType, RecordType, WorkerType, CountType,
                  sessionVars, recordVars, workerVars, countVars
    <3>3. QED BY <3>1, <3>2 DEF TypeOK
  <2>3. QED BY <2>1, <2>2
<1>3. QED BY <1>1, <1>2, PTL DEF Spec

-----------------------------------------------------------------------------
(* What a step does to the requests: nothing, or one request takes it.     *)

\* Steps of the environment, the Outbox and the worker leave all of them alone.
LEMMA OthersApart ==
    ASSUME TypeOK, Environment \/ Outbox \/ Worker \/ UNCHANGED vars
    PROVE  /\ UNCHANGED taskVars
           /\ \A i \in 1..queued : modified'[i] = modified[i] /\ path'[i] = path[i]
           /\ \A x \in Procs : pc[x] # "idle" => req[x].id \in 1..queued
<1>1. UNCHANGED taskVars
  BY DEF Environment, Save, Pair, Rotate, Disconnect, Draw, Outbox, QueueOutgoing,
         RemoveOutgoing, ClearOutgoing, Worker, HashOpen, HashFile, vars
<1>2. \A i \in 1..queued : modified'[i] = modified[i] /\ path'[i] = path[i]
  <2>1. CASE \E f \in Paths : QueueOutgoing(f)
    BY <2>1, ConstantsAssumption DEF QueueOutgoing, TypeOK, RecordType
  <2>2. CASE UNCHANGED <<path, modified>>
    BY <2>2
  <2>3. QED
    BY <2>1, <2>2 DEF Environment, Save, Pair, Rotate, Disconnect, Draw, Outbox,
       RemoveOutgoing, ClearOutgoing, Worker, HashOpen, HashFile, vars, recordVars
<1>3. \A x \in Procs : pc[x] # "idle" => req[x].id \in 1..queued
  BY ConstantsAssumption DEF TypeOK, TaskType, RecordType, Request, Ids
<1>4. QED BY <1>1, <1>2, <1>3

\* A step of a request leaves the records and the other requests alone.
LEMMA RequestApart ==
    ASSUME TypeOK, NEW p \in Procs,
           Open(p) \/ PollBody(p) \/ Stream(p) \/ BodyEnd(p) \/ DropBody(p)
    PROVE  /\ UNCHANGED <<sessionVars, drawing, ver, recordVars, workerVars>>
           /\ \A x \in Procs \ {p} : pc'[x] = pc[x] /\ req'[x] = req[x] /\ sent'[x] = sent[x]
           /\ \/ pc'[p] = "idle"
              \/ /\ pc'[p] \in Streaming /\ pc[p] \in {"open"} \cup Streaming
                 /\ UNCHANGED <<req, sent>>
              \/ Read(p)
              \/ OpenCheck(p)
              \/ /\ pc'[p] = "stat"
                 /\ \E id \in outbox, h \in Headers, rm \in BOOLEAN : OpenDownload(p, id, h, rm)
<1>1. pc \in [Procs -> Pcs] /\ DOMAIN req = Procs /\ DOMAIN sent = Procs
  BY DEF TypeOK, TaskType
<1>2. UNCHANGED <<sessionVars, drawing, ver, recordVars, workerVars>>
  BY DEF Open, OpenDownload, OpenCheck, OpenEmpty, OpenFile, OpenFails, PollBody, Stream, Pace,
         PaceFails, Read, ReadFails, BodyEnd, DropBody, GuardDrop
<1>3. ASSUME NEW x \in Procs \ {p}
      PROVE  pc'[x] = pc[x] /\ req'[x] = req[x] /\ sent'[x] = sent[x]
  BY <1>1 DEF Open, OpenDownload, OpenCheck, OpenEmpty, OpenFile, OpenFails, PollBody, Stream,
              Pace, PaceFails, Read, ReadFails, BodyEnd, DropBody, GuardDrop, Return, Goto
<1>4. CASE \E id \in outbox, h \in Headers, rm \in BOOLEAN : OpenDownload(p, id, h, rm)
  <2>1. pc'[p] = "stat"
    BY <1>1, <1>4 DEF OpenDownload, Goto
  <2>2. QED BY <1>2, <1>3, <1>4, <2>1
<1>5. CASE OpenCheck(p) \/ Read(p)
  BY <1>2, <1>3, <1>5
<1>6. CASE OpenEmpty(p) \/ OpenFails(p) \/ BodyEnd(p) \/ PaceFails(p) \/ ReadFails(p) \/ DropBody(p)
  <2>1. pc'[p] = "idle"
    BY <1>1, <1>6 DEF OpenEmpty, OpenFails, BodyEnd, PaceFails, ReadFails, DropBody, GuardDrop,
                      Return, Goto
  <2>2. QED BY <1>2, <1>3, <2>1
<1>7. CASE OpenFile(p) \/ PollBody(p) \/ Pace(p)
  <2>1. /\ pc'[p] \in Streaming /\ pc[p] \in {"open"} \cup Streaming
        /\ UNCHANGED <<req, sent>>
    BY <1>1, <1>7 DEF OpenFile, PollBody, Pace, Goto, Streaming
  <2>2. QED BY <1>2, <1>3, <2>1
<1>8. QED BY <1>4, <1>5, <1>6, <1>7 DEF Open, Stream

-----------------------------------------------------------------------------
(* Ranges and removal.                                                     *)

\* What RangeServed and RemovedOnlyDelivered rest on: from its check on, a
\* request has the range its header asks for, and removes its entry only when
\* that range is the whole file.
Asked(p) ==
    LET q == req[p] IN
    /\ q.first..q.last = Wanted(q.header, Size(q.id))
    /\ q.remove => q.first = 0 /\ q.last = Size(q.id) - 1

AskedInv == \A p \in Procs : pc[p] \in {"open"} \cup Streaming => Asked(p)

\* A request keeps the range its header asks for, whatever else happens.
LEMMA AskedStep ==
    ASSUME TypeOK, AskedInv, [Next]_vars
    PROVE  AskedInv'
<1>1. CASE Environment \/ Outbox \/ Worker \/ UNCHANGED vars
  <2>1. \A x \in Procs : pc[x] # "idle" => Size(req[x].id)' = Size(req[x].id)
    BY <1>1, OthersApart DEF Size, taskVars
  <2>2. UNCHANGED taskVars
    BY <1>1, OthersApart
  <2>3. QED BY <2>1, <2>2 DEF AskedInv, Asked, taskVars, Streaming
<1>2. ASSUME NEW p \in Procs,
             Open(p) \/ PollBody(p) \/ Stream(p) \/ BodyEnd(p) \/ DropBody(p)
      PROVE  AskedInv'
  <2>1. UNCHANGED <<path, modified>>
    BY <1>2, RequestApart DEF recordVars
  <2>2. \A x \in Procs \ {p} : pc'[x] \in {"open"} \cup Streaming => Asked(x)'
    BY <1>2, <2>1, RequestApart DEF AskedInv, Asked, Size
  <2>3. CASE pc'[p] \in {"idle", "stat"}
    BY <2>2, <2>3 DEF AskedInv, Streaming
  <2>4. CASE pc[p] \in {"open"} \cup Streaming /\ UNCHANGED <<req, sent>>
    <3>1. Asked(p)'
      BY <2>1, <2>4 DEF AskedInv, Asked, Size
    <3>2. QED BY <2>2, <3>1 DEF AskedInv
  <2>5. CASE Read(p)
    <3>1. /\ req'[p].id = req[p].id /\ req'[p].header = req[p].header
          /\ req'[p].remove = req[p].remove
          /\ req'[p].first = req[p].first /\ req'[p].last = req[p].last
      BY <2>5, ReadLocals
    <3>2. Asked(p)'
      BY <2>1, <2>5, <3>1 DEF AskedInv, Asked, Size, Read, Streaming
    <3>3. QED BY <2>2, <3>2 DEF AskedInv
  <2>6. CASE OpenCheck(p)
    <3>1. /\ req'[p].id = req[p].id
          /\ req'[p].first..req'[p].last = Wanted(req'[p].header, Size(req[p].id))
          /\ req'[p].remove => req'[p].first = 0 /\ req'[p].last = Size(req[p].id) - 1
      BY <2>6, OpenCheckLocals
    <3>2. Asked(p)'
      BY <2>1, <3>1 DEF Asked, Size
    <3>3. QED BY <2>2, <3>2 DEF AskedInv
  <2>7. QED BY <1>2, <2>3, <2>4, <2>5, <2>6, RequestApart
<1>3. QED BY <1>1, <1>2 DEF Next

\* A request that is past the check carries the range its header asks for.
LEMMA AskedAlways == Spec => []AskedInv
<1>1. Init => AskedInv
  BY DEF Init, AskedInv, Streaming
<1>2. QED BY <1>1, AskedStep, TypeCorrect, PTL DEF Spec

\* A range response carries exactly the positions its header asks for, for
\* every file, header and sequence of short reads.
THEOREM RangesServed == Spec => []RangeServed
<1>1. TypeOK /\ AskedInv => RangeServed
  <2> SUFFICES ASSUME TypeOK, AskedInv, NEW p \in Streams
               PROVE  LET w == Wanted(req[p].header, Size(req[p].id)) IN
                      sent[p] \subseteq w /\ (req[p].remaining = 0 => sent[p] = w)
    BY DEF RangeServed
  <2> DEFINE q == req[p]
  <2>1. p \in Procs /\ pc[p] \in Streaming /\ q \in Request
    BY DEF Streams, TypeOK, TaskType, Streaming
  <2>2. /\ q.transferred + q.remaining = q.last - q.first + 1
        /\ sent[p] = q.first..(q.first + q.transferred - 1)
    BY <2>1 DEF TypeOK, RangeType, Progress
  <2>3. q.first..q.last = Wanted(q.header, Size(q.id))
    BY <2>1 DEF AskedInv, Asked
  <2>4. q.first \in Nat /\ q.last \in Nat /\ q.remaining \in Nat /\ q.transferred \in Nat
    BY <2>1 DEF Request
  <2>5. \A f, l, r, t \in Nat :
           t + r = l - f + 1 => f + t - 1 <= l /\ (r = 0 => f + t - 1 = l)
    OBVIOUS
  <2>6. q.first + q.transferred - 1 <= q.last
    BY <2>2, <2>4, <2>5
  <2>7. q.remaining = 0 => q.first + q.transferred - 1 = q.last
    BY <2>2, <2>4, <2>5
  <2>8. q.first..(q.first + q.transferred - 1) \subseteq q.first..q.last
    BY <2>4, <2>6
  <2> HIDE DEF q
  <2>9. sent[p] \subseteq q.first..q.last /\ (q.remaining = 0 => sent[p] = q.first..q.last)
    BY <2>2, <2>7, <2>8
  <2>10. QED BY <2>3, <2>9 DEF q
<1>2. QED BY <1>1, TypeCorrect, AskedAlways, PTL

\* A finished body with the remove flag has sent the whole file.
LEMMA FinishedWhole ==
    ASSUME TypeOK, AskedInv, NEW p \in Procs, pc[p] \in Streaming, req[p].remove,
           req[p].remaining = 0 \/ req[p].transferred >= req[p].last - req[p].first + 1
    PROVE  sent[p] = 0..(Size(req[p].id) - 1)
<1> DEFINE q == req[p]
<1>1. q \in Request /\ Progress(p) /\ Asked(p)
  BY DEF TypeOK, TaskType, RangeType, AskedInv, Streaming
<1>2. q.first \in Nat /\ q.last \in Nat /\ q.remaining \in Nat /\ q.transferred \in Nat
  BY <1>1 DEF Request
<1>3. q.first = 0 /\ q.last = Size(q.id) - 1
  BY <1>1 DEF Asked
<1>4. q.transferred + q.remaining = q.last - q.first + 1
  BY <1>1 DEF Progress
<1>5. q.first + q.transferred - 1 = q.last
  BY <1>2, <1>4
<1>6. sent[p] = q.first..(q.first + q.transferred - 1)
  BY <1>1 DEF Progress
<1>7. QED BY <1>3, <1>5, <1>6

\* Only whole-file delivery, or the user, removes an Outbox entry: for any
\* number of concurrent downloads of any ids, ranges and ends of sessions.
THEOREM OnlyDeliveredRemoved == Spec => RemovedOnlyDelivered
<1> DEFINE Gone(id) ==
        \/ RemoveOutgoing(id) \/ ClearOutgoing
        \/ \E p \in Procs : /\ pc[p] # "idle" /\ pc'[p] = "idle"
                           /\ req[p].id = id /\ req[p].remove
                           /\ sent[p] = 0..(Size(id) - 1)
<1>1. ASSUME TypeOK, AskedInv, [Next]_vars
      PROVE  [\A id \in outbox \ outbox' : Gone(id)]_vars
  <2> SUFFICES ASSUME Next, NEW id \in outbox \ outbox' PROVE Gone(id)
    BY <1>1
  <2>1. CASE Environment \/ Worker
    BY <2>1 DEF Environment, Save, Pair, Rotate, Disconnect, Draw, Worker, HashOpen, HashFile
  <2>2. CASE Outbox
    <3>1. CASE \E f \in Paths : QueueOutgoing(f)
      BY <3>1 DEF QueueOutgoing
    <3>2. CASE \E i \in outbox : RemoveOutgoing(i)
      BY <3>2 DEF RemoveOutgoing
    <3>3. QED BY <2>2, <3>1, <3>2 DEF Outbox
  <2>3. ASSUME NEW p \in Procs,
               Open(p) \/ PollBody(p) \/ Stream(p) \/ BodyEnd(p) \/ DropBody(p)
        PROVE  Gone(id)
    <3>1. CASE OpenEmpty(p)
      <4>1. pc[p] = "stat" /\ req[p].id = id /\ req[p].remove /\ Size(id) = 0
        BY <3>1 DEF OpenEmpty
      <4>2. pc'[p] = "idle"
        BY <1>1, <3>1 DEF OpenEmpty, Return, Goto, TypeOK, TaskType
      <4>3. sent[p] = 0..(Size(id) - 1)
        BY <1>1, <4>1 DEF TypeOK, RangeType
      <4>4. QED BY <4>1, <4>2, <4>3
    <3>2. CASE BodyEnd(p)
      <4>1. /\ pc[p] \in Streaming /\ pc[p] # "idle" /\ req[p].id = id /\ req[p].remove
            /\ req[p].remaining = 0
        BY <3>2 DEF BodyEnd, ClearedBy, Streaming
      <4>2. pc'[p] = "idle"
        BY <1>1, <3>2 DEF BodyEnd, Return, Goto, TypeOK, TaskType
      <4>3. QED BY <1>1, <4>1, <4>2, FinishedWhole
    <3>3. CASE (PaceFails(p) \/ ReadFails(p) \/ DropBody(p)) /\ GuardDrop(p)
      <4>1. /\ pc[p] \in Streaming /\ pc[p] # "idle" /\ req[p].id = id /\ req[p].remove
            /\ req[p].transferred >= req[p].last - req[p].first + 1
        BY <3>3 DEF PaceFails, ReadFails, DropBody, GuardDrop, Delivered, ClearedBy, Streaming
      <4>2. pc'[p] = "idle"
        BY <1>1, <3>3 DEF GuardDrop, Return, Goto, TypeOK, TaskType
      <4>3. QED BY <1>1, <4>1, <4>2, FinishedWhole
    <3>4. CASE UNCHANGED outbox
      BY <3>4
    <3>5. QED
      BY <2>3, <3>1, <3>2, <3>3, <3>4 DEF Open, OpenDownload, OpenCheck, OpenFile, OpenFails,
         PollBody, Stream, Pace, Read, PaceFails, ReadFails, DropBody
  <2>4. QED BY <2>1, <2>2, <2>3 DEF Next
<1>2. QED BY <1>1, TypeCorrect, AskedAlways, PTL DEF Spec, RemovedOnlyDelivered

-----------------------------------------------------------------------------
(* Checksums.                                                              *)

\* A checksum that a version still allows: versions only grow, so while the
\* path names the queued version nothing else can have been hashed.
Fits(i, h) == ver[path[i]] = modified[i] => h \in {None, modified[i]}

ChecksumInv ==
    /\ \A i \in 1..queued : modified[i] <= ver[path[i]] /\ Fits(i, sha[i])
    /\ hashing # None => /\ modified[hashing.id] <= hashing.ver
                         /\ hashing.ver <= ver[path[hashing.id]]
    /\ \A p \in Procs : pc[p] = "stat" => Fits(req[p].id, req[p].sha)
    /\ ChecksumOfQueued

\* Queued ids and their versions, as numbers.
LEMMA Numbers ==
    ASSUME TypeOK
    PROVE  /\ queued \in Nat
           /\ \A i \in 1..queued : /\ path[i] \in Paths /\ modified[i] \in Int
                                   /\ ver[path[i]] \in Int
           /\ \A p \in Procs : pc[p] # "idle" => req[p].id \in 1..queued
           /\ hashing # None => /\ hashing.id \in 1..queued /\ hashing.ver \in Int
                                /\ hashing.ver # None
           /\ None \notin Vers
<1>1. queued \in Nat /\ None \notin Vers
  BY ConstantsAssumption DEF TypeOK, RecordType
<1>2. \A i \in 1..queued : path[i] \in Paths /\ modified[i] \in Int /\ ver[path[i]] \in Int
  BY <1>1 DEF TypeOK, EnvType, RecordType, Vers
<1>3. \A p \in Procs : pc[p] # "idle" => req[p].id \in 1..queued
  BY <1>1 DEF TypeOK, TaskType, Request, Ids
<1>4. hashing # None => /\ hashing.id \in 1..queued /\ hashing.ver \in Vers
                        /\ hashing.ver \in Int
  BY <1>1 DEF TypeOK, WorkerType, Vers
<1>5. QED BY <1>1, <1>2, <1>3, <1>4

\* Every step keeps ChecksumInv: versions only grow.
LEMMA ChecksumStep ==
    ASSUME TypeOK, ChecksumInv, [Next]_vars
    PROVE  ChecksumInv'
<1>1. CASE \E f \in Paths : Save(f)
  <2>1. PICK f \in Paths : Save(f)
    BY <1>1
  <2>2. /\ UNCHANGED <<queued, path, modified, sha, hashing, pc, req>>
        /\ ver' = [ver EXCEPT ![f] = ver[f] + 1] /\ ver[f] \in Int
    BY <2>1 DEF Save, recordVars, workerVars, taskVars, TypeOK, EnvType, Vers
  <2>3. \A g \in Paths : ver'[g] = IF g = f THEN ver[g] + 1 ELSE ver[g]
    BY <2>2 DEF TypeOK, EnvType
  <2>4. \A i \in 1..queued : /\ modified[i] <= ver'[path[i]] /\ ver[path[i]] <= ver'[path[i]]
                             /\ ver'[path[i]] = modified[i] => ver[path[i]] = modified[i]
    BY <2>3, Numbers DEF ChecksumInv
  <2>5. hashing # None => hashing.ver <= ver'[path[hashing.id]]
    BY <2>4, Numbers, <2>3 DEF ChecksumInv
  <2>6. ChecksumOfQueued'
    BY <2>2 DEF ChecksumInv, ChecksumOfQueued
  <2>7. \A p \in Procs : pc[p] = "stat" => Fits(req[p].id, req[p].sha)'
    BY <2>2, <2>4, Numbers DEF ChecksumInv, Fits
  <2>8. \A i \in 1..queued : Fits(i, sha[i])'
    BY <2>2, <2>4 DEF ChecksumInv, Fits
  <2>9. QED BY <2>2, <2>4, <2>5, <2>6, <2>7, <2>8 DEF ChecksumInv
<1>2. CASE \E f \in Paths : QueueOutgoing(f)
  <2>1. PICK f \in Paths : QueueOutgoing(f)
    BY <1>2
  <2>2. /\ queued' = queued + 1 /\ UNCHANGED <<ver, hashing, pc, req>>
        /\ \A i \in 1..queued : path'[i] = path[i] /\ modified'[i] = modified[i] /\ sha'[i] = sha[i]
        /\ path'[queued + 1] = f /\ modified'[queued + 1] = ver[f] /\ sha'[queued + 1] = None
    BY <2>1, Numbers DEF QueueOutgoing, workerVars, taskVars
  <2>3. \A i \in 1..queued' : i \in 1..queued \/ i = queued + 1
    BY <2>2, Numbers
  <2>4. ver[f] \in Int
    BY DEF TypeOK, EnvType, Vers
  <2>5. \A i \in 1..queued' : modified'[i] <= ver'[path'[i]] /\ Fits(i, sha[i])'
    BY <2>2, <2>3, <2>4 DEF ChecksumInv, Fits
  <2>6. hashing' # None => /\ modified'[hashing'.id] <= hashing'.ver
                           /\ hashing'.ver <= ver'[path'[hashing'.id]]
    BY <2>2, Numbers DEF ChecksumInv
  <2>7. \A p \in Procs : pc'[p] = "stat" => Fits(req[p].id, req[p].sha)'
    BY <2>2, Numbers DEF ChecksumInv, Fits
  <2>8. ChecksumOfQueued'
    BY <2>2, Numbers DEF ChecksumInv, ChecksumOfQueued, Streaming
  <2>9. QED BY <2>5, <2>6, <2>7, <2>8 DEF ChecksumInv
<1>3. CASE HashOpen
  <2>1. /\ UNCHANGED <<queued, path, modified, sha, ver, pc, req>>
        /\ hashing' = None \/ hashing' = [id |-> hashed + 1, ver |-> ver[path[hashed + 1]]]
    BY <1>3 DEF HashOpen, recordVars, taskVars
  <2>2. hashed + 1 \in 1..queued
    BY <1>3, Numbers DEF HashOpen, TypeOK, WorkerType
  <2>3. hashing' # None => /\ modified'[hashing'.id] <= hashing'.ver
                           /\ hashing'.ver <= ver'[path'[hashing'.id]]
    BY <2>1, <2>2, Numbers DEF ChecksumInv
  <2>4. QED BY <2>1, <2>3 DEF ChecksumInv, ChecksumOfQueued, Fits
<1>4. CASE HashFile
  <2> DEFINE i == hashing.id
  <2>1. /\ hashing # None /\ hashing' = None
        /\ UNCHANGED <<queued, path, modified, ver, pc, req>>
    BY <1>4 DEF HashFile, taskVars
  <2>2. /\ i \in 1..queued /\ modified[i] <= hashing.ver /\ hashing.ver <= ver[path[i]]
        /\ modified[i] \in Int /\ hashing.ver \in Int /\ ver[path[i]] \in Int
    BY <2>1, Numbers DEF ChecksumInv
  <2>3. CASE sha' = sha
    BY <2>1, <2>3 DEF ChecksumInv, ChecksumOfQueued, Fits
  <2>4. CASE \E h \in IF ver[path[i]] = hashing.ver THEN {hashing.ver}
                     ELSE {hashing.ver, ver[path[i]], Mixed} : sha' = [sha EXCEPT ![i] = h]
    <3>1. PICK h \in IF ver[path[i]] = hashing.ver THEN {hashing.ver}
                     ELSE {hashing.ver, ver[path[i]], Mixed} : sha' = [sha EXCEPT ![i] = h]
      BY <2>4
    <3>2. ver[path[i]] = modified[i] => h = modified[i]
      <4>1. ver[path[i]] = modified[i] => ver[path[i]] = hashing.ver
        BY <2>2
      <4>2. QED BY <3>1, <4>1
    <3>3. \A j \in 1..queued : sha'[j] = IF j = i THEN h ELSE sha[j]
      BY <3>1 DEF TypeOK, RecordType
    <3>4. \A j \in 1..queued : Fits(j, sha[j])'
      BY <2>1, <3>2, <3>3 DEF ChecksumInv, Fits
    <3>5. QED BY <2>1, <3>4 DEF ChecksumInv, ChecksumOfQueued, Fits
  <2>5. QED BY <1>4, <2>3, <2>4 DEF HashFile
<1>5. CASE UNCHANGED <<ver, recordVars, workerVars, taskVars>>
  BY <1>5 DEF ChecksumInv, ChecksumOfQueued, Fits, recordVars, workerVars, taskVars
<1>6. ASSUME NEW p \in Procs,
             Open(p) \/ PollBody(p) \/ Stream(p) \/ BodyEnd(p) \/ DropBody(p)
      PROVE  ChecksumInv'
  <2>1. /\ UNCHANGED <<ver, queued, path, modified, sha, hashing>>
        /\ \A x \in Procs \ {p} : pc'[x] = pc[x] /\ req'[x] = req[x]
    BY <1>6, RequestApart DEF recordVars, workerVars
  <2>2. SUFFICES /\ pc'[p] = "stat" => Fits(req[p].id, req[p].sha)'
                 /\ pc'[p] \in {"open"} \cup Streaming
                        => req'[p].sha \in {None, modified[req'[p].id]}
    BY <2>1 DEF ChecksumInv, ChecksumOfQueued, Fits
  <2>3. CASE pc'[p] = "idle"
    BY <2>3 DEF Streaming
  <2>4. CASE /\ pc'[p] \in Streaming /\ pc[p] \in {"open"} \cup Streaming
             /\ UNCHANGED <<req, sent>>
    BY <2>1, <2>4 DEF ChecksumInv, ChecksumOfQueued, Streaming
  <2>5. CASE Read(p)
    <3>1. req'[p].id = req[p].id /\ req'[p].sha = req[p].sha
      BY <2>5, ReadLocals
    <3>2. pc[p] = "read" /\ pc'[p] = "body"
      BY <2>5 DEF Read, Goto, TypeOK, TaskType
    <3>3. QED BY <3>1, <3>2 DEF ChecksumInv, ChecksumOfQueued, Streaming
  <2>6. CASE OpenCheck(p)
    <3>1. req'[p].id = req[p].id /\ req'[p].sha = req[p].sha
      BY <2>6, OpenCheckLocals
    <3>2. pc[p] = "stat" /\ pc'[p] = "open" /\ ver[path[req[p].id]] = modified[req[p].id]
      BY <2>6 DEF OpenCheck, Unchanged, Goto, TypeOK, TaskType
    <3>3. QED BY <3>1, <3>2 DEF ChecksumInv, Fits
  <2>7. ASSUME pc'[p] = "stat", NEW id \in outbox, NEW h \in Headers, NEW rm \in BOOLEAN,
               OpenDownload(p, id, h, rm)
        PROVE  Fits(req[p].id, req[p].sha)'
    <3>1. id \in 1..queued
      BY DEF TypeOK, RecordType
    <3>2. req'[p].id = id /\ req'[p].sha = sha[id]
      BY <2>7 DEF OpenDownload, TypeOK, TaskType
    <3>3. QED BY <2>1, <3>1, <3>2 DEF ChecksumInv, Fits
  <2>8. QED BY <1>6, <2>3, <2>4, <2>5, <2>6, <2>7, RequestApart DEF Streaming
<1>7. QED
  BY <1>1, <1>2, <1>3, <1>4, <1>5, <1>6 DEF Next, Environment, Pair, Rotate, Disconnect, Draw,
     Outbox, RemoveOutgoing, ClearOutgoing, Worker, vars

\* Whenever the file that is served passed the check of its length and time,
\* the checksum announced with it is that of the queued version, however the
\* worker, the writers of the file and the downloads interleave.
THEOREM ChecksumsOfQueued == Spec => []ChecksumOfQueued
<1>1. Init => ChecksumInv
  BY DEF Init, ChecksumInv, ChecksumOfQueued, Streaming
<1>2. ChecksumInv => ChecksumOfQueued
  BY DEF ChecksumInv
<1>3. QED BY <1>1, <1>2, ChecksumStep, TypeCorrect, PTL DEF Spec

-----------------------------------------------------------------------------
(* Counting.                                                               *)

\* Every step that begins or ends a body changes the counters with it.
LEMMA AccountedStep ==
    ASSUME TypeOK, StreamsAccounted, [Next]_vars
    PROVE  StreamsAccounted'
<1>1. /\ IsFiniteSet(Streams) /\ Cardinality(Streams) \in Nat
      /\ active \in Int /\ completed \in Nat /\ failed \in Nat /\ opened \in Nat
  BY ConstantsAssumption, FS_Subset, FS_CardinalityType DEF Streams, TypeOK, CountType
<1>2. CASE Environment \/ Outbox \/ Worker \/ UNCHANGED vars
  <2>1. UNCHANGED <<pc, countVars>>
    BY <1>2 DEF Environment, Save, Pair, Rotate, Disconnect, Draw, Outbox, QueueOutgoing,
       RemoveOutgoing, ClearOutgoing, Worker, HashOpen, HashFile, vars, taskVars
  <2>2. QED BY <2>1 DEF StreamsAccounted, Streams, countVars
<1>3. ASSUME NEW p \in Procs,
             Open(p) \/ PollBody(p) \/ Stream(p) \/ BodyEnd(p) \/ DropBody(p)
      PROVE  StreamsAccounted'
  <2>1. pc \in [Procs -> Pcs] /\ \A x \in Procs \ {p} : pc'[x] = pc[x]
    BY <1>3, RequestApart DEF TypeOK, TaskType
  <2>2. CASE (pc'[p] \in Streaming <=> pc[p] \in Streaming) /\ UNCHANGED <<active, completed, failed, opened>>
    <3>1. Streams' = Streams
      BY <2>1, <2>2 DEF Streams
    <3>2. QED BY <2>2, <3>1 DEF StreamsAccounted
  <2>3. CASE OpenEmpty(p)
    <3>1. pc[p] = "stat" /\ pc'[p] = "idle"
      BY <2>1, <2>3 DEF OpenEmpty, Return, Goto
    <3>2. Streams' = Streams
      BY <2>1, <3>1 DEF Streams, Streaming
    <3>3. /\ completed' = completed + 1 /\ opened' = opened + 1
          /\ active' = active /\ failed' = failed
      BY <2>3 DEF OpenEmpty
    <3>4. active' = Cardinality(Streams')
      <4>1. active = Cardinality(Streams)
        BY DEF StreamsAccounted
      <4>2. Cardinality(Streams') = Cardinality(Streams)
        BY <3>2
      <4>3. QED BY <3>3, <4>1, <4>2
    <3>5. completed' + failed' + active' = opened'
      <4>1. completed + failed + active = opened
        BY DEF StreamsAccounted
      <4>2. (completed + 1) + failed + active = opened + 1
        BY <1>1, <4>1
      <4>3. QED BY <3>3, <4>2
    <3>6. QED BY <3>4, <3>5 DEF StreamsAccounted
  <2>4. CASE OpenFile(p)
    <3>1. pc[p] = "open" /\ pc'[p] = "body"
      BY <2>1, <2>4 DEF OpenFile, Goto
    <3>2. Streams' = Streams \cup {p} /\ p \notin Streams
      BY <2>1, <3>1 DEF Streams, Streaming
    <3>3. Cardinality(Streams') = Cardinality(Streams) + 1
      BY <1>1, <3>2, FS_AddElement
    <3>4. /\ active' = active + 1 /\ opened' = opened + 1
          /\ completed' = completed /\ failed' = failed
      BY <2>4 DEF OpenFile
    <3>5. QED BY <1>1, <3>3, <3>4 DEF StreamsAccounted
  <2>5. CASE BodyEnd(p) \/ (pc[p] \in Streaming /\ GuardDrop(p))
    <3>1. pc[p] \in Streaming /\ pc'[p] = "idle"
      BY <2>1, <2>5 DEF BodyEnd, GuardDrop, Return, Goto, Streaming
    <3>2. Streams' = Streams \ {p} /\ p \in Streams
      BY <2>1, <3>1 DEF Streams, Streaming
    <3>3. Cardinality(Streams') = Cardinality(Streams) - 1
      BY <1>1, <3>2, FS_RemoveElement
    <3>4. /\ active' = active - 1 /\ opened' = opened
          /\ \/ completed' = completed + 1 /\ failed' = failed
             \/ failed' = failed + 1 /\ completed' = completed
      BY <2>5 DEF BodyEnd, GuardDrop
    <3>5. QED BY <1>1, <3>3, <3>4 DEF StreamsAccounted
  <2>6. CASE \/ \E id \in outbox, h \in Headers, rm \in BOOLEAN : OpenDownload(p, id, h, rm)
             \/ OpenCheck(p) \/ OpenFails(p) \/ PollBody(p) \/ Pace(p) \/ Read(p)
    <3>1. (pc'[p] \in Streaming <=> pc[p] \in Streaming) /\ UNCHANGED countVars
      BY <2>1, <2>6 DEF OpenDownload, OpenCheck, OpenFails, PollBody, Pace, Read, Return, Goto,
                        Streaming
    <3>2. QED BY <2>2, <3>1 DEF countVars
  <2>7. QED
    BY <1>3, <2>3, <2>4, <2>5, <2>6 DEF Open, Stream, PaceFails, ReadFails, DropBody, Streaming
<1>4. QED BY <1>2, <1>3 DEF Next

\* active_downloads counts the bodies alive and every download is counted
\* once, whichever of DownloadGuard's two ends it takes.
THEOREM StreamsStayAccounted == Spec => []StreamsAccounted
<1>1. Init => StreamsAccounted
  <2> SUFFICES ASSUME Init PROVE StreamsAccounted
    OBVIOUS
  <2>1. Streams = {}
    BY DEF Init, Streams, Streaming
  <2>2. QED BY <2>1, FS_EmptySet DEF Init, StreamsAccounted
<1>2. QED BY <1>1, AccountedStep, TypeCorrect, PTL DEF Spec
==============================================================================
