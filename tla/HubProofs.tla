------------------------------- MODULE HubProofs -------------------------------
(***************************************************************************)
(* Theorems about the hub: HubAuth, for every set of keys and requests,    *)
(* capacity, lifetime of an entry and duration of a verification,          *)
(* HubIngest, for every set of commands, batches, points and calls, and    *)
(* HubReads, for every set of events, size of a page, range and retention. *)
(***************************************************************************)
EXTENDS ListProofs, HubAuth, HubIngest, HubReads

-----------------------------------------------------------------------------
(* The cache of keys.                                                      *)

Time == Nat \cup {Unset}

AuthType ==
  /\ now \in Nat
  /\ revokedAt \in [Key -> Time]
  /\ insertedAt \in [Key -> Time]
  /\ verifying \in [Request -> Key \cup {Unset}]
  /\ readAt \in [Request -> Nat]
  /\ accepted \in [Key -> Time]

\* Nothing is later than now, and a row that is being verified was read, as
\* that of an active key, no longer than MaxVerify ago.
Recent ==
  /\ \A k \in Key : revokedAt[k] # Unset => revokedAt[k] <= now
  /\ \A k \in Key : insertedAt[k] # Unset => insertedAt[k] <= now
  /\ \A k \in Key : accepted[k] # Unset => accepted[k] <= now
  /\ \A r \in Request : verifying[r] # Unset =>
       readAt[r] <= now /\ now <= readAt[r] + MaxVerify

\* An entry is inserted from a row that was active when it was read.
ReadActive ==
  \A r \in Request :
    verifying[r] # Unset /\ revokedAt[verifying[r]] # Unset
      => readAt[r] <= revokedAt[verifying[r]]

InsertedInTime ==
  \A k \in Key :
    revokedAt[k] # Unset /\ insertedAt[k] # Unset
      => insertedAt[k] <= revokedAt[k] + MaxVerify

\* RevocationTakesEffect is not inductive: how late a key is let in follows
\* from when its entry was inserted, and that from when its row was read.
RevocationInv ==
  AuthType /\ Recent /\ ReadActive /\ InsertedInTime /\ RevocationTakesEffect

LEMMA RevocationInit == Init => RevocationInv
<1> SUFFICES ASSUME Init PROVE RevocationInv
  OBVIOUS
<1>1. AuthType
  BY DEF Init, AuthType, Time
<1>2. Recent /\ ReadActive /\ InsertedInTime /\ RevocationTakesEffect
  BY DEF Init, Recent, ReadActive, InsertedInTime, RevocationTakesEffect
<1> QED
  BY <1>1, <1>2 DEF RevocationInv

LEMMA HitStep ==
  ASSUME RevocationInv, NEW r \in Request, NEW k \in Key, Hit(r, k)
  PROVE  RevocationInv'
<1> USE DEF RevocationInv, AuthType
<1>1. accepted' = [accepted EXCEPT ![k] = now]
        /\ UNCHANGED <<now, revokedAt, insertedAt, verifying, readAt>>
  BY DEF Hit, cache
<1>2. AuthType'
  BY <1>1 DEF Time
<1>3. Recent' /\ ReadActive' /\ InsertedInTime'
  BY <1>1 DEF Recent, ReadActive, InsertedInTime
<1>4. revokedAt[k] # Unset => now <= revokedAt[k] + TTL + MaxVerify
  <2>1. insertedAt[k] # Unset /\ now - insertedAt[k] <= TTL
    BY DEF Hit, Fresh
  <2>2. revokedAt[k] # Unset => insertedAt[k] <= revokedAt[k] + MaxVerify
    BY <2>1 DEF InsertedInTime
  <2> QED
    BY <2>1, <2>2, AuthAssumption, SMT DEF AuthAssumption, Time
<1>5. RevocationTakesEffect'
  BY <1>1, <1>4 DEF RevocationTakesEffect
<1> QED
  BY <1>2, <1>3, <1>5

LEMMA MissStep ==
  ASSUME RevocationInv, NEW r \in Request, NEW k \in Key, Miss(r, k)
  PROVE  RevocationInv'
<1> USE DEF RevocationInv, AuthType
<1>1. /\ verifying' = [verifying EXCEPT ![r] = k]
      /\ readAt' = [readAt EXCEPT ![r] = now]
      /\ UNCHANGED <<now, revokedAt, insertedAt, accepted>>
      /\ revokedAt[k] = Unset
  BY DEF Miss, cache
<1>2. AuthType'
  BY <1>1
<1>3. Recent'
  BY <1>1, AuthAssumption, SMT DEF AuthAssumption, Recent
<1>4. ReadActive'
  BY <1>1 DEF ReadActive
<1>5. InsertedInTime' /\ RevocationTakesEffect'
  BY <1>1 DEF InsertedInTime, RevocationTakesEffect
<1> QED
  BY <1>2, <1>3, <1>4, <1>5

\* Whatever the purge and the eviction leave, only the key's own entry is new.
LEMMA InsertEntryShape ==
  ASSUME NEW k \in Key, InsertEntry(k)
  PROVE  insertedAt' = [j \in Key |-> insertedAt'[j]] /\
         \A j \in Key : insertedAt'[j] \in {Unset, insertedAt[j]}
                          \/ (j = k /\ insertedAt'[j] = now)
BY DEF InsertEntry

LEMMA VerifiedStep ==
  ASSUME RevocationInv, NEW r \in Request, Verified(r)
  PROVE  RevocationInv'
<1> USE DEF RevocationInv, AuthType
<1>1. PICK k \in Key : k = verifying[r]
  BY DEF Verified
<1>2. /\ accepted' = [accepted EXCEPT ![k] = now]
      /\ verifying' = [verifying EXCEPT ![r] = Unset]
      /\ readAt' = [readAt EXCEPT ![r] = 0]
      /\ UNCHANGED <<now, revokedAt>>
      /\ InsertEntry(k) /\ verifying[r] # Unset
  BY <1>1 DEF Verified
<1>3. /\ insertedAt' = [j \in Key |-> insertedAt'[j]]
      /\ \A j \in Key : insertedAt'[j] \in {Unset, insertedAt[j]}
                          \/ (j = k /\ insertedAt'[j] = now)
  BY <1>2, InsertEntryShape
<1>4. AuthType'
  <2>1. insertedAt' \in [Key -> Time]
    BY <1>3 DEF Time
  <2> QED
    BY <1>2, <2>1 DEF Time
<1>5. Recent'
  BY <1>2, <1>3, SMT DEF Recent
<1>6. ReadActive'
  BY <1>2 DEF ReadActive
<1>7. revokedAt[k] # Unset => now <= revokedAt[k] + MaxVerify
  <2>1. now <= readAt[r] + MaxVerify
    BY <1>2 DEF Recent
  <2>2. revokedAt[k] # Unset => readAt[r] <= revokedAt[k]
    BY <1>1, <1>2 DEF ReadActive
  <2> QED
    BY <2>1, <2>2, AuthAssumption, SMT DEF AuthAssumption, Time
<1>8. InsertedInTime'
  BY <1>2, <1>3, <1>7 DEF InsertedInTime
<1>9. RevocationTakesEffect'
  <2>1. revokedAt[k] # Unset => now <= revokedAt[k] + TTL + MaxVerify
    BY <1>7, AuthAssumption, SMT DEF AuthAssumption, Time
  <2> QED
    BY <1>2, <2>1 DEF RevocationTakesEffect
<1> QED
  BY <1>4, <1>5, <1>6, <1>8, <1>9

LEMMA RevokeStep ==
  ASSUME RevocationInv, NEW k \in Key, Revoke(k)
  PROVE  RevocationInv'
<1> USE DEF RevocationInv, AuthType
<1>1. /\ revokedAt' = [revokedAt EXCEPT ![k] = now]
      /\ UNCHANGED <<now, insertedAt, verifying, readAt, accepted>>
  BY DEF Revoke, cache
<1>2. AuthType'
  BY <1>1 DEF Time
<1>3. Recent'
  BY <1>1 DEF Recent
<1>4. ReadActive'
  BY <1>1 DEF ReadActive, Recent
<1>5. insertedAt[k] # Unset => insertedAt[k] <= now + MaxVerify
  BY AuthAssumption, SMT DEF Recent, AuthAssumption, Time
<1>6. accepted[k] # Unset => accepted[k] <= now + TTL + MaxVerify
  BY AuthAssumption, SMT DEF Recent, AuthAssumption, Time
<1>7. InsertedInTime' /\ RevocationTakesEffect'
  BY <1>1, <1>5, <1>6 DEF InsertedInTime, RevocationTakesEffect
<1> QED
  BY <1>2, <1>3, <1>4, <1>7

LEMMA TickStep == ASSUME RevocationInv, Tick PROVE RevocationInv'
<1> USE DEF RevocationInv, AuthType
<1>1. /\ now' = now + 1
      /\ UNCHANGED <<revokedAt, insertedAt, verifying, readAt, accepted>>
      /\ \A r \in Request : verifying[r] # Unset => now < readAt[r] + MaxVerify
  BY DEF Tick, cache
<1>2. AuthType'
  BY <1>1
<1>3. Recent'
  BY <1>1, AuthAssumption, SMT DEF Recent, AuthAssumption, Time
<1>4. ReadActive' /\ InsertedInTime' /\ RevocationTakesEffect'
  BY <1>1 DEF ReadActive, InsertedInTime, RevocationTakesEffect
<1> QED
  BY <1>2, <1>3, <1>4

LEMMA RevocationNext == RevocationInv /\ [Next]_vars => RevocationInv'
<1> SUFFICES ASSUME RevocationInv, [Next]_vars PROVE RevocationInv'
  OBVIOUS
<1>1. CASE UNCHANGED vars
  BY <1>1 DEF vars, cache, RevocationInv, AuthType, Recent, ReadActive,
              InsertedInTime, RevocationTakesEffect
<1> QED
  BY <1>1, HitStep, MissStep, VerifiedStep, RevokeStep, TickStep DEF Next

\* However requests, verifications, evictions and the revocation interleave, a
\* revoked key is let in for a bounded time only (RevocationTakesEffect).
THEOREM RevocationIsBounded == Spec => []RevocationTakesEffect
<1>1. RevocationInv => RevocationTakesEffect
  BY DEF RevocationInv
<1> QED
  BY <1>1, RevocationInit, RevocationNext, PTL DEF Spec

\* The queue holds keys, each once, and is the list of what the map holds.
CacheInv ==
  /\ now \in Nat /\ order \in Seq(Key)
  /\ verifying \in [Request -> Key \cup {Unset}]
  /\ MapAndQueueAgree

LEMMA CacheInit == Init => CacheInv
<1> SUFFICES ASSUME Init PROVE CacheInv
  OBVIOUS
<1>1. /\ now = 0 /\ order = <<>> /\ \A k \in Key : insertedAt[k] = Unset
      /\ verifying = [r \in Request |-> Unset]
  BY DEF Init
<1>2. Capacity \in Nat
  BY AuthAssumption DEF AuthAssumption
<1> QED
  BY <1>1, <1>2 DEF CacheInv, MapAndQueueAgree, Cached, ToSet, IsInjective

\* Whatever the map and the queue were, an insertion leaves them in step: what
\* remains queued is fresh, hence in the map, or was just inserted.
LEMMA InsertEntryAgrees ==
  ASSUME CacheInv, NEW k \in Key, InsertEntry(k)
  PROVE  order' \in Seq(Key) /\ MapAndQueueAgree'
<1> DEFINE pushed == IF Contains(order, k) THEN order ELSE Append(order, k)
           K == {j \in Key : j = k \/ Fresh(j)}
           queue == Kept(pushed, K)
           over == IF Len(queue) > Capacity THEN Len(queue) - Capacity ELSE 0
<1>1. /\ order' = SubSeq(queue, over + 1, Len(queue))
      /\ insertedAt' = [j \in Key |-> IF ~Contains(order', j) THEN Unset
                                      ELSE IF j = k THEN now ELSE insertedAt[j]]
  BY DEF InsertEntry
<1>2. pushed \in Seq(Key) /\ IsInjective(pushed)
  BY AppendInjectively DEF CacheInv, MapAndQueueAgree, Contains
<1> HIDE DEF pushed
<1>3. queue \in Seq(K) /\ IsInjective(queue)
  <2>1. queue \in Seq(Key \cap K) /\ IsInjective(queue)
    BY <1>2, KeptItems, KeptInjective
  <2>2. Key \cap K = K
    OBVIOUS
  <2> QED
    BY <2>1, <2>2
<1> HIDE DEF queue
<1>4. Capacity \in Nat /\ Len(queue) \in Nat /\ over \in 0 .. Len(queue)
        /\ Len(queue) - over <= Capacity
  BY <1>3, AuthAssumption DEF AuthAssumption
<1> HIDE DEF over, K
<1>5. order' \in Seq(K) /\ Len(order') <= Capacity /\ IsInjective(order')
  <2>1. order' \in Seq(K) /\ Len(order') = Len(queue) - over /\ IsInjective(order')
    BY <1>1, <1>3, <1>4, CutFront
  <2> QED
    BY <1>4, <2>1
<1> USE DEF K
<1>6. order' \in Seq(Key)
  BY <1>5
<1>7. \A j \in Key : insertedAt'[j] # Unset <=> Contains(order', j)
  <2>1. \A j \in Key : Contains(order', j) => j = k \/ Fresh(j)
    BY <1>5 DEF Contains
  <2> QED
    BY <1>1, <2>1, AuthAssumption DEF AuthAssumption, Fresh, CacheInv
<1>8. ToSet(order') = Cached'
  <2>1. ToSet(order') = {j \in Key : Contains(order', j)}
    BY <1>6 DEF ToSet, Contains
  <2> QED
    BY <1>7, <2>1 DEF Cached
<1> QED
  BY <1>5, <1>6, <1>8 DEF MapAndQueueAgree

LEMMA CacheNext == CacheInv /\ [Next]_vars => CacheInv'
<1> SUFFICES ASSUME CacheInv, [Next]_vars PROVE CacheInv'
  OBVIOUS
<1>1. ASSUME NEW r \in Request, Verified(r) PROVE CacheInv'
  <2>1. verifying[r] \in Key /\ InsertEntry(verifying[r])
    BY <1>1 DEF Verified, CacheInv
  <2>2. order' \in Seq(Key) /\ MapAndQueueAgree'
    BY <2>1, InsertEntryAgrees
  <2>3. now' = now /\ verifying' = [verifying EXCEPT ![r] = Unset]
    BY <1>1 DEF Verified
  <2> QED
    BY <2>2, <2>3 DEF CacheInv
<1>2. ASSUME UNCHANGED cache, now' \in Nat, verifying' \in [Request -> Key \cup {Unset}]
      PROVE  CacheInv'
  BY <1>2 DEF CacheInv, cache, MapAndQueueAgree, Cached
<1>3. ASSUME NEW r \in Request, NEW k \in Key, Hit(r, k) \/ Miss(r, k) PROVE CacheInv'
  BY <1>2, <1>3 DEF Hit, Miss, CacheInv
<1>4. ASSUME NEW k \in Key, Revoke(k) PROVE CacheInv'
  BY <1>2, <1>4 DEF Revoke, CacheInv
<1>5. CASE Tick
  BY <1>2, <1>5 DEF Tick, CacheInv
<1>6. CASE UNCHANGED vars
  BY <1>2, <1>6 DEF vars, cache, CacheInv
<1> QED
  BY <1>1, <1>3, <1>4, <1>5, <1>6 DEF Next

\* Expiry, refresh, eviction and overlapping insertions never let the queue and
\* the map of the cache get out of step (MapAndQueueAgree).
THEOREM CacheIsConsistent == Spec => []MapAndQueueAgree
<1>1. CacheInv => MapAndQueueAgree
  BY DEF CacheInv
<1> QED
  BY <1>1, CacheInit, CacheNext, PTL DEF Spec

-----------------------------------------------------------------------------
(* Batches of events and of log entries.                                   *)

\* Rows that a table refuses for a NUL or for the name of an app only.
EventChecked(row) ==
  /\ "app" \in DOMAIN row
  /\ FitsEvents(row) \/ ~app_name(row.app) \/ ~WithoutNul(row.payload)
EntryChecked(row) ==
  /\ "app" \notin DOMAIN row
  /\ FitsEntries(row) \/ ~WithoutNul(row.message) \/ ~WithoutNul(row.raw)

\* validate_event lets through what the checks of app_events let through.
LEMMA ValidEventFits ==
  ASSUME NEW app, NEW e, ValidEvent(e, 0) PROVE EventChecked(EventRow(app, e))
BY DEF EventChecked, ValidEvent, EventRow, FitsEvents, event_type, app_name, user_id,
       Word, Plain, Optional, WithoutNul, ControlChars, MaxUserIdLen

\* A line of a container, without a status, fits but for a NUL.
LEMMA LineRowFits ==
  ASSUME NEW host, NEW l PROVE EntryChecked(LineRow(host, l, 0))
BY DEF EntryChecked, LineRow, FitsEntries

\* So does a parsed entry, whose status is one of HTTP.
LEMMA ValidEntryFits ==
  ASSUME NEW host, NEW e, ValidEntry(e, 0) PROVE EntryChecked(EntryRow(host, e, 0))
<1>1. e.status \in 0 .. 599
  BY DEF ValidEntry
<1>2. \A n \in 0 .. 599 : n \in SmallInt
  BY DEF SmallInt
<1> QED
  BY <1>1, <1>2 DEF EntryChecked, EntryRow, FitsEntries

RowChecked(kind, row) == IF kind = "events" THEN EventChecked(row) ELSE EntryChecked(row)

\* What a handler holds is part of the batch it came from, and checked.
BatchShape(h) ==
  /\ "kind" \in DOMAIN h
  /\ h.kind \in {"events", "logs"} =>
       /\ h.size \in Nat
       /\ DOMAIN h.rows \subseteq 1 .. h.size
       /\ h.errors # None => h.errors = (1 .. h.size) \ DOMAIN h.rows
       /\ \A i \in DOMAIN h.rows : RowChecked(h.kind, h.rows[i])

BatchInv ==
  /\ DOMAIN handling = Call
  /\ \A r \in Call : handling[r] # None => BatchShape(handling[r])
  /\ BatchIsAccounted /\ RefusedOnlyForNulOrName

LEMMA BatchInit == InitIngest => BatchInv
BY DEF InitIngest, BatchInv, BatchIsAccounted, RefusedOnlyForNulOrName

\* A refusal stores nothing and names no row.
LEMMA RefusedIsAccounted ==
  ASSUME NEW status, NEW size, status # 202, answer' = Refused(status, size)
  PROVE  BatchIsAccounted' /\ RefusedOnlyForNulOrName'
<1>1. answer' = [status |-> status, size |-> size, accepted |-> None, errors |-> None,
                 stored |-> {}, refused |-> {}]
  BY DEF Refused, Answer
<1> QED
  BY <1>1 DEF BatchIsAccounted, RefusedOnlyForNulOrName

LEMMA NoAnswerIsAccounted ==
  ASSUME answer' = None PROVE BatchIsAccounted' /\ RefusedOnlyForNulOrName'
BY DEF BatchIsAccounted, RefusedOnlyForNulOrName

\* The answer to a batch after its statement.
LEMMA SettledIsAccounted ==
  ASSUME NEW h, BatchShape(h), h.kind \in {"events", "logs"},
         NEW misfit \in SUBSET DOMAIN h.rows, 
         NEW stored \in StoredOf(h.rows, DOMAIN h.rows \ misfit), NEW heard \in BOOLEAN,
         misfit = IF h.kind = "events" THEN {i \in DOMAIN h.rows : ~FitsEvents(h.rows[i])}
                                       ELSE {i \in DOMAIN h.rows : ~FitsEntries(h.rows[i])},
         Settle(h, misfit, stored, heard)
  PROVE  BatchIsAccounted' /\ RefusedOnlyForNulOrName'
<1> DEFINE valid == DOMAIN h.rows
<1>2. stored = {} \/ (stored = valid /\ misfit = {})
  BY DEF StoredOf
<1>3. CASE stored = valid /\ (heard \/ valid = {})
  <2>1. answer' = [status |-> 202, size |-> h.size, accepted |-> Cardinality(stored),
                   errors |-> h.errors, stored |-> stored, refused |-> {}]
    BY <1>3 DEF Settle, Answer
  <2>2. h.errors # None => h.errors = (1 .. h.size) \ stored
    BY <1>3 DEF BatchShape
  <2> QED
    BY <2>1, <2>2 DEF BatchIsAccounted, RefusedOnlyForNulOrName
<1>4. CASE ~(stored = valid /\ (heard \/ valid = {}))
  <2>1. answer' = [status |-> 500, size |-> h.size, accepted |-> None, errors |-> None,
                   stored |-> stored, refused |-> {h.rows[i] : i \in misfit}]
    <3> DEFINE rows == {h.rows[i] : i \in misfit}
    <3>1. answer' = [Refused(500, h.size) EXCEPT !.stored = stored, !.refused = rows]
      BY <1>4, Zenon DEF Settle
    <3> HIDE DEF rows
    <3>2. answer' = [status |-> 500, size |-> h.size, accepted |-> None, errors |-> None,
                     stored |-> stored, refused |-> rows]
      BY <3>1 DEF Answer, Refused
    <3> QED
      BY <3>2 DEF rows
  <2>2. BatchIsAccounted'
    BY <1>2, <2>1 DEF BatchIsAccounted
  <2>3. ASSUME NEW i \in misfit
        PROVE  LET row == h.rows[i] IN
               IF "app" \in DOMAIN row THEN ~app_name(row.app) \/ ~WithoutNul(row.payload)
                              ELSE ~WithoutNul(row.message) \/ ~WithoutNul(row.raw)
    BY <2>3 DEF BatchShape, RowChecked, EventChecked, EntryChecked
  <2> QED
    BY <2>1, <2>2, <2>3 DEF RefusedOnlyForNulOrName
<1> QED
  BY <1>3, <1>4

\* What a step leaves in the hands of its call, and what of the others.
LEMMA HandlingStep ==
  ASSUME BatchInv, NEW r \in Call, NEW h, h # None => BatchShape(h),
         handling' = [handling EXCEPT ![r] = h]
  PROVE  /\ DOMAIN handling' = Call
         /\ \A q \in Call : handling'[q] # None => BatchShape(handling'[q])
BY DEF BatchInv

LEMMA EventsShape ==
  ASSUME NEW app, NEW batch \in EventBatch,
         NEW valid, valid = {i \in 1 .. Len(batch) : ValidEvent(batch[i], 0)}
  PROVE  BatchShape([kind |-> "events", size |-> Len(batch),
                     errors |-> (1 .. Len(batch)) \ valid,
                     rows |-> [i \in valid |-> EventRow(app, batch[i])]])
<1> DEFINE rows == [i \in valid |-> EventRow(app, batch[i])]
<1>1. Len(batch) \in Nat
  BY IngestAssumption DEF IngestAssumption, IsSequence
<1>2. DOMAIN rows = valid /\ \A i \in valid : EventChecked(rows[i])
  BY ValidEventFits
<1> HIDE DEF rows
<1>3. ASSUME NEW h, h = [kind |-> "events", size |-> Len(batch),
                         errors |-> (1 .. Len(batch)) \ valid, rows |-> rows]
      PROVE  BatchShape(h)
  <2>1. /\ h.kind = "events" /\ h.size = Len(batch) /\ h.rows = rows /\ "kind" \in DOMAIN h
        /\ h.errors = (1 .. Len(batch)) \ valid
    BY <1>3
  <2> QED
    BY <1>1, <1>2, <2>1 DEF BatchShape, RowChecked
<1> QED
  BY <1>3 DEF rows

LEMMA PostEventsStep ==
  ASSUME BatchInv, NEW r \in Call, PostEvents(r) PROVE BatchInv'
<1>1. PICK key \in keys, batch \in EventBatch, limited \in BOOLEAN :
        LET p == Principal(key)
            valid == {i \in 1 .. Len(batch) : ValidEvent(batch[i], 0)}
            status == PostRefusal(p, batch, limited)
        IN  IF status # None
              THEN /\ answer' = IF status = 422
                                   THEN Answer(422, Len(batch), 0, 1 .. Len(batch), {})
                                   ELSE Refused(status, Len(batch))
                   /\ UNCHANGED handling
              ELSE /\ handling' = [handling EXCEPT ![r] =
                        [kind |-> "events", size |-> Len(batch),
                         errors |-> (1 .. Len(batch)) \ valid,
                         rows |-> [i \in valid |-> EventRow(p.app, batch[i])]]]
                   /\ answer' = None
  BY DEF PostEvents
<1> DEFINE p == Principal(key)
           valid == {i \in 1 .. Len(batch) : ValidEvent(batch[i], 0)}
           status == PostRefusal(p, batch, limited)
           h == [kind |-> "events", size |-> Len(batch),
                 errors |-> (1 .. Len(batch)) \ valid,
                 rows |-> [i \in valid |-> EventRow(p.app, batch[i])]]
<1>2. CASE status # None
  <2>1. status # 202
    BY <1>2 DEF PostRefusal
  <2>2. /\ answer' = IF status = 422
                        THEN Answer(422, Len(batch), 0, 1 .. Len(batch), {})
                        ELSE Refused(status, Len(batch))
        /\ handling' = handling
    BY <1>1, <1>2
  <2> HIDE DEF status
  <2>3. CASE status = 422
    <3>1. answer' = [status |-> 422, size |-> Len(batch), accepted |-> 0,
                     errors |-> 1 .. Len(batch), stored |-> {}, refused |-> {}]
      BY <2>2, <2>3 DEF Answer
    <3>2. BatchIsAccounted' /\ RefusedOnlyForNulOrName'
      BY <3>1 DEF BatchIsAccounted, RefusedOnlyForNulOrName
    <3> QED
      BY <2>2, <3>2 DEF BatchInv
  <2>4. CASE status # 422
    BY <2>1, <2>2, <2>4, RefusedIsAccounted DEF BatchInv
  <2> QED
    BY <2>3, <2>4
<1>3. CASE status = None
  <2>1. answer' = None /\ handling' = [handling EXCEPT ![r] = h]
    BY <1>1, <1>3
  <2>2. BatchShape(h)
    BY EventsShape
  <2> QED
    BY <2>1, <2>2, HandlingStep, NoAnswerIsAccounted DEF BatchInv
<1> QED
  BY <1>2, <1>3

LEMMA InsertEventsStep ==
  ASSUME BatchInv, NEW r \in Call, InsertEvents(r) PROVE BatchInv'
<1> DEFINE h == handling[r]
           misfit == {i \in DOMAIN h.rows : ~FitsEvents(h.rows[i])}
<1>1. PICK stored \in StoredOf(h.rows, DOMAIN h.rows \ misfit), heard \in BOOLEAN :
        Settle(h, misfit, stored, heard)
  BY DEF InsertEvents
<1>2. BatchShape(h) /\ h.kind = "events" /\ handling' = [handling EXCEPT ![r] = None]
  BY DEF InsertEvents, BatchInv
<1>3. BatchIsAccounted' /\ RefusedOnlyForNulOrName'
  BY <1>1, <1>2, SettledIsAccounted
<1> QED
  BY <1>2, <1>3, HandlingStep DEF BatchInv

LEMMA EntriesShape ==
  ASSUME NEW host, NEW b \in EntryBatch
  PROVE  BatchShape([kind |-> "logs", size |-> Len(b.lines) + Len(b.parsed),
                     errors |-> None, rows |-> EntryRows(host, b)])
<1>1. PICK n \in Nat, m \in Nat : n = Len(b.lines) /\ m = Len(b.parsed)
  <2>1. b.lines \in Seq({b.lines[i] : i \in DOMAIN b.lines})
    BY IngestAssumption DEF IngestAssumption, IsSequence
  <2>2. b.parsed \in Seq({b.parsed[i] : i \in DOMAIN b.parsed})
    BY IngestAssumption DEF IngestAssumption, IsSequence
  <2> QED
    BY <2>1, <2>2
<1> DEFINE valid == {i \in 1 .. n : ValidLine(b.lines[i], 0)}
             \cup {n + j : j \in {k \in 1 .. m : ValidEntry(b.parsed[k], 0)}}
           rows == [i \in valid |-> IF i <= n THEN LineRow(host, b.lines[i], 0)
                                             ELSE EntryRow(host, b.parsed[i - n], 0)]
<1>2. EntryRows(host, b) = rows
  BY <1>1, Zenon DEF EntryRows
<1>3. ASSUME NEW i \in valid PROVE i \in 1 .. n + m /\ EntryChecked(rows[i])
  <2>1. CASE i \in 1 .. n
    BY <2>1, LineRowFits
  <2>2. CASE \E k \in 1 .. m : ValidEntry(b.parsed[k], 0) /\ i = n + k
    <3>1. PICK k \in 1 .. m : ValidEntry(b.parsed[k], 0) /\ i = n + k
      BY <2>2
    <3>2. EntryChecked(EntryRow(host, b.parsed[k], 0))
      BY <3>1, ValidEntryFits
    <3>3. i \in 1 .. n + m /\ ~(i <= n) /\ i - n = k
      BY <3>1
    <3> QED
      BY <3>2, <3>3
  <2> QED
    BY <2>1, <2>2
<1>4. DOMAIN rows = valid
  OBVIOUS
<1> HIDE DEF rows, valid
<1>5. ASSUME NEW h, h = [kind |-> "logs", size |-> n + m, errors |-> None, rows |-> rows]
      PROVE  BatchShape(h)
  <2>1. /\ h.kind = "logs" /\ h.size = n + m /\ h.rows = rows /\ "kind" \in DOMAIN h
        /\ h.errors = None
    BY <1>5
  <2> QED
    BY <1>3, <1>4, <2>1 DEF BatchShape, RowChecked
<1> QED
  BY <1>1, <1>2, <1>5

LEMMA SendLogsStep ==
  ASSUME BatchInv, NEW r \in Call, SendLogs(r) PROVE BatchInv'
<1>1. PICK key \in keys, b \in EntryBatch :
        LET p == Principal(key)
            size == Len(b.lines) + Len(b.parsed)
        IN  IF ~AgentKey(p, "ingest:logs") \/ size > MaxLines
              THEN /\ answer' = Refused(IF AgentKey(p, "ingest:logs") THEN 400 ELSE 403, size)
                   /\ UNCHANGED handling
              ELSE /\ handling' = [handling EXCEPT ![r] =
                        [kind |-> "logs", size |-> size, errors |-> None,
                         rows |-> EntryRows(p.host, b)]]
                   /\ answer' = None
  BY DEF SendLogs
<1> DEFINE p == Principal(key)
           size == Len(b.lines) + Len(b.parsed)
           status == IF AgentKey(p, "ingest:logs") THEN 400 ELSE 403
           h == [kind |-> "logs", size |-> size, errors |-> None,
                 rows |-> EntryRows(p.host, b)]
<1>2. CASE ~AgentKey(p, "ingest:logs") \/ size > MaxLines
  <2>1. answer' = Refused(status, size) /\ handling' = handling
    BY <1>1, <1>2
  <2>2. status # 202
    OBVIOUS
  <2> HIDE DEF status, size
  <2> QED
    BY <2>1, <2>2, RefusedIsAccounted DEF BatchInv
<1>3. CASE ~(~AgentKey(p, "ingest:logs") \/ size > MaxLines)
  <2>1. answer' = None /\ handling' = [handling EXCEPT ![r] = h]
    BY <1>1, <1>3
  <2>2. BatchShape(h)
    BY EntriesShape
  <2> QED
    BY <2>1, <2>2, HandlingStep, NoAnswerIsAccounted DEF BatchInv
<1> QED
  BY <1>2, <1>3

LEMMA InsertEntriesStep ==
  ASSUME BatchInv, NEW r \in Call, InsertEntries(r) PROVE BatchInv'
<1> DEFINE h == handling[r]
           misfit == {i \in DOMAIN h.rows : ~FitsEntries(h.rows[i])}
<1>1. PICK stored \in StoredOf(h.rows, DOMAIN h.rows \ misfit), heard \in BOOLEAN :
        Settle(h, misfit, stored, heard)
  BY DEF InsertEntries
<1>2. BatchShape(h) /\ h.kind = "logs" /\ handling' = [handling EXCEPT ![r] = None]
  BY DEF InsertEntries, BatchInv
<1>3. BatchIsAccounted' /\ RefusedOnlyForNulOrName'
  BY <1>1, <1>2, SettledIsAccounted
<1> QED
  BY <1>2, <1>3, HandlingStep DEF BatchInv

\* The handler of a report of metrics holds no batch and answers nothing here.
LEMMA ReportSteps ==
  ASSUME BatchInv, NEW r \in Call, SendMetrics(r) \/ SeeAgent(r) \/ InsertPoint(r)
  PROVE  BatchInv'
<1>1. answer' = None
  BY DEF SendMetrics, SeeAgent, InsertPoint
<1>2. \E h : handling' = [handling EXCEPT ![r] = h] /\ (h # None => BatchShape(h))
  <2>1. CASE SendMetrics(r)
    BY <2>1 DEF SendMetrics, BatchShape
  <2>2. CASE SeeAgent(r)
    <3>1. PICK h : handling' = [handling EXCEPT ![r] = h]
                   /\ h \in {None, [handling[r] EXCEPT !.kind = "point"]}
      BY <2>2 DEF SeeAgent, BatchInv
    <3>2. "kind" \in DOMAIN handling[r]
      BY <2>2 DEF SeeAgent, BatchInv, BatchShape
    <3> QED
      BY <3>1, <3>2 DEF BatchShape
  <2>3. CASE InsertPoint(r)
    BY <2>3 DEF InsertPoint
  <2> QED
    BY <2>1, <2>2, <2>3
<1> QED
  BY <1>1, <1>2, HandlingStep, NoAnswerIsAccounted DEF BatchInv

LEMMA BatchNext == BatchInv /\ [NextIngest]_ingestVars => BatchInv'
<1> SUFFICES ASSUME BatchInv, [NextIngest]_ingestVars PROVE BatchInv'
  OBVIOUS
<1>1. ASSUME NEW c \in Command, CreateKey(c) PROVE BatchInv'
  BY <1>1, NoAnswerIsAccounted DEF CreateKey, BatchInv
<1>2. ASSUME NEW r \in Call, KeepOut(r) PROVE BatchInv'
  <2>1. handling' = handling /\ \E status \in {401, 429, 500} : answer' = Refused(status, 0)
    BY <1>2 DEF KeepOut, Status, RestVerdict, GrpcVerdict, KeyVerdict
  <2> QED
    BY <2>1, RefusedIsAccounted DEF BatchInv
<1>3. ASSUME Elapse PROVE BatchInv'
  BY <1>3, NoAnswerIsAccounted DEF Elapse, BatchInv
<1>4. CASE UNCHANGED ingestVars
  BY <1>4 DEF ingestVars, BatchInv, BatchIsAccounted, RefusedOnlyForNulOrName
<1> QED
  BY <1>1, <1>2, <1>3, <1>4, PostEventsStep, InsertEventsStep, SendLogsStep,
     InsertEntriesStep, ReportSteps DEF NextIngest

\* For all items, limits and outcomes of the statement, what a call is told agrees
\* with what it left in the table; of the rejected items it is told which, but by
\* POST /v1/events only (BatchIsAccounted).
THEOREM BatchesAreAccounted == SpecIngest => []BatchIsAccounted
<1>1. BatchInv => BatchIsAccounted
  BY DEF BatchInv
<1> QED
  BY <1>1, BatchInit, BatchNext, PTL DEF SpecIngest

\* The validators are as strict as the tables (RefusedOnlyForNulOrName).
THEOREM ValidatorsAreStrict == SpecIngest => []RefusedOnlyForNulOrName
<1>1. BatchInv => RefusedOnlyForNulOrName
  BY DEF BatchInv
<1> QED
  BY <1>1, BatchInit, BatchNext, PTL DEF SpecIngest

-----------------------------------------------------------------------------
(* Reports of metrics.                                                     *)

\* A key has the fields of a role, and an agent's key the name of the agent.
KeyShape(key) ==
  /\ {"agent", "host", "name", "permissions"} \subseteq DOMAIN key
  /\ key.host \in {Role(c).host : c \in Command}
  /\ key.agent # None => key.agent = key.name /\ key.agent \in AgentId

KeysAreUnique ==
  /\ \A key \in keys : KeyShape(key)
  /\ \A j, k \in keys : j.name = k.name => j = k

KeyOf(agent, host) == agent # None /\ \E key \in keys : key.agent = agent /\ key.host = host

\* What a handler of send_metrics holds: the agent and the host of a key, a
\* time the skew allows, and after upsert_seen the row of the agent.
ReportShape(h) ==
  /\ {"kind", "agent", "host", "ts"} \subseteq DOMAIN h
  /\ KeyOf(h.agent, h.host)
  /\ h.ts \in Int /\ h.ts <= clock + MaxFutureSkew
  /\ h.kind = "point" =>
       /\ agents[h.agent] # None /\ agents[h.agent].host = h.host
       /\ h.ts <= agents[h.agent].seen + MaxFutureSkew

HandledReports ==
  /\ DOMAIN handling = Call
  /\ \A r \in Call : handling[r] # None /\ handling[r].kind \in {"seen", "point"}
       => ReportShape(handling[r])

AgentsHaveKeys ==
  /\ clock \in Nat /\ DOMAIN agents = AgentId
  /\ \A a \in AgentId : agents[a] # None =>
       /\ agents[a].seen \in Nat /\ agents[a].seen <= clock
       /\ KeyOf(a, agents[a].host)

NewestIsBacked ==
  newest # None =>
    /\ newest \in Int
    /\ \E a \in AgentId : agents[a] # None /\ newest <= agents[a].seen + MaxFutureSkew

ReportInv ==
  KeysAreUnique /\ HandledReports /\ AgentsHaveKeys /\ NewestIsBacked /\ ReportsHaveAgent

\* One key for an agent, hence one host name.
LEMMA OneHost ==
  ASSUME KeysAreUnique, NEW agent, NEW host, NEW other, KeyOf(agent, host), KeyOf(agent, other)
  PROVE  host = other
BY DEF KeysAreUnique, KeyShape, KeyOf

LEMMA RoleIsKey ==
  ASSUME NEW c \in Command, OneRole(c) PROVE KeyShape(Role(c))
<1>1. Role(c).agent # None => Role(c).agent \in AgentId
  BY DEF AgentId
<1>2. {"agent", "host", "name", "permissions"} \subseteq DOMAIN Role(c)
        /\ (Role(c).agent # None => Role(c).agent = Role(c).name)
  BY DEF Role
<1> QED
  BY <1>1, <1>2 DEF KeyShape

LEMMA ReportInit == InitIngest => ReportInv
BY DEF InitIngest, ReportInv, KeysAreUnique, HandledReports, AgentsHaveKeys,
       NewestIsBacked, ReportsHaveAgent

LEMMA CreateKeyReports ==
  ASSUME ReportInv, NEW c \in Command, CreateKey(c) PROVE ReportInv'
<1>1. /\ keys' = keys \cup {Role(c)} /\ OneRole(c)
      /\ \A key \in keys : key.name # Role(c).name
      /\ clock' = clock /\ handling' = handling /\ agents' = agents
      /\ hosts' = hosts /\ newest' = newest
  BY DEF CreateKey, metrics
<1>2. KeysAreUnique'
  BY <1>1, RoleIsKey DEF ReportInv, KeysAreUnique, KeyShape
<1>3. \A agent, host : KeyOf(agent, host) => KeyOf(agent, host)'
  BY <1>1 DEF KeyOf
<1>4. HandledReports' /\ AgentsHaveKeys' /\ NewestIsBacked' /\ ReportsHaveAgent'
  BY <1>1, <1>3 DEF ReportInv, HandledReports, AgentsHaveKeys, NewestIsBacked,
     ReportsHaveAgent, ReportShape
<1> QED
  BY <1>2, <1>4 DEF ReportInv

\* A step that changes no more than what one call holds.
LEMMA ReportKept ==
  ASSUME ReportInv, NEW r \in Call, NEW h,
         handling' \in {handling, [handling EXCEPT ![r] = h]},
         h # None /\ h.kind \in {"seen", "point"} => ReportShape(h),
         keys' = keys, clock' = clock, agents' = agents,
         hosts' = hosts, newest' = newest
  PROVE  ReportInv'
<1>1. \A g : ReportShape(g) => ReportShape(g)'
  BY DEF ReportShape, KeyOf
<1>2. HandledReports'
  BY <1>1 DEF ReportInv, HandledReports
<1>3. KeysAreUnique' /\ AgentsHaveKeys' /\ NewestIsBacked' /\ ReportsHaveAgent'
  BY DEF ReportInv, KeysAreUnique, KeyShape, KeyOf, AgentsHaveKeys, NewestIsBacked,
     ReportsHaveAgent
<1> QED
  BY <1>2, <1>3 DEF ReportInv

LEMMA SendMetricsReports ==
  ASSUME ReportInv, NEW r \in Call, SendMetrics(r) PROVE ReportInv'
<1>1. PICK key \in keys, d \in PointTime, cpu \in {"ok", "nan"} :
        LET p == Principal(key)
            point == [ms |-> clock + d, cpu |-> cpu, load1 |-> "ok", load5 |-> "ok"]
        IN  /\ AgentKey(p, "ingest:metrics") /\ ValidPoint(point, clock)
            /\ handling' = [handling EXCEPT ![r] =
                 [kind |-> "seen", agent |-> p.agent, host |-> p.host, ts |-> clock + d]]
  BY DEF SendMetrics
<1> DEFINE p == Principal(key)
           point == [ms |-> clock + d, cpu |-> cpu, load1 |-> "ok", load5 |-> "ok"]
           h == [kind |-> "seen", agent |-> p.agent, host |-> p.host, ts |-> clock + d]
<1>2. p.agent = key.agent /\ p.host = key.host
  BY DEF Principal, ReportInv, KeysAreUnique, KeyShape
<1>3. KeyOf(p.agent, p.host)
  BY <1>1, <1>2 DEF AgentKey, KeyOf
<1>4. clock \in Nat /\ d \in Int /\ clock + d # None
  BY IngestAssumption DEF IngestAssumption, ReportInv, AgentsHaveKeys
<1>5. clock + d <= clock + MaxFutureSkew
  <2>1. FromMs(point.ms, clock) = clock + d
    BY <1>4 DEF FromMs
  <2>2. timestamp(clock + d, clock)
    BY <1>1, <2>1, Zenon DEF ValidPoint
  <2> QED
    BY <1>4, <2>2, IngestAssumption DEF IngestAssumption, timestamp
<1>6. ReportShape(h)
  <2>1. /\ h.kind = "seen" /\ h.agent = p.agent /\ h.host = p.host /\ h.ts = clock + d
        /\ {"kind", "agent", "host", "ts"} \subseteq DOMAIN h
    OBVIOUS
  <2> HIDE DEF h, p
  <2> QED
    BY <1>3, <1>4, <1>5, <2>1 DEF ReportShape
<1>7. handling' \in {handling, [handling EXCEPT ![r] = h]} /\ (h # None => ReportShape(h))
  BY <1>1, <1>6
<1>8. keys' = keys /\ clock' = clock /\ agents' = agents /\ hosts' = hosts /\ newest' = newest
  BY DEF SendMetrics, metrics
<1> HIDE DEF h
<1> QED
  BY <1>7, <1>8, ReportKept

LEMMA SeeAgentReports ==
  ASSUME ReportInv, NEW r \in Call, SeeAgent(r) PROVE ReportInv'
<1> DEFINE h == handling[r]
           a == h.agent
           row == [host |-> h.host, seen |-> clock]
<1>1. PICK done \in BOOLEAN, heard \in BOOLEAN :
        /\ agents' = IF done THEN [agents EXCEPT ![a] = row] ELSE agents
        /\ handling' = [handling EXCEPT ![r] =
             IF done /\ heard THEN [h EXCEPT !.kind = "point"] ELSE None]
  BY DEF SeeAgent
<1>2. /\ h # None /\ h.kind = "seen" /\ ReportShape(h)
      /\ keys' = keys /\ clock' = clock /\ hosts' = hosts /\ newest' = newest
  BY DEF SeeAgent, metrics, ReportInv, HandledReports
<1>3. CASE ~done
  <2>1. handling' \in {handling, [handling EXCEPT ![r] = None]} /\ agents' = agents
    BY <1>1, <1>3
  <2> QED
    BY <1>2, <2>1, ReportKept
<1>4. CASE done
  <2>1. a \in AgentId
    BY <1>2 DEF ReportShape, KeyOf, ReportInv, KeysAreUnique, KeyShape
  <2>2. /\ agents' = [agents EXCEPT ![a] = row] /\ agents'[a] = row /\ row # None
        /\ row.host = h.host /\ row.seen = clock
    <3>1. h.host \in {Role(c).host : c \in Command} /\ clock \in Nat /\ DOMAIN agents = AgentId
      BY <1>2 DEF ReportShape, KeyOf, ReportInv, KeysAreUnique, KeyShape, AgentsHaveKeys
    <3>2. row \in AgentRow
      BY <3>1 DEF AgentRow
    <3>3. row # None
      BY <3>2, IngestAssumption DEF IngestAssumption
    <3> QED
      BY <1>1, <1>4, <2>1, <3>1, <3>3
  <2> HIDE DEF row
  <2>3. \A b \in AgentId : agents[b] # None =>
          agents'[b] # None /\ agents'[b].host = agents[b].host /\ agents[b].seen <= agents'[b].seen
            /\ agents'[b].seen \in Nat
    BY <1>2, <2>1, <2>2, OneHost DEF ReportShape, ReportInv, AgentsHaveKeys
  <2>4. \A g : ReportShape(g) => ReportShape(g)'
    BY <1>2, <2>3, IngestAssumption DEF IngestAssumption, ReportShape, KeyOf, ReportInv, AgentsHaveKeys,
       KeysAreUnique, KeyShape
  <2>5. HandledReports'
    BY <1>1, <1>2, <2>2, <2>4 DEF ReportInv, HandledReports, ReportShape, KeyOf
  <2>6. KeysAreUnique'
    BY <1>2 DEF ReportInv, KeysAreUnique, KeyShape
  <2>7. AgentsHaveKeys'
    BY <1>2, <2>1, <2>2 DEF ReportInv, AgentsHaveKeys, ReportShape, KeyOf
  <2>8. NewestIsBacked'
    BY <1>2, <2>3, IngestAssumption DEF IngestAssumption, ReportInv, NewestIsBacked, AgentsHaveKeys
  <2>9. ReportsHaveAgent'
    BY <1>2, <2>3 DEF ReportInv, ReportsHaveAgent
  <2> QED
    BY <2>5, <2>6, <2>7, <2>8, <2>9 DEF ReportInv
<1> QED
  BY <1>3, <1>4

LEMMA InsertPointReports ==
  ASSUME ReportInv, NEW r \in Call, InsertPoint(r) PROVE ReportInv'
<1> DEFINE h == handling[r]
<1>1. /\ h # None /\ h.kind = "point" /\ ReportShape(h)
      /\ handling' = [handling EXCEPT ![r] = None]
      /\ keys' = keys /\ clock' = clock /\ agents' = agents
  BY DEF InsertPoint, ReportInv, HandledReports
<1>2. CASE UNCHANGED metrics
  <2>1. /\ handling' \in {handling, [handling EXCEPT ![r] = None]}
        /\ hosts' = hosts /\ newest' = newest
    BY <1>1, <1>2 DEF metrics
  <2>2. keys' = keys /\ clock' = clock /\ agents' = agents
    BY <1>1
  <2> QED
    BY <2>1, <2>2, ReportKept
<1>3. CASE /\ hosts' = hosts \cup {h.host}
           /\ newest' = IF newest = None \/ newest < h.ts THEN h.ts ELSE newest
  <2>1. h.agent \in AgentId
    BY <1>1 DEF ReportShape, KeyOf, ReportInv, KeysAreUnique, KeyShape
  <2>2. NewestIsBacked'
    BY <1>1, <1>3, <2>1 DEF ReportInv, NewestIsBacked, ReportShape
  <2>3. ReportsHaveAgent'
    BY <1>1, <1>3, <2>1 DEF ReportInv, ReportsHaveAgent, ReportShape
  <2>4. \A g : ReportShape(g) => ReportShape(g)'
    BY <1>1 DEF ReportShape, KeyOf
  <2>5. HandledReports'
    BY <1>1, <2>4 DEF ReportInv, HandledReports
  <2>6. KeysAreUnique' /\ AgentsHaveKeys'
    BY <1>1 DEF ReportInv, KeysAreUnique, KeyShape, KeyOf, AgentsHaveKeys
  <2> QED
    BY <2>2, <2>3, <2>5, <2>6 DEF ReportInv
<1> QED
  BY <1>2, <1>3 DEF InsertPoint

\* The handlers of batches touch neither the agents nor the points.
LEMMA BatchStepsReports ==
  ASSUME ReportInv, NEW r \in Call,
         PostEvents(r) \/ InsertEvents(r) \/ SendLogs(r) \/ InsertEntries(r) \/ KeepOut(r)
  PROVE  ReportInv'
<1>1. keys' = keys /\ clock' = clock /\ agents' = agents /\ hosts' = hosts /\ newest' = newest
  BY DEF PostEvents, InsertEvents, SendLogs, InsertEntries, KeepOut, metrics
<1>2. PICK h : /\ h # None => h.kind \in {"events", "logs"}
               /\ handling' \in {handling, [handling EXCEPT ![r] = h]}
  <2>1. CASE PostEvents(r)
    BY <2>1 DEF PostEvents
  <2>2. CASE SendLogs(r)
    BY <2>2 DEF SendLogs
  <2>3. CASE InsertEvents(r) \/ InsertEntries(r)
    BY <2>3 DEF InsertEvents, InsertEntries
  <2>4. CASE KeepOut(r)
    BY <2>4 DEF KeepOut
  <2> QED
    BY <2>1, <2>2, <2>3, <2>4
<1> QED
  BY <1>1, <1>2, ReportKept

LEMMA ElapseReports == ASSUME ReportInv, Elapse PROVE ReportInv'
<1>1. /\ clock' = clock + 1 /\ keys' = keys /\ handling' = handling
      /\ agents' = agents /\ hosts' = hosts /\ newest' = newest
  BY DEF Elapse, metrics
<1>2. clock \in Nat /\ MaxFutureSkew \in Nat
  BY IngestAssumption DEF IngestAssumption, ReportInv, AgentsHaveKeys
<1>3. \A g : ReportShape(g) => ReportShape(g)'
  BY <1>1, <1>2 DEF ReportShape, KeyOf
<1>4. HandledReports'
  BY <1>1, <1>3 DEF ReportInv, HandledReports
<1>5. AgentsHaveKeys'
  BY <1>1, <1>2 DEF ReportInv, AgentsHaveKeys, KeyOf
<1>6. KeysAreUnique' /\ NewestIsBacked' /\ ReportsHaveAgent'
  BY <1>1 DEF ReportInv, KeysAreUnique, KeyShape, KeyOf, NewestIsBacked, ReportsHaveAgent
<1> QED
  BY <1>4, <1>5, <1>6 DEF ReportInv

LEMMA ReportNext == ReportInv /\ [NextIngest]_ingestVars => ReportInv'
<1> SUFFICES ASSUME ReportInv, [NextIngest]_ingestVars PROVE ReportInv'
  OBVIOUS
<1>1. CASE UNCHANGED ingestVars
  <2>1. /\ clock' = clock /\ keys' = keys /\ handling' = handling
        /\ agents' = agents /\ hosts' = hosts /\ newest' = newest
    BY <1>1 DEF ingestVars
  <2>2. \A g : ReportShape(g) => ReportShape(g)'
    BY <2>1 DEF ReportShape, KeyOf
  <2> QED
    BY <2>1, <2>2 DEF ReportInv, KeysAreUnique, KeyShape, KeyOf, HandledReports,
       AgentsHaveKeys, NewestIsBacked, ReportsHaveAgent
<1> QED
  BY <1>1, CreateKeyReports, SendMetricsReports, SeeAgentReports, InsertPointReports,
     BatchStepsReports, ElapseReports DEF NextIngest

\* The summary of the servers trusts the clock of an agent no further than
\* the skew that validation allows (OnlineIsRecent).
THEOREM SummaryIsRecent == SpecIngest => []OnlineIsRecent
<1>1. ReportInv => OnlineIsRecent
  <2> SUFFICES ASSUME ReportInv, ServerOnline PROVE OnlineIsRecent
    BY DEF OnlineIsRecent
  <2>1. PICK a \in AgentId : agents[a] # None /\ newest <= agents[a].seen + MaxFutureSkew
    BY DEF ReportInv, NewestIsBacked, ServerOnline
  <2>2. agents[a].seen > clock - OnlineWindow - MaxFutureSkew
    BY <2>1, IngestAssumption DEF IngestAssumption, ReportInv, NewestIsBacked,
       AgentsHaveKeys, ServerOnline
  <2> QED
    BY <2>1, <2>2 DEF OnlineIsRecent
<1> QED
  BY <1>1, ReportInit, ReportNext, PTL DEF SpecIngest

\* Every host with points is that of a registered agent (ReportsHaveAgent).
THEOREM PointsHaveAgent == SpecIngest => []ReportsHaveAgent
<1>1. ReportInv => ReportsHaveAgent
  BY DEF ReportInv
<1> QED
  BY <1>1, ReportInit, ReportNext, PTL DEF SpecIngest

-----------------------------------------------------------------------------
(* Paging through the events.  An event that has not been shown has at     *)
(* least as many events in front of it as the pages shown so far hold:     *)
(* deletions take away events behind it only, as the retention is by age   *)
(* and so is the order.                                                    *)

InFront(e) == {f \in InRange : ByTime(f, e)}

ReadsType ==
  /\ daysOld \in [EventId -> Int]
  /\ page \in Nat \ {0}
  /\ total \in Nat \cup {None}
  /\ steady \subseteq Lasting

UnseenIsBehind ==
  \A e \in steady \ seen : Cardinality(InFront(e)) >= (page - 1) * PageSize

CountHolds == total # None /\ ~raced => Cardinality(InRange) <= total

ReadsInv == ReadsType /\ UnseenIsBehind /\ CountHolds /\ NothingSkipped

ReadsConstants ==
  /\ EventId \subseteq Nat /\ IsFiniteSet(EventId)
  /\ {PageSize, RangeDays, KeepDays, MaxAge, MaxPastAge} \subseteq Nat /\ PageSize > 0
  /\ MaxAge > RangeDays /\ MaxAge > KeepDays /\ None \notin Nat

LEMMA ReadsConstantsHold == ReadsConstants
BY ReadsAssumption DEF ReadsAssumption, ReadsConstants

\* Of the sets that are counted, the smaller has the fewer elements.
LEMMA Counted ==
  ASSUME NEW S \in SUBSET EventId, NEW T \in SUBSET S
  PROVE  /\ IsFiniteSet(S) /\ Cardinality(S) \in Nat /\ Cardinality(T) \in Nat
         /\ Cardinality(T) <= Cardinality(S)
         /\ T # S => Cardinality(T) < Cardinality(S)
<1>1. IsFiniteSet(S)
  BY ReadsConstantsHold, FS_Subset DEF ReadsConstants
<1>2. IsFiniteSet(T) /\ Cardinality(T) <= Cardinality(S)
        /\ (Cardinality(S) = Cardinality(T) => S = T)
  BY <1>1, FS_Subset
<1>3. Cardinality(S) \in Nat /\ Cardinality(T) \in Nat
  BY <1>1, <1>2, FS_CardinalityType
<1> QED
  BY <1>1, <1>2, <1>3

LEMMA ReadsInit == InitReads => ReadsInv
<1> SUFFICES ASSUME InitReads PROVE ReadsInv
  OBVIOUS
<1>1. ReadsType
  BY ReadsConstantsHold DEF InitReads, ReadsType, ReadsConstants
<1>2. ASSUME NEW e \in EventId PROVE Cardinality(InFront(e)) >= (page - 1) * PageSize
  <2>1. InFront(e) \in SUBSET EventId
    BY DEF InFront, InRange, Present
  <2>2. Cardinality(InFront(e)) \in Nat
    BY <2>1, Counted
  <2>3. page = 1 /\ (page - 1) * PageSize = 0
    BY ReadsConstantsHold DEF InitReads, ReadsConstants
  <2> QED
    BY <2>2, <2>3
<1>3. steady \subseteq EventId
  BY DEF InitReads, Lasting, InRange, Present
<1> QED
  BY <1>1, <1>2, <1>3 DEF InitReads, ReadsInv, UnseenIsBehind, CountHolds, NothingSkipped

\* The listing has every event of the range, and at the place that the events in
\* front of it leave.
HasPlaces(list) ==
  \A e \in InRange : \E j \in DOMAIN list :
    list[j] = e /\ j = Cardinality(InFront(e)) + 1

LEMMA ListingHasPlaces == ASSUME ReadsType PROVE HasPlaces(Listing)
<1> DEFINE S == InRange
           before == [x \in S |-> InFront(x)]
<1>1. \A x \in S : before[x] = {y \in S : ByTime(y, x)}
  BY DEF InFront
<1>2. IsFiniteSet(S) /\ \A x \in S : x \in Nat /\ daysOld[x] \in Int
  <2>1. S \in SUBSET EventId
    BY DEF InRange, Present
  <2> QED
    BY <2>1, Counted, ReadsConstantsHold DEF ReadsType, ReadsConstants
<1>3. \A x, y, z \in S : /\ ~ByTime(x, x) /\ (ByTime(x, y) /\ ByTime(y, z) => ByTime(x, z))
                         /\ (x # y => ByTime(x, y) \/ ByTime(y, x))
  BY <1>2 DEF ByTime
<1> HIDE DEF before, S
<1>4. /\ \A x \in S : before[x] \subseteq S /\ x \notin before[x]
      /\ \A x, y \in S : x # y => x \in before[y] \/ y \in before[x]
      /\ \A x, y \in S : x \in before[y] => before[x] \subseteq before[y]
  BY <1>1, <1>3
<1>5. IsOrder(S, before)
  BY <1>4 DEF IsOrder
<1>6. ASSUME NEW list, list = Listing PROVE InPlace(list, S, before)
  <2>1. list = [j \in 1 .. Cardinality(S) |->
                  CHOOSE x \in S : Cardinality({y \in S : ByTime(y, x)}) = j - 1]
    BY <1>6, Zenon DEF Listing, Ordered, S
  <2>2. ASSUME NEW j \in 1 .. Cardinality(S)
        PROVE  list[j] \in S /\ Cardinality(before[list[j]]) = j - 1
    <3>1. \E x \in S : Cardinality(before[x]) = j - 1
      BY <1>2, <1>5, PlacesAreTaken
    <3>2. \E x \in S : Cardinality({y \in S : ByTime(y, x)}) = j - 1
      BY <1>1, <3>1
    <3>3. list[j] = CHOOSE x \in S : Cardinality({y \in S : ByTime(y, x)}) = j - 1
      BY <2>1
    <3>4. list[j] \in S /\ Cardinality({y \in S : ByTime(y, list[j])}) = j - 1
      BY <3>2, <3>3
    <3> QED
      BY <1>1, <3>4
  <2> QED
    BY <2>1, <2>2 DEF InPlace
<1>7. ASSUME NEW list, Follows(list, S, before) PROVE HasPlaces(list)
  <2>1. /\ DOMAIN list = 1 .. Len(list)
        /\ \A x \in S : \E j \in 1 .. Len(list) :
             list[j] = x /\ Cardinality(before[x]) = j - 1
    <3>1. list \in Seq(S)
      BY <1>7 DEF Follows
    <3>2. DOMAIN list = 1 .. Len(list)
      BY <3>1, LenProperties
    <3> QED
      BY <1>7, <3>2, Zenon DEF Follows
  <2>2. ASSUME NEW e \in S
        PROVE  \E j \in DOMAIN list : list[j] = e /\ j = Cardinality(InFront(e)) + 1
    <3>1. PICK j \in 1 .. Len(list) : list[j] = e /\ Cardinality(before[e]) = j - 1
      BY <2>1
    <3>2. j \in Int /\ Cardinality(InFront(e)) = j - 1
      BY <3>1 DEF before
    <3> QED
      BY <2>1, <3>1, <3>2
  <2> QED
    BY <2>2 DEF HasPlaces, S
<1> QED
  BY <1>2, <1>5, <1>6, <1>7, OrderedList

LEMMA FetchStep == ASSUME ReadsInv, Fetch PROVE ReadsInv'
<1> DEFINE first == (page - 1) * PageSize
           shown == {Listing[i] : i \in DOMAIN Listing \cap first + 1 .. first + PageSize}
<1>1. /\ seen' = seen \cup shown
      /\ finished' = (page * PageSize >= total)
      /\ page' \in {page, page + 1} /\ total' = None
      /\ UNCHANGED <<daysOld, steady, raced>>
  BY DEF Fetch
<1>2. PageSize \in Nat /\ page \in Nat \ {0}
  BY ReadsConstantsHold DEF ReadsConstants, ReadsInv, ReadsType
<1>3. /\ first \in Nat /\ first + PageSize = page * PageSize
      /\ (page' - 1) * PageSize <= first + PageSize
  BY <1>1, <1>2
<1> HIDE DEF first
<1>4. /\ InRange' = InRange /\ Lasting' = Lasting
      /\ \A e : InFront(e)' = InFront(e)
  BY <1>1 DEF InRange, Present, Lasting, InFront, ByTime
<1>5. ASSUME NEW e \in steady' \ seen'
      PROVE  /\ Cardinality(InFront(e)) \in Nat
             /\ Cardinality(InFront(e)) >= first + PageSize
             /\ Cardinality(InFront(e)) < Cardinality(InRange)
  <2>1. e \in steady \ seen /\ e \notin shown /\ e \in InRange
    BY <1>1 DEF ReadsInv, ReadsType, Lasting
  <2>2. PICK j \in DOMAIN Listing : Listing[j] = e /\ j = Cardinality(InFront(e)) + 1
    BY <2>1, ListingHasPlaces DEF HasPlaces, ReadsInv
  <2>3. InRange \in SUBSET EventId /\ InFront(e) \in SUBSET InRange /\ e \notin InFront(e)
    BY <2>1, ReadsConstantsHold
       DEF InRange, Present, InFront, ByTime, ReadsInv, ReadsType, ReadsConstants
  <2>4. /\ Cardinality(InFront(e)) \in Nat
        /\ Cardinality(InFront(e)) < Cardinality(InRange)
    BY <2>1, <2>3, Counted
  <2>5. Cardinality(InFront(e)) >= first
    BY <2>1 DEF ReadsInv, UnseenIsBehind, first
  <2>6. j \notin first + 1 .. first + PageSize
    BY <2>1, <2>2
  <2> QED
    BY <1>2, <1>3, <2>2, <2>4, <2>5, <2>6
<1>6. ReadsType'
  BY <1>1, <1>2, <1>4 DEF ReadsInv, ReadsType
<1>7. UnseenIsBehind'
  BY <1>1, <1>2, <1>3, <1>4, <1>5 DEF UnseenIsBehind
<1>8. CountHolds'
  BY <1>1 DEF CountHolds
<1>9. NothingSkipped'
  <2>1. SUFFICES ASSUME finished', ~raced', NEW e \in steady' \ seen' PROVE FALSE
    BY DEF NothingSkipped
  <2>2. total # None /\ total \in Nat /\ total <= first + PageSize
    BY <1>1, <1>3, <2>1 DEF Fetch, ReadsInv, ReadsType
  <2>3. Cardinality(InRange) <= total
    BY <1>1, <2>1, <2>2 DEF ReadsInv, CountHolds
  <2>4. InRange \in SUBSET EventId
    BY DEF InRange, Present
  <2>5. Cardinality(InRange) \in Nat
    BY <2>4, Counted
  <2> QED
    BY <1>2, <1>3, <1>5, <2>1, <2>2, <2>3, <2>5
<1> QED
  BY <1>6, <1>7, <1>8, <1>9 DEF ReadsInv

\* The other steps leave what is in front of a steady event there, and unless an
\* event is stored none comes into the range.
LEMMA RangeShifts ==
  ASSUME ReadsInv, ReadsType', UNCHANGED <<page, seen, finished>>, steady' \subseteq steady,
         \A e \in steady' : InFront(e) \subseteq InFront(e)',
         \/ raced' = TRUE
         \/ raced' = raced /\ total' \in {total, None} /\ InRange' \subseteq InRange
  PROVE  ReadsInv'
<1>1. UnseenIsBehind'
  <2>1. SUFFICES ASSUME NEW e \in steady' \ seen'
                 PROVE  Cardinality(InFront(e)') >= (page - 1) * PageSize
    BY DEF UnseenIsBehind
  <2>2. InFront(e)' \in SUBSET EventId /\ InFront(e) \in SUBSET InFront(e)'
    BY <2>1 DEF InFront, InRange, Present
  <2>3. Cardinality(InFront(e)) <= Cardinality(InFront(e)')
          /\ Cardinality(InFront(e)) \in Nat /\ Cardinality(InFront(e)') \in Nat
    BY <2>2, Counted
  <2>4. Cardinality(InFront(e)) >= (page - 1) * PageSize
    BY <2>1 DEF ReadsInv, UnseenIsBehind
  <2>5. (page - 1) * PageSize \in Int
    BY ReadsConstantsHold DEF ReadsConstants, ReadsInv, ReadsType
  <2> QED
    BY <2>3, <2>4, <2>5
<1>2. CountHolds'
  <2>1. SUFFICES ASSUME total' # None, ~raced' PROVE Cardinality(InRange') <= total'
    BY DEF CountHolds
  <2>2. total' = total /\ InRange' \subseteq InRange /\ Cardinality(InRange) <= total
    BY <2>1 DEF ReadsInv, CountHolds
  <2>3. InRange \in SUBSET EventId /\ InRange' \in SUBSET InRange /\ total \in Nat
    BY <2>1, <2>2 DEF InRange, Present, ReadsInv, ReadsType
  <2>4. Cardinality(InRange') <= Cardinality(InRange)
          /\ Cardinality(InRange) \in Nat /\ Cardinality(InRange') \in Nat
    BY <2>3, Counted
  <2> QED
    BY <2>2, <2>3, <2>4
<1>3. NothingSkipped'
  BY DEF ReadsInv, NothingSkipped
<1> QED
  BY <1>1, <1>2, <1>3 DEF ReadsInv

LEMMA StoreStep == ASSUME ReadsInv, NEW e \in EventId, StoreEvent(e) PROVE ReadsInv'
<1>1. PICK n \in 0 .. MaxPastAge : daysOld' = [daysOld EXCEPT ![e] = n]
  BY DEF StoreEvent
<1>2. daysOld[e] = -1 /\ raced' = TRUE /\ UNCHANGED <<page, total, seen, steady, finished>>
  BY DEF StoreEvent
<1>3. daysOld \in [EventId -> Int] /\ n \in Int
  BY ReadsConstantsHold DEF ReadsConstants, ReadsInv, ReadsType
<1>4. /\ daysOld' \in [EventId -> Int]
      /\ \A f \in EventId : daysOld[f] >= 0 => daysOld'[f] = daysOld[f]
  BY <1>1, <1>2, <1>3
<1>5. InRange \subseteq InRange' /\ Lasting \subseteq Lasting'
  BY <1>4 DEF Lasting, InRange, Present
<1>6. ReadsType'
  BY <1>2, <1>4, <1>5 DEF ReadsInv, ReadsType
<1>7. ASSUME NEW f \in steady' PROVE InFront(f) \subseteq InFront(f)'
  BY <1>2, <1>4, <1>5 DEF InFront, ByTime, ReadsInv, ReadsType, Lasting, InRange, Present
<1> QED
  BY <1>2, <1>6, <1>7, RangeShifts

LEMMA DeleteStep == ASSUME ReadsInv, DeleteEvents PROVE ReadsInv'
<1>1. PICK D \in SUBSET {e \in Present : daysOld[e] > KeepDays} :
        daysOld' = [e \in EventId |-> IF e \in D THEN -2 ELSE daysOld[e]]
  BY DEF DeleteEvents
<1>2. UNCHANGED <<page, total, seen, steady, raced, finished>>
  BY DEF DeleteEvents
<1>3. daysOld \in [EventId -> Int] /\ KeepDays \in Int
  BY ReadsConstantsHold DEF ReadsConstants, ReadsInv, ReadsType
<1>4. /\ daysOld' \in [EventId -> Int]
      /\ \A e \in EventId : \/ daysOld'[e] = daysOld[e]
                            \/ daysOld'[e] = -2 /\ daysOld[e] > KeepDays
  BY <1>1, <1>3
<1>5. InRange' \subseteq InRange /\ Lasting \subseteq Lasting'
  BY <1>3, <1>4 DEF Lasting, InRange, Present
<1>6. ReadsType'
  BY <1>2, <1>4, <1>5 DEF ReadsInv, ReadsType
<1>7. ASSUME NEW e \in steady' PROVE InFront(e) \subseteq InFront(e)'
  BY <1>2, <1>3, <1>4 DEF InFront, ByTime, ReadsInv, ReadsType, Lasting, InRange, Present
<1> QED
  BY <1>2, <1>5, <1>6, <1>7, RangeShifts

LEMMA DayStep == ASSUME ReadsInv, NextDay PROVE ReadsInv'
<1>1. /\ daysOld' = [e \in EventId |-> IF e \in Present /\ daysOld[e] < MaxAge
                                          THEN daysOld[e] + 1 ELSE daysOld[e]]
      /\ steady' = steady \cap Lasting'
      /\ UNCHANGED <<page, total, seen, raced, finished>>
  BY DEF NextDay
<1>2. /\ daysOld \in [EventId -> Int] /\ MaxAge > RangeDays
      /\ {MaxAge, RangeDays, KeepDays} \subseteq Nat
  BY ReadsConstantsHold DEF ReadsConstants, ReadsInv, ReadsType
<1>3. /\ daysOld' \in [EventId -> Int]
      /\ \A e \in InRange : daysOld'[e] = daysOld[e] + 1
      /\ \A e \in EventId \ InRange : e \notin InRange'
  BY <1>1, <1>2 DEF InRange, Present
<1>4. InRange' \subseteq InRange
  BY <1>3 DEF InRange, Present
<1>5. ReadsType'
  BY <1>1, <1>3 DEF ReadsInv, ReadsType
<1>6. ASSUME NEW e \in steady' PROVE InFront(e) \subseteq InFront(e)'
  <2>1. e \in InRange /\ e \in InRange' /\ daysOld'[e] = daysOld[e] + 1
    BY <1>1, <1>3, <1>4 DEF Lasting
  <2>2. ASSUME NEW f \in InFront(e) PROVE f \in InFront(e)'
    <3>1. f \in InRange /\ daysOld'[f] = daysOld[f] + 1 /\ ByTime(f, e)
      BY <1>3, <2>2 DEF InFront
    <3>2. daysOld[f] \in Int /\ daysOld[e] \in Int /\ daysOld[f] <= daysOld[e]
      BY <1>2, <2>1, <3>1 DEF ByTime, InRange, Present
    <3>3. f \in InRange' /\ ByTime(f, e)'
      BY <1>2, <2>1, <3>1, <3>2 DEF ByTime, InRange, Present
    <3> QED
      BY <3>3 DEF InFront
  <2> QED
    BY <2>2
<1> QED
  BY <1>1, <1>4, <1>5, <1>6, RangeShifts

LEMMA ReadsNext == ReadsInv /\ [NextReads]_readsVars => ReadsInv'
<1> SUFFICES ASSUME ReadsInv, [NextReads]_readsVars PROVE ReadsInv'
  OBVIOUS
<1>1. CASE Count
  <2>1. /\ total' = Cardinality(InRange)
        /\ UNCHANGED <<daysOld, page, seen, steady, finished>> /\ ~finished
    BY <1>1 DEF Count
  <2>2. InRange \in SUBSET EventId
    BY DEF InRange, Present
  <2>3. Cardinality(InRange) \in Nat
    BY <2>2, Counted
  <2>4. InRange' = InRange /\ Lasting' = Lasting /\ \A e : InFront(e)' = InFront(e)
    BY <2>1 DEF InRange, Present, Lasting, InFront, ByTime
  <2> QED
    BY <2>1, <2>3, <2>4
       DEF ReadsInv, ReadsType, UnseenIsBehind, CountHolds, NothingSkipped
<1>2. CASE FetchFails \/ UNCHANGED readsVars
  <2>1. UNCHANGED <<daysOld, page, seen, steady, raced, finished>> /\ total' \in {total, None}
    BY <1>2 DEF FetchFails, readsVars
  <2>2. InRange' = InRange /\ Lasting' = Lasting /\ \A e : InFront(e)' = InFront(e)
    BY <2>1 DEF InRange, Present, Lasting, InFront, ByTime
  <2>3. ReadsType'
    BY <2>1, <2>2 DEF ReadsInv, ReadsType
  <2> QED
    BY <2>1, <2>2, <2>3, RangeShifts
<1> QED
  BY <1>1, <1>2, FetchStep, StoreStep, DeleteStep, DayStep DEF NextReads

\* A reader that turns the pages to the end, while events are stored and deleted
\* and days pass, has seen every event that was there all the time
\* (NothingSkipped).
THEOREM PagesSkipNothing == SpecReads => []NothingSkipped
<1>1. ReadsInv => NothingSkipped
  BY DEF ReadsInv
<1> QED
  BY <1>1, ReadsInit, ReadsNext, PTL DEF SpecReads
=============================================================================
