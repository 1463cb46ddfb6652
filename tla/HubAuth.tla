-------------------------------- MODULE HubAuth --------------------------------
(***************************************************************************)
(* The cache of verified keys in the hub's AuthService (src/hub/auth.rs)   *)
(* as a cache in front of the table api_keys, which another process (the   *)
(* hub-key command) changes.                                               *)
(*                                                                         *)
(* A request looks its key up in the cache; on a miss it reads the row of  *)
(* the key, verifies it, and inserts the principal, with no lock held in   *)
(* between.  Entries expire after TTL, are purged when something is        *)
(* inserted, and give way to newer ones when the cache is full.  Requests  *)
(* are taken to carry the secret that belongs to their key.                *)
(***************************************************************************)
EXTENDS Naturals, Sequences, FiniteSets, SequencesExt, Lists

CONSTANTS
  Key,         \* key ids
  Request,     \* requests that can be under way at the same time
  Capacity,    \* CACHE_MAX_ENTRIES
  TTL,         \* CACHE_TTL
  MaxVerify,   \* time from the read of a row to the insertion, at most
  MaxTime,     \* bound: the clock
  Unset        \* no key, no time

ASSUME AuthAssumption ==
  /\ {Capacity, TTL, MaxTime} \subseteq Nat \ {0}
  /\ MaxVerify \in Nat
  /\ Unset \notin Nat

VARIABLES
  now,         \* the clock
  revokedAt,   \* api_keys.revoked_at, Unset for an active key
  insertedAt,  \* the map: when the entry of a key was inserted, or Unset
  order,       \* the queue that says which entry goes first
  verifying,   \* the key each request has read the row of, or Unset
  readAt,      \* history: when it did, 0 for none
  accepted     \* history: the last time a request with the key was let in

vars == <<now, revokedAt, insertedAt, order, verifying, readAt, accepted>>
cache == <<insertedAt, order>>

Cached == {k \in Key : insertedAt[k] # Unset}

Init ==
  /\ now = 0
  /\ revokedAt = [k \in Key |-> Unset]
  /\ insertedAt = [k \in Key |-> Unset] /\ order = <<>>
  /\ verifying = [r \in Request |-> Unset]
  /\ readAt = [r \in Request |-> 0]
  /\ accepted = [k \in Key |-> Unset]

\* Faulty variant: valid for one instant longer.
FreshTooLong(k) == insertedAt[k] # Unset /\ now - insertedAt[k] <= TTL + 1

\* VerifiedCache::get, an entry that has not expired.
Fresh(k) == insertedAt[k] # Unset /\ now - insertedAt[k] <= TTL

\* A request with a cached key is let in at once.
Hit(r, k) ==
  /\ verifying[r] = Unset
  /\ Fresh(k)
  /\ accepted' = [accepted EXCEPT ![k] = now]
  /\ UNCHANGED <<now, revokedAt, cache, verifying, readAt>>

\* Any other reads the row of its key; without an active one it is refused.
Miss(r, k) ==
  /\ verifying[r] = Unset
  /\ ~Fresh(k)
  /\ revokedAt[k] = Unset
  /\ verifying' = [verifying EXCEPT ![r] = k]
  /\ readAt' = [readAt EXCEPT ![r] = now]
  /\ UNCHANGED <<now, revokedAt, cache, accepted>>

\* Faulty variant of InsertEntry: the queue is not purged with the map.
InsertEntryMapOnly(k) ==
  LET queue == IF Contains(order, k) THEN order ELSE Append(order, k)
      kept == [insertedAt EXCEPT ![k] = now]
      over == IF Len(queue) > Capacity THEN Len(queue) - Capacity ELSE 0
      out == {queue[i] : i \in 1 .. over}
  IN  /\ order' = SubSeq(queue, over + 1, Len(queue))
      /\ insertedAt' = [j \in Key |-> IF j \in out \/ (j # k /\ ~Fresh(j))
                                        THEN Unset ELSE kept[j]]

\* VerifiedCache::insert: push the key unless it is queued, set its entry,
\* purge what has expired, and pop the queue until it fits.
InsertEntry(k) ==
  LET queue == Kept(IF Contains(order, k) THEN order ELSE Append(order, k),
                    {j \in Key : j = k \/ Fresh(j)})
      over == IF Len(queue) > Capacity THEN Len(queue) - Capacity ELSE 0
  IN  /\ order' = SubSeq(queue, over + 1, Len(queue))
      /\ insertedAt' = [j \in Key |-> IF ~Contains(order', j) THEN Unset
                                      ELSE IF j = k THEN now ELSE insertedAt[j]]

\* The key is verified: the principal is cached and the request let in.
Verified(r) ==
  /\ verifying[r] # Unset
  /\ InsertEntry(verifying[r])
  /\ accepted' = [accepted EXCEPT ![verifying[r]] = now]
  /\ verifying' = [verifying EXCEPT ![r] = Unset]
  /\ readAt' = [readAt EXCEPT ![r] = 0]
  /\ UNCHANGED <<now, revokedAt>>

\* hub-key revoke, a process of its own: an UPDATE of the row.
Revoke(k) ==
  /\ revokedAt[k] = Unset
  /\ revokedAt' = [revokedAt EXCEPT ![k] = now]
  /\ UNCHANGED <<now, cache, verifying, readAt, accepted>>

\* Time passes; a verification under way takes MaxVerify at most.
Tick ==
  /\ now < MaxTime
  /\ \A r \in Request : verifying[r] # Unset => now < readAt[r] + MaxVerify
  /\ now' = now + 1
  /\ UNCHANGED <<revokedAt, cache, verifying, readAt, accepted>>

Next ==
  \/ \E r \in Request : \/ Verified(r)
                        \/ \E k \in Key : Hit(r, k) \/ Miss(r, k)
  \/ \E k \in Key : Revoke(k)
  \/ Tick

Spec == Init /\ [][Next]_vars

-----------------------------------------------------------------------------
(***************************************************************************)
(* Properties.                                                             *)
(***************************************************************************)

\* The map and the queue name the same keys, each once, and never more than
\* the capacity: expiry, refresh of a queued key, eviction and the insertions
\* of overlapping requests keep the two in step (auth.rs:176-203).
MapAndQueueAgree ==
  /\ ToSet(order) = Cached
  /\ IsInjective(order)
  /\ Len(order) <= Capacity

\* A key is let in after its revocation for the time an entry lives and a
\* verification takes, and no longer: an entry inserted from a row that was
\* revoked meanwhile is not refreshed by the requests it lets in.
RevocationTakesEffect ==
  \A k \in Key :
    revokedAt[k] # Unset /\ accepted[k] # Unset
      => accepted[k] <= revokedAt[k] + TTL + MaxVerify
=============================================================================
