----------------------------- MODULE ReactCache -----------------------------
(***************************************************************************)
(* The cache of react-cache: results by key, in a circular doubly-linked   *)
(* list from the one used last to the one used least recently (LRU.js),    *)
(* which an idle callback of the Scheduler cuts down to a limit.           *)
(*                                                                         *)
(* A key stands for a resource with one of its keys.  The results, which   *)
(* settle whether or not they are still cached, are left out.              *)
(***************************************************************************)
EXTENDS Integers, Sequences, FiniteSets, SequencesExt

CONSTANTS
  Key, Limits,   \* limits that are set
  MaxEntry,      \* bound on the entries that are created
  Null

Entry == 1 .. MaxEntry

ASSUME ReactCacheAssumption ==
  Limits \subseteq Nat /\ Limits # {} /\ MaxEntry \in Nat /\ Null \notin Entry

VARIABLES
  fetched,                  \* how many entries have been created
  key,                      \* of each entry: what it is deleted by
  nextEntry, previousEntry, firstEntry, size, LIMIT, cleanUpIsScheduled,
  entries,                  \* the map from keys to entries
  use                       \* history: the cached keys, the last used first

listVars == <<nextEntry, previousEntry, firstEntry, size>>
cacheVars == <<fetched, key, listVars, LIMIT, cleanUpIsScheduled, entries, use>>

CacheInit ==
  /\ fetched = 0 /\ key = [e \in Entry |-> Null]
  /\ nextEntry = [e \in Entry |-> Null] /\ previousEntry = [e \in Entry |-> Null]
  /\ firstEntry = Null /\ size = 0 /\ LIMIT \in Limits /\ cleanUpIsScheduled = FALSE
  /\ entries = [k \in Key |-> Null] /\ use = <<>>

\* The history of the keys, of which no pointer knows.
Used(k) == <<k>> \o RemoveFirst(use, k)
-----------------------------------------------------------------------------
(***************************************************************************)
(* LRU.js                                                                  *)
(***************************************************************************)
\* Links an entry in front of a list of these pointers.
AppendToHead(e, first, next, previous) ==
  IF first = Null
  THEN nextEntry' = [next EXCEPT ![e] = e] /\ previousEntry' = [previous EXCEPT ![e] = e]
  ELSE LET last == previous[first]
       IN  /\ nextEntry' = [next EXCEPT ![last] = e, ![e] = first]
           /\ previousEntry' = [previous EXCEPT ![e] = last, ![first] = e]

\* accessResult of a key that is not cached: fetch, lru.add.  No clean-up is
\* scheduled here.
add(k) ==
  LET e == fetched + 1
  IN  /\ entries[k] = Null /\ e \in Entry /\ fetched' = e
      /\ key' = [key EXCEPT ![e] = k]
      /\ AppendToHead(e, firstEntry, nextEntry, previousEntry)
      /\ firstEntry' = e /\ size' = size + 1
      /\ entries' = [entries EXCEPT ![k] = e]
      /\ use' = Used(k)
      /\ UNCHANGED <<LIMIT, cleanUpIsScheduled>>

\* scheduleCleanUp, with a limit.
Scheduled(limit) == cleanUpIsScheduled \/ size > limit

\* Mutant: an entry is moved without its neighbours' being linked to each other.
MovesToHead(e) ==
  IF firstEntry = e THEN UNCHANGED <<nextEntry, previousEntry>>
  ELSE AppendToHead(e, firstEntry, nextEntry, previousEntry)

\* access: unless it is the first, the entry is removed and put in front.
MoveToHead(e) ==
  IF firstEntry = e THEN UNCHANGED <<nextEntry, previousEntry>>
  ELSE AppendToHead(e, firstEntry,
         [nextEntry EXCEPT ![previousEntry[e]] = nextEntry[e]],
         [previousEntry EXCEPT ![nextEntry[e]] = previousEntry[e]])

\* accessResult of a key that is cached.
access(k) ==
  /\ entries[k] # Null
  /\ MoveToHead(entries[k]) /\ firstEntry' = entries[k]
  /\ cleanUpIsScheduled' = Scheduled(LIMIT)
  /\ use' = Used(k)
  /\ UNCHANGED <<fetched, key, size, LIMIT, entries>>

setLimit(limit) ==
  /\ LIMIT' = limit /\ cleanUpIsScheduled' = Scheduled(limit)
  /\ UNCHANGED <<fetched, key, listVars, entries, use>>

\* deleteLeastRecentlyUsedEntries: one by one from the end; onDelete takes the
\* key out of the map.
DeleteLast(c) ==
  LET last == c.previous[c.first]
      before == c.previous[last]
      next == [c.next EXCEPT ![last] = Null]
      previous == [c.previous EXCEPT ![last] = Null]
  IN  [first |-> IF last = c.first THEN Null ELSE c.first,
       next |-> IF last = c.first THEN next ELSE [next EXCEPT ![before] = c.first],
       previous |-> IF last = c.first THEN previous ELSE [previous EXCEPT ![c.first] = before],
       size |-> c.size - 1, entries |-> [c.entries EXCEPT ![key[last]] = Null]]

\* The Scheduler runs the callback.
cleanUp ==
  /\ cleanUpIsScheduled /\ cleanUpIsScheduled' = FALSE
  /\ LET cache == [first |-> firstEntry, next |-> nextEntry, previous |-> previousEntry,
                   size |-> size, entries |-> entries]
         left[n \in 0 .. size] == IF n = 0 THEN cache ELSE DeleteLast(left[n - 1])
         cleaned == left[IF size > LIMIT THEN size - LIMIT ELSE 0]
     IN  /\ firstEntry' = cleaned.first /\ nextEntry' = cleaned.next
         /\ previousEntry' = cleaned.previous /\ size' = cleaned.size
         /\ entries' = cleaned.entries
         /\ use' = SubSeq(use, 1, IF size > LIMIT THEN LIMIT ELSE size)
  /\ UNCHANGED <<fetched, key, LIMIT>>

CacheNext ==
  \/ \E k \in Key : add(k) \/ access(k)
  \/ \E limit \in Limits : setLimit(limit)
  \/ cleanUp

CacheSpec == CacheInit /\ [][CacheNext]_cacheVars
-----------------------------------------------------------------------------
\* The entries from the first one on, as many as there should be.
Following(next) ==
  LET nth[n \in 1 .. size] == IF n = 1 THEN firstEntry ELSE next[nth[n - 1]]
  IN  [n \in 1 .. size |-> nth[n]]

\* However reads, limits and clean-ups follow each other,
\* the list holds the cached entries in the order of their use, in both
\* directions, and the map has those and no other; what a clean-up leaves are
\* the entries used last.
KeepsLastUsed ==
  /\ (firstEntry = Null) = (size = 0) /\ size = Len(use)
  /\ [n \in 1 .. size |-> key[Following(nextEntry)[n]]] = use
  /\ \A n \in 1 .. size :
       LET e == Following(nextEntry)[n]
       IN  /\ entries[key[e]] = e
           /\ nextEntry[e] = Following(nextEntry)[IF n = size THEN 1 ELSE n + 1]
           /\ previousEntry[nextEntry[e]] = e
  /\ Cardinality({k \in Key : entries[k] # Null}) = size
=============================================================================
