------------------------------ MODULE RowCache -------------------------------
(***************************************************************************)
(* The nodes' rows that the server keeps in memory (cache.py), as get_node *)
(* of the node handlers (handlers.py) uses them: a token is looked up in   *)
(* the cache, else in the table, and a row that is found is cached for     *)
(* Ttl.  The table changes without the cache's being told.                 *)
(***************************************************************************)
EXTENDS Integers, SequencesExt

CONSTANTS
    Tokens,
    MaxSize,   \* of the cache, 1000
    Ttl,       \* cache_expire, 60 seconds
    Period,    \* of the housekeeper, 10 seconds
    LastTime,  \* bound on the time
    Changes    \* bound on the changes of the table

RowCacheAssumption == {MaxSize, Ttl, Period} \subseteq Nat \ {0}

VARIABLES
    cache,     \* _cache, an OrderedDict: the oldest entry first
    rows,      \* the table: a version of each token's row, or Gone
    clock,     \* the time, the next round of the housekeeper, and what is left of Changes
    was,       \* when each version was last in the table
    answer     \* to the last request, and whether the one before it met a full cache

store == <<cache, rows, clock, was, answer>>

Gone == -1
None == [token |-> CHOOSE t \in Tokens : TRUE, row |-> Gone, full |-> FALSE, time |-> -1]

CacheInit ==
    /\ cache = <<>>
    /\ rows \in [Tokens -> {0, Gone}]
    /\ clock = [now |-> 0, keep |-> Period, changes |-> Changes]
    /\ was = [t \in Tokens |-> <<>>]
    /\ answer = [last |-> None, before |-> FALSE]

-----------------------------------------------------------------------------
(* CacheInventory.                                                         *)

Expired(item) == clock.now > item.time + Ttl
Cached(t) == \E i \in DOMAIN cache : cache[i].token = t
Position(t) == CHOOSE i \in DOMAIN cache : cache[i].token = t
Item(t) == cache[Position(t)]
Without(t) == IF Cached(t) THEN RemoveAt(cache, Position(t)) ELSE cache

\* Mutant: a hit is given its time anew.
RenewsHit(t) ==
    [i \in DOMAIN cache |->
        IF cache[i].token = t THEN [cache[i] EXCEPT !.time = clock.now] ELSE cache[i]]

Hit(t) == cache

\* get: an entry that has expired is removed.
Found(t) == Cached(t) /\ ~Expired(Item(t))

\* add: in the place of the oldest entry when the cache is full; but the debug line that
\* tells of it raises, after the oldest has gone and before the new one has come.
IsFull(c) == Len(c) = MaxSize
Add(c, t, row) ==
    IF IsFull(c) THEN Tail(c) ELSE Append(c, [token |-> t, row |-> row, time |-> clock.now])

\* housekeeper
KeptWith(c, item) == IF Expired(item) THEN c ELSE Append(c, item)
Kept == FoldLeft(KeptWith, <<>>, cache)

Housekeeper ==
    /\ clock.now >= clock.keep
    /\ clock' = [clock EXCEPT !.keep = clock.now + Period]
    /\ cache' = Kept
    /\ UNCHANGED <<rows, was, answer>>

-----------------------------------------------------------------------------
(* NodeBaseHandler.get_node: what raises is taken for a token that is not  *)
(* valid.                                                                  *)

Answered(t, row, full) ==
    answer' = [last |-> [token |-> t, row |-> row, full |-> full, time |-> clock.now],
               before |-> answer.last.full]

GetNode(t) ==
    /\ \/ /\ Found(t)
          /\ cache' = Hit(t)
          /\ Answered(t, Item(t).row, FALSE)
       \/ /\ ~Found(t) /\ rows[t] = Gone
          /\ cache' = Without(t)
          /\ Answered(t, Gone, FALSE)
       \/ /\ ~Found(t) /\ rows[t] # Gone
          /\ cache' = Add(Without(t), t, rows[t])
          /\ IF IsFull(Without(t)) THEN Answered(t, Gone, TRUE) ELSE Answered(t, rows[t], FALSE)
    /\ UNCHANGED <<rows, clock, was>>

-----------------------------------------------------------------------------
(* The table, and time.                                                    *)

\* A node is renamed or moved to another server, or deleted; its token does not come back.
Change(t, row) ==
    /\ rows[t] # Gone /\ clock.changes > 0 /\ row \in {rows[t] + 1, Gone}
    /\ rows' = [rows EXCEPT ![t] = row]
    /\ was' = [was EXCEPT ![t] = Append(@, clock.now)]
    /\ clock' = [clock EXCEPT !.changes = @ - 1]
    /\ UNCHANGED <<cache, answer>>

Tick ==
    /\ clock.now < LastTime
    /\ clock' = [clock EXCEPT !.now = @ + 1]
    /\ UNCHANGED <<cache, rows, was, answer>>

CacheNext ==
    \/ \E t \in Tokens : GetNode(t) \/ \E row \in 0..Changes \cup {Gone} : Change(t, row)
    \/ Housekeeper \/ Tick

CacheSpec == CacheInit /\ [][CacheNext]_store

-----------------------------------------------------------------------------

\* A row is served that is in the table, or was during the last Ttl; a node whose token is
\* valid is not refused, unless the cache was full, and then the next request is not: the
\* entry that had to go is gone.  A token has one entry at most.
RowsFresh ==
    LET last == answer.last
    IN  last.time >= 0 =>
          /\ last.row # Gone => \/ last.row = rows[last.token]
                                \/ was[last.token][last.row + 1] >= last.time - Ttl
          /\ last.row = Gone => rows[last.token] = Gone \/ last.full
          /\ ~(last.full /\ answer.before)
          /\ \A i, j \in DOMAIN cache : cache[i].token = cache[j].token => i = j
=============================================================================
