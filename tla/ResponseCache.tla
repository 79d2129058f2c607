--------------------------- MODULE ResponseCache ----------------------------
(***************************************************************************)
(* client/response_cache.rs and the calls and change notifications of      *)
(* client/mod.rs that use it.                                              *)
(*                                                                         *)
(* The cache's mutex makes each of its methods one step; a cached call is  *)
(* several: it captures the generation of its slot, looks the answer up,   *)
(* sends the request, and writes or gives the capture up.  Answers are     *)
(* versions of what they describe.  The server (external) changes a thing  *)
(* before it announces the change; announcements are handled in any order, *)
(* twice or never.                                                         *)
(***************************************************************************)
EXTENDS Integers, Sequences, FiniteSets

CONSTANTS
  Lists,          \* methods whose answers are cached by page
  Pages,          \* pagination cursors
  Read,           \* "resources/read"
  Uris,           \* its parameters
  NoParams,       \* LogicalKey.params of a list
  Partitions,     \* authorization contexts
  Public,         \* CachePartition::Public
  Calls,          \* callers of the client
  MaxResources,   \* max_resource_entries, 0 for no bound
  NoSlot, NoEntry,
  MaxVersion,     \* bound: how often the server changes anything
  MaxGeneration   \* bound: evictions while some call holds on to its slot

Queries == (Lists \X Pages) \cup ({Read} \X Uris)
Slots   == (Lists \X {NoParams}) \cup ({Read} \X Uris)

CacheKey == [query : Queries, part : Partitions \cup {Public}]
Entry == [version : Nat, asker : Partitions, fresh : BOOLEAN]
GenerationSlot == [generation : Nat, inFlight : Nat]

ASSUME CacheAssumption ==
  /\ Read \notin Lists
  /\ IsFiniteSet(Calls) /\ Partitions # {} /\ Public \notin Partitions
  /\ NoSlot \notin GenerationSlot /\ NoEntry \notin Entry
  /\ {MaxResources, MaxVersion, MaxGeneration} \subseteq Nat

VARIABLES
  entries,        \* CacheState.entries
  resourceOrder,  \* CacheState.resource_order
  generations,    \* CacheState.generations
  partition,      \* CacheState.partition
  call,           \* where each caller is and what it captured
  current,        \* the version of each thing at the server
  handled         \* the last version whose announcement the client handled

cache == <<entries, resourceOrder>>
vars == <<cache, generations, partition, call, current, handled>>

Idle == [pc |-> "idle"]
CallPC == {"captured", "hit", "undecodable", "sent", "answered", "unusable",
           "dropped"}
Call == [pc : CallPC, query : Queries, generation : Nat, asker : Partitions,
         answer : Nat]

Init ==
  /\ entries = [k \in CacheKey |-> NoEntry]
  /\ resourceOrder = <<>>
  /\ generations = [s \in Slots |-> NoSlot]
  /\ partition \in Partitions
  /\ call = [c \in Calls |-> Idle]
  /\ current = [s \in Slots |-> 0]
  /\ handled = [s \in Slots |-> 0]
-----------------------------------------------------------------------------
\* generation_key: a list has one slot for all its pages.
GenerationKey(q) == IF q[1] = Read THEN q ELSE <<q[1], NoParams>>

Holds(c, s) == call[c] # Idle /\ GenerationKey(call[c].query) = s
Holders(s) == { c \in Calls : Holds(c, s) }

\* An eviction makes what was captured of these slots worthless.
Bumped(S) ==
  [s \in Slots |-> IF s \in S /\ generations[s] # NoSlot
                   THEN [generations[s] EXCEPT !.generation = @ + 1]
                   ELSE generations[s]]

Room(S) == \A s \in S : generations[s] # NoSlot
                          => generations[s].generation < MaxGeneration

\* The cache without the entries under these keys.
Remove(K) ==
  /\ entries' = [k \in CacheKey |-> IF k \in K THEN NoEntry ELSE entries[k]]
  /\ resourceOrder' = SelectSeq(resourceOrder, LAMBDA k : k \notin K)

\* Mutated: a slot goes with the first call to finish.
FinishedEarly(s) == [generations EXCEPT ![s] = NoSlot]

\* finish_generation: the last call in flight takes the slot along.
Finished(s) ==
  LET slot == generations[s]
  IN [generations EXCEPT ![s] =
        IF slot = NoSlot \/ slot.inFlight =< 1 THEN NoSlot
        ELSE [slot EXCEPT !.inFlight = slot.inFlight - 1]]

Valid(c) ==
  LET s == GenerationKey(call[c].query)
  IN generations[s] # NoSlot /\ generations[s].generation = call[c].generation

Goes(c, from, to) ==
  call[c].pc = from /\ call' = [call EXCEPT ![c].pc = to]

Leaves(c) == call' = [call EXCEPT ![c] = Idle]
-----------------------------------------------------------------------------
\* capture_generation.
Capture(c, q) ==
  LET s == GenerationKey(q)
      slot == IF generations[s] = NoSlot THEN [generation |-> 0, inFlight |-> 0]
              ELSE generations[s]
  IN /\ call[c] = Idle
     /\ generations' = [generations EXCEPT ![s] =
                          [slot EXCEPT !.inFlight = slot.inFlight + 1]]
     /\ call' = [call EXCEPT ![c] =
                   [pc |-> "captured", query |-> q, asker |-> partition,
                    generation |-> slot.generation, answer |-> 0]]
     /\ UNCHANGED <<cache, partition, current, handled>>

PrivateKey(q) == [query |-> q, part |-> partition]
PublicKey(q)  == [query |-> q, part |-> Public]

\* lookup: the private entry of the current partition hides a public one.
Found(q) == IF entries[PrivateKey(q)] # NoEntry THEN entries[PrivateKey(q)]
            ELSE entries[PublicKey(q)]

\* A fresh entry is the answer unless it does not decode.  A stale one is kept
\* aside for a failure, which is of no consequence for the cache.
LookUp(c) ==
  /\ LET found == Found(call[c].query)
     IN IF found # NoEntry /\ found.fresh
        THEN Goes(c, "captured", "hit") \/ Goes(c, "captured", "undecodable")
        ELSE Goes(c, "captured", "sent")
  /\ UNCHANGED <<cache, generations, partition, current, handled>>

Answer(c) ==
  /\ call[c].pc = "sent"
  /\ call' = [call EXCEPT ![c].pc = "answered",
                          ![c].answer = current[GenerationKey(call[c].query)]]
  /\ UNCHANGED <<cache, generations, partition, current, handled>>

\* The request fails, its result does not serialize, or a read asks for input.
Fail(c) ==
  /\ Goes(c, "sent", "unusable")
  /\ UNCHANGED <<cache, generations, partition, current, handled>>

\* Mutated: a failed call keeps its capture.
ReleaseHitsOnly(c) ==
  /\ call[c].pc \in {"hit", "unusable"}
  /\ generations' = IF call[c].pc = "hit"
                    THEN Finished(GenerationKey(call[c].query))
                    ELSE generations
  /\ Leaves(c)
  /\ UNCHANGED <<cache, partition, current, handled>>

\* release_generation.
Release(c) ==
  /\ call[c].pc \in {"hit", "unusable"}
  /\ generations' = Finished(GenerationKey(call[c].query))
  /\ Leaves(c)
  /\ UNCHANGED <<cache, partition, current, handled>>

\* The caller's future is dropped at an await: nothing gives the capture up.
Drop(c) ==
  /\ call[c] # Idle /\ call[c].pc # "dropped"
  /\ call' = [call EXCEPT ![c].pc = "dropped"]
  /\ UNCHANGED <<cache, generations, partition, current, handled>>
-----------------------------------------------------------------------------
\* Mutated: a public answer to the query stays.
PrivateEntries(q) == { k \in CacheKey : k.query = q /\ k.part # Public }

\* remove_logical_entries: the answers to a query in every partition.
LogicalEntries(q) == { k \in CacheKey : k.query = q }

\* enforce_resource_bound: what is taken from the front of the order.
Oldest(order) ==
  IF MaxResources = 0 \/ Len(order) =< MaxResources THEN {}
  ELSE { order[i] : i \in 1 .. Len(order) - MaxResources }

\* A read that is cached goes to the end of the order.
Queued(key) ==
  LET order == SelectSeq(resourceOrder,
                         LAMBDA k : k \notin LogicalEntries(key.query))
  IN IF key.query[1] = Read THEN Append(order, key) ELSE order

PushedOut(key) == IF key.query[1] = Read THEN Oldest(Queued(key)) ELSE {}

Replace(key, entry) ==
  /\ entries' = [k \in CacheKey |->
                   IF k \in PushedOut(key) THEN NoEntry
                   ELSE IF k = key THEN entry
                   ELSE IF k \in LogicalEntries(key.query) THEN NoEntry
                   ELSE entries[k]]
  /\ resourceOrder' = SelectSeq(Queued(key), LAMBDA k : k \notin PushedOut(key))

\* write: an answer without a TTL only removes the old ones.
Write(c, public, ttl) ==
  LET key == [query |-> call[c].query,
              part |-> IF public THEN Public ELSE partition]
  IN /\ call[c].pc = "answered"
     /\ generations' = Finished(GenerationKey(call[c].query))
     /\ IF ~Valid(c) THEN UNCHANGED cache
        ELSE IF ~ttl THEN Remove(LogicalEntries(key.query))
        ELSE Replace(key, [version |-> call[c].answer, asker |-> call[c].asker,
                           fresh |-> TRUE])
     /\ Leaves(c)
     /\ UNCHANGED <<partition, current, handled>>
-----------------------------------------------------------------------------
\* evict_method, evict_resource: the slot and every entry of it.
Evict(s) ==
  /\ Room({s})
  /\ generations' = Bumped({s})
  /\ Remove({ k \in CacheKey : GenerationKey(k.query) = s })

DropUndecodable(c) ==
  /\ Goes(c, "undecodable", "sent")
  /\ Evict(GenerationKey(call[c].query))
  /\ UNCHANGED <<partition, current, handled>>

\* invalidate_response_cache, for an announcement of some version.  A repeated
\* one stands for the eviction before a stale-schema retry, too.
Handle(s, v) ==
  /\ v \in handled[s] .. current[s]
  /\ Evict(s)
  /\ handled' = [handled EXCEPT ![s] = v]
  /\ UNCHANGED <<partition, call, current>>

Clear ==
  /\ Room(Slots)
  /\ generations' = Bumped(Slots)
  /\ Remove(CacheKey)
  /\ UNCHANGED <<partition, call, current, handled>>

\* Mutated: calls in flight are not told of the new partition.
SetPartitionQuietly(p) ==
  /\ p # partition
  /\ Remove({ k \in CacheKey : k.part # Public })
  /\ partition' = p
  /\ UNCHANGED <<generations, call, current, handled>>

\* set_partition: public entries stay.
SetPartition(p) ==
  /\ p # partition
  /\ Room(Slots)
  /\ generations' = Bumped(Slots)
  /\ Remove({ k \in CacheKey : k.part # Public })
  /\ partition' = p
  /\ UNCHANGED <<call, current, handled>>

\* A TTL ends.
Age(k) ==
  /\ entries[k] # NoEntry
  /\ entries[k].fresh
  /\ entries' = [entries EXCEPT ![k].fresh = FALSE]
  /\ UNCHANGED <<resourceOrder, generations, partition, call, current, handled>>

\* The changes the server has made.
Changes == { x \in Slots \X (1 .. MaxVersion) : x[2] =< current[x[1]] }

Change(s) ==
  /\ Cardinality(Changes) < MaxVersion
  /\ current' = [current EXCEPT ![s] = @ + 1]
  /\ UNCHANGED <<cache, generations, partition, call, handled>>

CallStep(c) ==
  /\ call[c] # Idle
  /\ \/ LookUp(c) \/ Answer(c) \/ Fail(c) \/ Release(c) \/ Drop(c)
     \/ DropUndecodable(c)
     \/ \E public, ttl \in BOOLEAN : Write(c, public, ttl)

Next ==
  \/ \E c \in Calls : CallStep(c) \/ \E q \in Queries : Capture(c, q)
  \/ \E s \in Slots : Change(s) \/ \E v \in 0 .. MaxVersion : Handle(s, v)
  \/ Clear
  \/ \E p \in Partitions : SetPartition(p)
  \/ \E k \in CacheKey : Age(k)

Spec == Init /\ [][Next]_vars
-----------------------------------------------------------------------------
\* Every variable of the cache, its callers and the server has its type.
TypeOK ==
  /\ entries \in [CacheKey -> Entry \cup {NoEntry}]
  /\ resourceOrder \in Seq(CacheKey)
  /\ generations \in [Slots -> GenerationSlot \cup {NoSlot}]
  /\ partition \in Partitions
  /\ call \in [Calls -> Call \cup {Idle}]
  /\ current \in [Slots -> Nat] /\ handled \in [Slots -> Nat]

\* Once the client has handled the announcement of a version nothing older is
\* cached, whatever was in flight and however late its answer.
NothingOutdated ==
  \A k \in CacheKey :
    entries[k] # NoEntry => entries[k].version >= handled[GenerationKey(k.query)]

\* A private answer is only there for the partition it was asked in.
PrivateStaysPrivate ==
  \A k \in CacheKey :
    entries[k] # NoEntry /\ k.part # Public
      => k.part = partition /\ entries[k].asker = partition

\* A query has one answer: no private entry hides a later public one.
OneAnswerPerQuery ==
  \A k, l \in CacheKey :
    k.query = l.query /\ entries[k] # NoEntry /\ entries[l] # NoEntry => k = l

\* A slot lives exactly as long as somebody has captured its generation.
SlotsAreCounted ==
  \A s \in Slots :
    IF Holders(s) = {} THEN generations[s] = NoSlot
    ELSE /\ generations[s] # NoSlot
         /\ generations[s].inFlight = Cardinality(Holders(s))

=============================================================================
