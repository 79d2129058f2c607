------------------------ MODULE ResponseCacheProofs -------------------------
(***************************************************************************)
(* The response cache for any lists, resources, partitions and finite set  *)
(* of callers, and any number of changes and evictions.                    *)
(***************************************************************************)
EXTENDS ResponseCache, FiniteSetTheorems, TLAPS

\* The types, but for the order of resources.
Typed ==
  /\ entries \in [CacheKey -> Entry \cup {NoEntry}]
  /\ generations \in [Slots -> GenerationSlot \cup {NoSlot}]
  /\ partition \in Partitions
  /\ call \in [Calls -> Call \cup {Idle}]
  /\ current \in [Slots -> Nat] /\ handled \in [Slots -> Nat]

SlotOf(c) == GenerationKey(call[c].query)

\* No slot falls behind what was captured of it.
NoneAhead ==
  \A c \in Calls : call[c] # Idle =>
    /\ generations[SlotOf(c)] # NoSlot
    /\ call[c].generation =< generations[SlotOf(c)].generation

\* What was captured last is still of this partition, and an answer to it is
\* as new as the client knows.
ValidIsCurrent ==
  \A c \in Calls : call[c] # Idle /\ Valid(c) =>
    /\ call[c].asker = partition
    /\ call[c].pc = "answered" => call[c].answer >= handled[SlotOf(c)]

HandledIsPast == \A s \in Slots : handled[s] =< current[s]

Freshness == NoneAhead /\ ValidIsCurrent /\ HandledIsPast
             /\ NothingOutdated /\ PrivateStaysPrivate

CacheInv == Typed /\ SlotsAreCounted /\ Freshness
-----------------------------------------------------------------------------
LEMMA KeyIsASlot ==
  ASSUME NEW q \in Queries
  PROVE  GenerationKey(q) \in Slots
  BY CacheAssumption DEF Queries, Slots, GenerationKey

LEMMA IdleIsNoCall == Idle \notin Call
  BY DEF Idle, Call, CallPC

LEMMA CallerHasASlot ==
  ASSUME Typed, NEW c \in Calls, call[c] # Idle
  PROVE  call[c] \in Call /\ call[c].query \in Queries /\ SlotOf(c) \in Slots
  BY KeyIsASlot DEF Typed, Call, SlotOf

LEMMA HoldersAreFinite ==
  ASSUME NEW s
  PROVE  IsFiniteSet(Holders(s)) /\ Cardinality(Holders(s)) \in Nat
<1>1. Holders(s) \subseteq Calls
  BY DEF Holders
<1> QED
  BY <1>1, CacheAssumption, FS_Subset, FS_CardinalityType

Turns(c, pc, answer) == call' = [call EXCEPT ![c].pc = pc, ![c].answer = answer]

\* A call that goes on holds what it held.
LEMMA GoingOn ==
  ASSUME Typed, NEW c \in Calls, call[c] # Idle,
         NEW pc \in CallPC, NEW answer \in Nat,
         Turns(c, pc, answer)
  PROVE  /\ call' \in [Calls -> Call \cup {Idle}]
         /\ \A d \in Calls : /\ call'[d] # Idle <=> call[d] # Idle
                             /\ call[d] # Idle =>
                                  /\ call'[d].query = call[d].query
                                  /\ call'[d].generation = call[d].generation
                                  /\ call'[d].asker = call[d].asker
         /\ \A d \in Calls \ {c} : call'[d] = call[d]
         /\ call'[c].pc = pc /\ call'[c].answer = answer
<1>1. call[c] \in Call
  BY CallerHasASlot
<1>2. call'[c] = [call[c] EXCEPT !.pc = pc, !.answer = answer]
  BY DEF Typed, Turns
<1>3. /\ call'[c] \in Call
      /\ call'[c].query = call[c].query /\ call'[c].asker = call[c].asker
      /\ call'[c].generation = call[c].generation
      /\ call'[c].pc = pc /\ call'[c].answer = answer
  BY <1>1, <1>2 DEF Call
<1>4. \A d \in Calls \ {c} : call'[d] = call[d]
  BY DEF Typed, Turns
<1> QED
  BY <1>3, <1>4, IdleIsNoCall DEF Typed, Turns

LEMMA GoesOn ==
  ASSUME Typed, NEW c \in Calls, call[c] # Idle,
         NEW from, NEW pc \in CallPC, Goes(c, from, pc)
  PROVE  /\ call[c].answer \in Nat
         /\ Turns(c, pc, call[c].answer)
<1>1. call[c] \in Call
  BY CallerHasASlot
<1>2. [call[c] EXCEPT !.pc = pc]
        = [call[c] EXCEPT !.pc = pc, !.answer = call[c].answer]
  BY <1>1 DEF Call
<1> QED
  BY <1>1, <1>2 DEF Goes, Typed, Call, Turns

\* The same holders, and no slot created, removed or recounted.
LEMMA SameHoldersSameCount ==
  ASSUME SlotsAreCounted,
         \A d \in Calls : /\ call'[d] # Idle <=> call[d] # Idle
                          /\ call[d] # Idle => call'[d].query = call[d].query,
         \A s \in Slots : /\ generations'[s] = NoSlot <=> generations[s] = NoSlot
                          /\ generations[s] # NoSlot =>
                               generations'[s].inFlight = generations[s].inFlight
  PROVE  SlotsAreCounted'
<1>1. \A s : Holders(s)' = Holders(s)
  BY DEF Holders, Holds
<1> QED
  BY <1>1 DEF SlotsAreCounted

\* One holder less: the slot goes with the last.
LEMMA LeavingIsCounted ==
  ASSUME Typed, SlotsAreCounted, NEW c \in Calls, call[c] # Idle,
         Leaves(c), generations' = Finished(SlotOf(c))
  PROVE  /\ SlotsAreCounted'
         /\ generations' \in [Slots -> GenerationSlot \cup {NoSlot}]
         /\ call' \in [Calls -> Call \cup {Idle}]
         /\ call'[c] = Idle /\ \A d \in Calls \ {c} : call'[d] = call[d]
         /\ \A d \in Calls \ {c} : call[d] # Idle =>
              /\ generations'[SlotOf(d)] # NoSlot
              /\ generations'[SlotOf(d)].generation
                   = generations[SlotOf(d)].generation
<1>1. PICK s \in Slots : s = SlotOf(c)
  BY CallerHasASlot
<1>0. PICK slot : slot = generations[s]
  OBVIOUS
<1>2. c \in Holders(s)
  BY <1>1 DEF Holders, Holds, SlotOf
<1>3. /\ slot \in GenerationSlot /\ slot.inFlight = Cardinality(Holders(s))
  BY <1>0, <1>2 DEF SlotsAreCounted, Typed
<1>4. /\ call'[c] = Idle /\ \A d \in Calls \ {c} : call'[d] = call[d]
      /\ call' \in [Calls -> Call \cup {Idle}]
  BY DEF Leaves, Typed
<1>5. \A r : Holders(r)' = Holders(r) \ {c}
  BY <1>4 DEF Holders, Holds
<1>6. \A r : r # s => c \notin Holders(r)
  BY <1>1 DEF Holders, Holds, SlotOf
<1>7. /\ Cardinality(Holders(s)') = slot.inFlight - 1
      /\ IsFiniteSet(Holders(s)')
  BY <1>2, <1>3, <1>5, HoldersAreFinite, FS_RemoveElement
<1>8. Holders(s)' = {} <=> slot.inFlight =< 1
  BY <1>3, <1>7, <1>2, HoldersAreFinite, FS_EmptySet DEF GenerationSlot
<1>9. generations'[s] = IF slot.inFlight =< 1 THEN NoSlot
                        ELSE [slot EXCEPT !.inFlight = slot.inFlight - 1]
  <2>1. slot # NoSlot
    BY <1>3, CacheAssumption
  <2>2. generations' = [generations EXCEPT ![s] =
                          IF slot = NoSlot \/ slot.inFlight =< 1 THEN NoSlot
                          ELSE [slot EXCEPT !.inFlight = slot.inFlight - 1]]
    BY <1>0, <1>1 DEF Finished
  <2> QED
    BY <2>1, <2>2 DEF Typed
<1>10. \A r \in Slots : r # s => generations'[r] = generations[r]
  BY <1>1 DEF Finished, Typed
<1>11. /\ slot.inFlight > 1 => /\ generations'[s] \in GenerationSlot
                               /\ generations'[s].inFlight = slot.inFlight - 1
                               /\ generations'[s].generation = slot.generation
       /\ slot.inFlight =< 1 => generations'[s] = NoSlot
  BY <1>3, <1>9 DEF GenerationSlot
<1>12. SlotsAreCounted'
  <2> SUFFICES ASSUME NEW r \in Slots
               PROVE  IF Holders(r)' = {} THEN generations'[r] = NoSlot
                      ELSE /\ generations'[r] # NoSlot
                           /\ generations'[r].inFlight = Cardinality(Holders(r)')
    BY DEF SlotsAreCounted
  <2>1. CASE r = s
    BY <2>1, <1>3, <1>7, <1>8, <1>11, CacheAssumption DEF GenerationSlot
  <2>2. CASE r # s
    BY <2>2, <1>5, <1>6, <1>10 DEF SlotsAreCounted
  <2> QED
    BY <2>1, <2>2
<1>13. generations' \in [Slots -> GenerationSlot \cup {NoSlot}]
  <2>1. generations' = [generations EXCEPT ![s] = generations'[s]]
    BY <1>1 DEF Finished, Typed
  <2>2. generations'[s] \in GenerationSlot \cup {NoSlot}
    BY <1>3, <1>11 DEF GenerationSlot
  <2> QED
    BY <2>1, <2>2 DEF Typed
<1>14. ASSUME NEW d \in Calls \ {c}, call[d] # Idle
       PROVE  /\ generations'[SlotOf(d)] # NoSlot
              /\ generations'[SlotOf(d)].generation
                   = generations[SlotOf(d)].generation
  <2>1. SlotOf(d) \in Slots /\ d \in Holders(SlotOf(d))
    BY <1>14, CallerHasASlot DEF Holders, Holds, SlotOf
  <2>2. CASE SlotOf(d) = s
    <3>1. d \in Holders(s)'
      BY <1>5, <2>1, <2>2
    <3>2. slot.inFlight > 1
      BY <3>1, <1>8, <1>3 DEF GenerationSlot
    <3> QED
      BY <3>2, <1>0, <1>11, <2>2, CacheAssumption
  <2>3. CASE SlotOf(d) # s
    BY <2>1, <2>3, <1>10 DEF SlotsAreCounted
  <2> QED
    BY <2>2, <2>3
<1> QED
  BY <1>4, <1>12, <1>13, <1>14

\* One holder more, with the slot's generation or a new slot.
LEMMA CapturingIsCounted ==
  ASSUME Typed, SlotsAreCounted, NEW c \in Calls, NEW q \in Queries,
         Capture(c, q)
  PROVE  /\ SlotsAreCounted'
         /\ generations' \in [Slots -> GenerationSlot \cup {NoSlot}]
         /\ call' \in [Calls -> Call \cup {Idle}]
         /\ \A d \in Calls \ {c} : call'[d] = call[d]
         /\ call'[c].query = q /\ call'[c].asker = partition
         /\ call'[c].pc = "captured"
         /\ generations'[GenerationKey(q)] # NoSlot
         /\ generations'[GenerationKey(q)].generation = call'[c].generation
         /\ \A s \in Slots : generations[s] # NoSlot =>
              /\ generations'[s] # NoSlot
              /\ generations'[s].generation = generations[s].generation
         /\ call'[c].generation \in Nat
<1>1. PICK s \in Slots : s = GenerationKey(q)
  BY KeyIsASlot
<1>0. PICK slot : slot = IF generations[s] = NoSlot
                         THEN [generation |-> 0, inFlight |-> 0]
                         ELSE generations[s]
  OBVIOUS
<1> DEFINE call_c == [pc |-> "captured", query |-> q, asker |-> partition,
                      generation |-> slot.generation, answer |-> 0]
<1>2. slot \in GenerationSlot
  BY <1>0, <1>1 DEF Typed, GenerationSlot
<1>3. /\ generations' = [generations EXCEPT ![s] =
                           [slot EXCEPT !.inFlight = slot.inFlight + 1]]
      /\ call' = [call EXCEPT ![c] = call_c]
      /\ call[c] = Idle
  BY <1>0, <1>1 DEF Capture
<1>4. call_c \in Call
  BY <1>2 DEF Call, CallPC, Typed, GenerationSlot
<1>5. /\ call' \in [Calls -> Call \cup {Idle}]
      /\ \A d \in Calls \ {c} : call'[d] = call[d]
      /\ call'[c] = call_c
  BY <1>3, <1>4 DEF Typed
<1>6. [slot EXCEPT !.inFlight = slot.inFlight + 1]
        = [generation |-> slot.generation, inFlight |-> slot.inFlight + 1]
  BY <1>2 DEF GenerationSlot
<1>7. /\ generations'[s] \in GenerationSlot
      /\ generations'[s].generation = slot.generation
      /\ generations'[s].inFlight = slot.inFlight + 1
      /\ \A r \in Slots : r # s => generations'[r] = generations[r]
      /\ generations' \in [Slots -> GenerationSlot \cup {NoSlot}]
  BY <1>1, <1>2, <1>3, <1>6 DEF Typed, GenerationSlot
<1>8. Holders(s)' = Holders(s) \cup {c} /\ c \notin Holders(s)
  BY <1>1, <1>3, <1>4, <1>5, IdleIsNoCall DEF Holders, Holds
<1>9. \A r : r # s => Holders(r)' = Holders(r)
  BY <1>1, <1>3, <1>5 DEF Holders, Holds
<1>10. slot.inFlight = Cardinality(Holders(s))
  BY <1>0, <1>1, FS_EmptySet DEF SlotsAreCounted
<1>11. Cardinality(Holders(s)') = slot.inFlight + 1
  <2>1. IsFiniteSet(Holders(s))
    BY HoldersAreFinite
  <2>2. Cardinality(Holders(s) \cup {c}) = Cardinality(Holders(s)) + 1
    BY <1>8, <2>1, FS_AddElement
  <2> QED
    BY <1>8, <1>10, <2>2
<1>12. SlotsAreCounted'
  <2>1. Holders(s)' # {} /\ generations'[s] # NoSlot
    BY <1>7, <1>8, CacheAssumption
  <2>2. generations'[s].inFlight = Cardinality(Holders(s)')
    BY <1>7, <1>11
  <2>3. \A r \in Slots : r # s =>
          Holders(r)' = Holders(r) /\ generations'[r] = generations[r]
    BY <1>7, <1>9
  <2> SUFFICES ASSUME NEW r \in Slots
               PROVE  IF Holders(r)' = {} THEN generations'[r] = NoSlot
                      ELSE /\ generations'[r] # NoSlot
                           /\ generations'[r].inFlight = Cardinality(Holders(r)')
    BY DEF SlotsAreCounted
  <2>4. CASE r = s
    BY <2>1, <2>2, <2>4
  <2>5. CASE r # s
    <3>1. IF Holders(r) = {} THEN generations[r] = NoSlot
          ELSE /\ generations[r] # NoSlot
               /\ generations[r].inFlight = Cardinality(Holders(r))
      BY DEF SlotsAreCounted
    <3> QED
      BY <3>1, <2>3, <2>5
  <2> QED
    BY <2>4, <2>5
<1> QED
  BY <1>0, <1>1, <1>2, <1>5, <1>7, <1>12, CacheAssumption DEF GenerationSlot
-----------------------------------------------------------------------------
LEMMA BumpedIsTyped ==
  ASSUME Typed, NEW S, generations' = Bumped(S)
  PROVE  /\ generations' \in [Slots -> GenerationSlot \cup {NoSlot}]
         /\ \A s \in Slots :
              /\ generations'[s] = NoSlot <=> generations[s] = NoSlot
              /\ s \notin S => generations'[s] = generations[s]
              /\ generations[s] # NoSlot =>
                   /\ generations'[s].inFlight = generations[s].inFlight
                   /\ generations'[s].generation >= generations[s].generation
                   /\ s \in S => generations'[s].generation
                                   > generations[s].generation
<1> SUFFICES ASSUME NEW s \in Slots
             PROVE  /\ generations'[s] \in GenerationSlot \cup {NoSlot}
                    /\ generations'[s] = NoSlot <=> generations[s] = NoSlot
                    /\ s \notin S => generations'[s] = generations[s]
                    /\ generations[s] # NoSlot =>
                         /\ generations'[s].inFlight = generations[s].inFlight
                         /\ generations'[s].generation >= generations[s].generation
                         /\ s \in S => generations'[s].generation
                                         > generations[s].generation
  BY DEF Bumped
<1>1. PICK slot : slot = generations[s]
  OBVIOUS
<1>2. generations'[s] = IF s \in S /\ slot # NoSlot
                        THEN [slot EXCEPT !.generation = slot.generation + 1]
                        ELSE slot
  BY <1>1 DEF Bumped
<1>3. CASE slot = NoSlot
  BY <1>1, <1>2, <1>3
<1>4. CASE slot # NoSlot
  <2>1. slot \in GenerationSlot
    BY <1>1, <1>4 DEF Typed
  <2>2. CASE s \in S
    <3>1. generations'[s] = [generation |-> slot.generation + 1,
                             inFlight |-> slot.inFlight]
      BY <1>2, <1>4, <2>1, <2>2 DEF GenerationSlot
    <3>2. generations'[s] \in GenerationSlot
      BY <2>1, <3>1 DEF GenerationSlot
    <3>3. generations'[s].generation = slot.generation + 1
          /\ generations'[s].inFlight = slot.inFlight /\ slot.generation \in Nat
      BY <2>1, <3>1 DEF GenerationSlot
    <3> QED
      BY <1>1, <1>4, <2>2, <3>2, <3>3, CacheAssumption
  <2>3. CASE s \notin S
    BY <1>1, <1>2, <2>1, <2>3 DEF GenerationSlot
  <2> QED
    BY <2>2, <2>3
<1> QED
  BY <1>3, <1>4

\* A step that neither captures nor finishes: the slots of S are evicted, every
\* other slot keeps what is handled of it, and a new partition evicts all.
LEMMA SteadyStep ==
  ASSUME CacheInv, NEW S \in SUBSET Slots, generations' = Bumped(S),
         call' \in [Calls -> Call \cup {Idle}],
         \A d \in Calls :
           /\ call'[d] # Idle <=> call[d] # Idle
           /\ call[d] # Idle =>
                /\ call'[d].query = call[d].query
                /\ call'[d].generation = call[d].generation
                /\ call'[d].asker = call[d].asker
                /\ call'[d].pc = "answered" =>
                     \/ call[d].pc = "answered" /\ call'[d].answer = call[d].answer
                     \/ call'[d].answer >= handled[SlotOf(d)],
         entries' \in [CacheKey -> Entry \cup {NoEntry}],
         \A k \in CacheKey : entries'[k] # NoEntry =>
           /\ entries[k] # NoEntry
           /\ entries'[k].version = entries[k].version
           /\ entries'[k].asker = entries[k].asker
           /\ handled'[GenerationKey(k.query)] = handled[GenerationKey(k.query)]
           /\ k.part = Public \/ partition' = partition,
         handled' \in [Slots -> Nat], current' \in [Slots -> Nat],
         \A s \in Slots : /\ handled'[s] =< current'[s]
                          /\ s \notin S => handled'[s] = handled[s],
         partition' \in Partitions,
         partition' # partition => S = Slots
  PROVE  CacheInv'
<1>1. Typed'
  BY BumpedIsTyped DEF CacheInv, Typed
<1>2. SlotsAreCounted'
  BY BumpedIsTyped, SameHoldersSameCount DEF CacheInv
<1>3. \A d \in Calls : call'[d] # Idle =>
        /\ call[d] # Idle /\ SlotOf(d)' = SlotOf(d) /\ SlotOf(d) \in Slots
        /\ call[d] \in Call
  BY CallerHasASlot DEF CacheInv, SlotOf
<1>4. NoneAhead'
  <2> SUFFICES ASSUME NEW d \in Calls, call'[d] # Idle
               PROVE  /\ generations'[SlotOf(d)'] # NoSlot
                      /\ call'[d].generation
                           =< generations'[SlotOf(d)'].generation
    BY DEF NoneAhead
  <2>1. PICK s \in Slots : s = SlotOf(d) /\ s = SlotOf(d)'
    BY <1>3
  <2>2. /\ generations[s] # NoSlot
        /\ call[d].generation =< generations[s].generation
    BY <1>3, <2>1 DEF CacheInv, Freshness, NoneAhead
  <2>3. generations[s] \in GenerationSlot /\ call[d].generation \in Nat
    BY <1>3, <2>2 DEF CacheInv, Typed, Call
  <2>4. generations'[s] # NoSlot /\ generations'[s] \in GenerationSlot
    BY <2>2, BumpedIsTyped DEF CacheInv
  <2>5. generations'[s].generation >= generations[s].generation
    BY <2>2, BumpedIsTyped DEF CacheInv
  <2> QED
    BY <2>1, <2>2, <2>3, <2>4, <2>5, <1>3 DEF GenerationSlot
<1>5. ValidIsCurrent'
  <2> SUFFICES ASSUME NEW d \in Calls, call'[d] # Idle, Valid(d)'
               PROVE  /\ call'[d].asker = partition'
                      /\ call'[d].pc = "answered" =>
                           call'[d].answer >= handled'[SlotOf(d)']
    BY DEF ValidIsCurrent
  <2>1. PICK s \in Slots : s = SlotOf(d) /\ s = SlotOf(d)'
    BY <1>3
  <2>2. /\ generations[s] # NoSlot
        /\ call[d].generation =< generations[s].generation
    BY <1>3, <2>1 DEF CacheInv, Freshness, NoneAhead
  <2>3. generations[s] \in GenerationSlot /\ call[d].generation \in Nat
    BY <1>3, <2>2 DEF CacheInv, Typed, Call
  <2>4. generations'[s].generation = call[d].generation
    BY <2>1, <1>3 DEF Valid, SlotOf
  <2>5. s \notin S
    BY <2>2, <2>3, <2>4, BumpedIsTyped DEF CacheInv, GenerationSlot
  <2>6. generations'[s] = generations[s]
    BY <2>5, BumpedIsTyped DEF CacheInv
  <2>7. Valid(d)
    BY <2>1, <2>2, <2>4, <2>6 DEF Valid, SlotOf
  <2>8. /\ call[d].asker = partition
        /\ call[d].pc = "answered" => call[d].answer >= handled[s]
    BY <2>1, <2>7, <1>3 DEF CacheInv, Freshness, ValidIsCurrent
  <2>9. handled'[s] = handled[s] /\ partition' = partition
    BY <2>5
  <2> QED
    BY <2>1, <2>8, <2>9, <1>3
<1>6. HandledIsPast'
  BY DEF HandledIsPast
<1>7. NothingOutdated'
  <2> SUFFICES ASSUME NEW k \in CacheKey, entries'[k] # NoEntry
               PROVE  entries'[k].version >= handled'[GenerationKey(k.query)]
    BY DEF NothingOutdated
  <2> QED
    BY DEF CacheInv, Freshness, NothingOutdated
<1>8. PrivateStaysPrivate'
  <2> SUFFICES ASSUME NEW k \in CacheKey, entries'[k] # NoEntry, k.part # Public
               PROVE  k.part = partition' /\ entries'[k].asker = partition'
    BY DEF PrivateStaysPrivate
  <2> QED
    BY DEF CacheInv, Freshness, PrivateStaysPrivate
<1> QED
  BY <1>1, <1>2, <1>4, <1>5, <1>6, <1>7, <1>8 DEF CacheInv, Freshness

\* A call that ends gives its capture up, and writes only if it is valid.
LEMMA LeavingStep ==
  ASSUME CacheInv, NEW c \in Calls, call[c] # Idle, Leaves(c),
         generations' = Finished(SlotOf(c)),
         entries' \in [CacheKey -> Entry \cup {NoEntry}],
         \A k \in CacheKey : entries'[k] # NoEntry =>
           \/ entries'[k] = entries[k]
           \/ /\ Valid(c) /\ call[c].pc = "answered" /\ k.query = call[c].query
              /\ k.part \in {Public, partition}
              /\ entries'[k].version = call[c].answer
              /\ entries'[k].asker = call[c].asker,
         UNCHANGED <<partition, current, handled>>
  PROVE  CacheInv'
<1>1. /\ SlotsAreCounted'
      /\ generations' \in [Slots -> GenerationSlot \cup {NoSlot}]
      /\ call' \in [Calls -> Call \cup {Idle}]
      /\ call'[c] = Idle /\ \A d \in Calls \ {c} : call'[d] = call[d]
      /\ \A d \in Calls \ {c} : call[d] # Idle =>
           /\ generations'[SlotOf(d)] # NoSlot
           /\ generations'[SlotOf(d)].generation
                = generations[SlotOf(d)].generation
  BY LeavingIsCounted DEF CacheInv
<1>2. Typed'
  BY <1>1 DEF CacheInv, Typed
<1>3. \A d \in Calls : call'[d] # Idle =>
        d # c /\ call'[d] = call[d] /\ SlotOf(d)' = SlotOf(d)
  BY <1>1 DEF SlotOf
<1>4. NoneAhead'
  <2> SUFFICES ASSUME NEW d \in Calls, call'[d] # Idle
               PROVE  /\ generations'[SlotOf(d)'] # NoSlot
                      /\ call'[d].generation
                           =< generations'[SlotOf(d)'].generation
    BY DEF NoneAhead
  <2> QED
    BY <1>1, <1>3 DEF CacheInv, Freshness, NoneAhead
<1>5. ValidIsCurrent'
  <2> SUFFICES ASSUME NEW d \in Calls, call'[d] # Idle, Valid(d)'
               PROVE  /\ call'[d].asker = partition'
                      /\ call'[d].pc = "answered" =>
                           call'[d].answer >= handled'[SlotOf(d)']
    BY DEF ValidIsCurrent
  <2>1. PICK s : s = SlotOf(d) /\ s = SlotOf(d)'
    BY <1>3
  <2>2. call[d] # Idle /\ call'[d] = call[d] /\ d # c
    BY <1>3
  <2>3. generations'[s].generation = call[d].generation
    BY <2>1, <2>2 DEF Valid, SlotOf
  <2>4. generations[s] # NoSlot
    BY <2>1, <2>2 DEF CacheInv, Freshness, NoneAhead
  <2>5. Valid(d)
    BY <1>1, <2>1, <2>2, <2>3, <2>4 DEF Valid, SlotOf
  <2> QED
    BY <2>1, <2>2, <2>5 DEF CacheInv, Freshness, ValidIsCurrent
<1>6. Valid(c) => /\ call[c].asker = partition
                  /\ call[c].pc = "answered" => call[c].answer >= handled[SlotOf(c)]
  BY DEF CacheInv, Freshness, ValidIsCurrent
<1>7. NothingOutdated'
  <2> SUFFICES ASSUME NEW k \in CacheKey, entries'[k] # NoEntry
               PROVE  entries'[k].version >= handled[GenerationKey(k.query)]
    BY DEF NothingOutdated
  <2> QED
    BY <1>6 DEF CacheInv, Freshness, NothingOutdated, SlotOf
<1>8. PrivateStaysPrivate'
  <2> SUFFICES ASSUME NEW k \in CacheKey, entries'[k] # NoEntry, k.part # Public
               PROVE  k.part = partition /\ entries'[k].asker = partition
    BY DEF PrivateStaysPrivate
  <2> QED
    BY <1>6 DEF CacheInv, Freshness, PrivateStaysPrivate
<1>9. HandledIsPast'
  BY DEF CacheInv, Freshness, HandledIsPast
<1> QED
  BY <1>1, <1>2, <1>4, <1>5, <1>7, <1>8, <1>9 DEF CacheInv, Freshness

LEMMA CaptureStep ==
  ASSUME CacheInv, NEW c \in Calls, NEW q \in Queries, Capture(c, q)
  PROVE  CacheInv'
<1>0. UNCHANGED <<entries, resourceOrder, partition, current, handled>>
  BY DEF Capture, cache
<1>1. /\ SlotsAreCounted'
      /\ generations' \in [Slots -> GenerationSlot \cup {NoSlot}]
      /\ call' \in [Calls -> Call \cup {Idle}]
      /\ \A d \in Calls \ {c} : call'[d] = call[d]
      /\ call'[c].query = q /\ call'[c].asker = partition
      /\ call'[c].pc = "captured"
      /\ generations'[GenerationKey(q)] # NoSlot
      /\ generations'[GenerationKey(q)].generation = call'[c].generation
      /\ \A s \in Slots : generations[s] # NoSlot =>
           /\ generations'[s] # NoSlot
           /\ generations'[s].generation = generations[s].generation
      /\ call'[c].generation \in Nat
  BY CapturingIsCounted DEF CacheInv
<1>2. Typed'
  BY <1>0, <1>1 DEF CacheInv, Typed
<1>3. \A d \in Calls \ {c} : call'[d] # Idle =>
        /\ SlotOf(d)' = SlotOf(d) /\ SlotOf(d) \in Slots
        /\ generations[SlotOf(d)] # NoSlot
        /\ call[d].generation =< generations[SlotOf(d)].generation
  BY <1>1, CallerHasASlot DEF CacheInv, Freshness, NoneAhead, SlotOf
<1>4. NoneAhead'
  <2> SUFFICES ASSUME NEW d \in Calls, call'[d] # Idle
               PROVE  /\ generations'[SlotOf(d)'] # NoSlot
                      /\ call'[d].generation
                           =< generations'[SlotOf(d)'].generation
    BY DEF NoneAhead
  <2>1. CASE d = c
    BY <1>1, <2>1 DEF SlotOf
  <2>2. CASE d # c
    BY <1>1, <1>3, <2>2
  <2> QED
    BY <2>1, <2>2
<1>5. ValidIsCurrent'
  <2> SUFFICES ASSUME NEW d \in Calls, call'[d] # Idle, Valid(d)'
               PROVE  /\ call'[d].asker = partition
                      /\ call'[d].pc = "answered" =>
                           call'[d].answer >= handled[SlotOf(d)']
    BY <1>0 DEF ValidIsCurrent
  <2>1. CASE d = c
    BY <1>1, <2>1
  <2>2. CASE d # c
    <3>1. PICK s \in Slots : s = SlotOf(d) /\ s = SlotOf(d)'
      BY <1>3, <2>2
    <3>2. generations'[s].generation = call[d].generation
      BY <1>1, <2>2, <3>1 DEF Valid, SlotOf
    <3>3. Valid(d)
      BY <1>1, <1>3, <2>2, <3>1, <3>2 DEF Valid, SlotOf
    <3> QED
      BY <1>1, <2>2, <3>1, <3>3 DEF CacheInv, Freshness, ValidIsCurrent
  <2> QED
    BY <2>1, <2>2
<1>6. HandledIsPast' /\ NothingOutdated' /\ PrivateStaysPrivate'
  BY <1>0 DEF CacheInv, Freshness, HandledIsPast, NothingOutdated,
              PrivateStaysPrivate
<1> QED
  BY <1>1, <1>2, <1>4, <1>5, <1>6 DEF CacheInv, Freshness
-----------------------------------------------------------------------------
LEMMA NothingBumped ==
  ASSUME Typed
  PROVE  Bumped({}) = generations
  BY DEF Bumped, Typed

\* A call that only goes on.
LEMMA GoingOnStep ==
  ASSUME CacheInv, NEW c \in Calls, call[c] # Idle,
         NEW pc \in CallPC, NEW answer \in Nat,
         Turns(c, pc, answer),
         pc = "answered" => answer >= handled[SlotOf(c)],
         UNCHANGED <<entries, generations, partition, current, handled>>
  PROVE  CacheInv'
<1>0. Typed
  BY DEF CacheInv
<1>1. generations' = Bumped({})
  BY NothingBumped DEF CacheInv
<1>2. /\ call' \in [Calls -> Call \cup {Idle}]
      /\ \A d \in Calls : /\ call'[d] # Idle <=> call[d] # Idle
                          /\ call[d] # Idle =>
                               /\ call'[d].query = call[d].query
                               /\ call'[d].generation = call[d].generation
                               /\ call'[d].asker = call[d].asker
      /\ \A d \in Calls \ {c} : call'[d] = call[d]
      /\ call'[c].pc = pc /\ call'[c].answer = answer
  BY <1>0, GoingOn
<1>3. entries' \in [CacheKey -> Entry \cup {NoEntry}] /\ partition' \in Partitions
      /\ handled' \in [Slots -> Nat] /\ current' \in [Slots -> Nat]
  BY DEF CacheInv, Typed
<1>4. \A s \in Slots : handled'[s] =< current'[s]
  BY DEF CacheInv, Freshness, HandledIsPast
<1>5. \A k \in CacheKey : entries'[k] # NoEntry =>
           /\ entries[k] # NoEntry
           /\ entries'[k].version = entries[k].version
           /\ entries'[k].asker = entries[k].asker
           /\ handled'[GenerationKey(k.query)] = handled[GenerationKey(k.query)]
           /\ k.part = Public \/ partition' = partition
  OBVIOUS
<1>6. \A d \in Calls :
        /\ call'[d] # Idle <=> call[d] # Idle
        /\ call[d] # Idle =>
             /\ call'[d].query = call[d].query
             /\ call'[d].generation = call[d].generation
             /\ call'[d].asker = call[d].asker
             /\ call'[d].pc = "answered" =>
                  \/ call[d].pc = "answered" /\ call'[d].answer = call[d].answer
                  \/ call'[d].answer >= handled[SlotOf(d)]
  BY <1>2
<1>7. {} \in SUBSET Slots /\ \A s \in Slots : handled'[s] = handled[s]
  OBVIOUS
<1>8. partition' # partition => {} = Slots
  OBVIOUS
<1> QED
  BY <1>1, <1>2, <1>3, <1>4, <1>5, <1>6, <1>7, <1>8, SteadyStep

LEMMA GoesOnStep ==
  ASSUME CacheInv, NEW c \in Calls, call[c] # Idle,
         NEW from, NEW pc \in CallPC \ {"answered"}, Goes(c, from, pc),
         UNCHANGED <<entries, generations, partition, current, handled>>
  PROVE  CacheInv'
<1>1. Typed
  BY DEF CacheInv
<1>2. call[c].answer \in Nat /\ Turns(c, pc, call[c].answer)
  BY <1>1, GoesOn
<1> QED
  BY <1>2, GoingOnStep

LEMMA AnswerStep ==
  ASSUME CacheInv, NEW c \in Calls, call[c] # Idle, Answer(c)
  PROVE  CacheInv'
<1>1. PICK s \in Slots : s = SlotOf(c)
  BY CallerHasASlot DEF CacheInv
<1>2. current[s] \in Nat /\ current[s] >= handled[s] /\ handled[s] \in Nat
  BY DEF CacheInv, Typed, Freshness, HandledIsPast
<1>3. Turns(c, "answered", current[s])
  BY <1>1 DEF Answer, Turns, SlotOf
<1>4. UNCHANGED <<entries, generations, partition, current, handled>>
  BY DEF Answer, cache
<1>5. "answered" \in CallPC
  BY DEF CallPC
<1> QED
  BY <1>1, <1>2, <1>3, <1>4, <1>5, GoingOnStep

LEMMA ReleaseStep ==
  ASSUME CacheInv, NEW c \in Calls, call[c] # Idle, Release(c)
  PROVE  CacheInv'
<1>1. /\ Leaves(c) /\ generations' = Finished(SlotOf(c))
      /\ UNCHANGED <<entries, partition, current, handled>>
  BY DEF Release, cache, SlotOf
<1>2. entries' \in [CacheKey -> Entry \cup {NoEntry}]
  BY <1>1 DEF CacheInv, Typed
<1> QED
  BY <1>1, <1>2, LeavingStep

LEMMA RemovalIsTyped ==
  ASSUME Typed, NEW K, Remove(K)
  PROVE  /\ entries' \in [CacheKey -> Entry \cup {NoEntry}]
         /\ \A k \in CacheKey : entries'[k] # NoEntry =>
              k \notin K /\ entries'[k] = entries[k]
  BY DEF Remove, Typed

LEMMA ReplacementIsTyped ==
  ASSUME Typed, NEW key \in CacheKey, NEW entry \in Entry, Replace(key, entry)
  PROVE  /\ entries' \in [CacheKey -> Entry \cup {NoEntry}]
         /\ \A k \in CacheKey : entries'[k] # NoEntry =>
              \/ entries'[k] = entries[k]
              \/ k = key /\ entries'[k] = entry
<1>1. entries' = [k \in CacheKey |->
                    IF k \in PushedOut(key) THEN NoEntry
                    ELSE IF k = key THEN entry
                    ELSE IF k \in LogicalEntries(key.query) THEN NoEntry
                    ELSE entries[k]]
  BY Zenon DEF Replace
<1> QED
  BY <1>1 DEF Typed

LEMMA WriteStep ==
  ASSUME CacheInv, NEW c \in Calls, call[c] # Idle,
         NEW public \in BOOLEAN, NEW ttl \in BOOLEAN, Write(c, public, ttl)
  PROVE  CacheInv'
<1> DEFINE key == [query |-> call[c].query,
                   part |-> IF public THEN Public ELSE partition]
           entry == [version |-> call[c].answer, asker |-> call[c].asker,
                     fresh |-> TRUE]
<1>1. /\ Leaves(c) /\ generations' = Finished(SlotOf(c))
      /\ UNCHANGED <<partition, current, handled>>
      /\ call[c].pc = "answered"
  BY DEF Write, SlotOf
<1>2. Typed /\ call[c] \in Call
  BY CallerHasASlot DEF CacheInv
<1>3. key \in CacheKey /\ entry \in Entry
  BY <1>2 DEF CacheKey, Entry, Call, Typed
<1>4. key.query = call[c].query /\ key.part \in {Public, partition}
      /\ entry.version = call[c].answer /\ entry.asker = call[c].asker
  OBVIOUS
<1>5. \/ UNCHANGED entries
      \/ Remove(LogicalEntries(key.query))
      \/ Valid(c) /\ Replace(key, entry)
  BY DEF Write, cache
<1> HIDE DEF key, entry
<1>6. /\ entries' \in [CacheKey -> Entry \cup {NoEntry}]
      /\ \A k \in CacheKey : entries'[k] # NoEntry =>
           \/ entries'[k] = entries[k]
           \/ Valid(c) /\ k = key /\ entries'[k] = entry
  <2>1. CASE UNCHANGED entries
    BY <1>2, <2>1 DEF Typed
  <2>2. CASE Remove(LogicalEntries(key.query))
    BY <1>2, <2>2, RemovalIsTyped
  <2>3. CASE Valid(c) /\ Replace(key, entry)
    BY <1>2, <1>3, <2>3, ReplacementIsTyped
  <2> QED
    BY <1>5, <2>1, <2>2, <2>3
<1>7. \A k \in CacheKey : entries'[k] # NoEntry =>
           \/ entries'[k] = entries[k]
           \/ /\ Valid(c) /\ call[c].pc = "answered" /\ k.query = call[c].query
              /\ k.part \in {Public, partition}
              /\ entries'[k].version = call[c].answer
              /\ entries'[k].asker = call[c].asker
  BY <1>1, <1>4, <1>6
<1> QED
  BY <1>1, <1>6, <1>7, LeavingStep
-----------------------------------------------------------------------------
\* Evictions at one hold of the lock, and the steps that change no call.
LEMMA QuietStep ==
  ASSUME CacheInv, NEW S \in SUBSET Slots, generations' = Bumped(S),
         UNCHANGED call,
         entries' \in [CacheKey -> Entry \cup {NoEntry}],
         \A k \in CacheKey : entries'[k] # NoEntry =>
           /\ entries[k] # NoEntry
           /\ entries'[k].version = entries[k].version
           /\ entries'[k].asker = entries[k].asker
           /\ handled'[GenerationKey(k.query)] = handled[GenerationKey(k.query)]
           /\ k.part = Public \/ partition' = partition,
         handled' \in [Slots -> Nat], current' \in [Slots -> Nat],
         \A s \in Slots : /\ handled'[s] =< current'[s]
                          /\ s \notin S => handled'[s] = handled[s],
         partition' \in Partitions,
         partition' # partition => S = Slots
  PROVE  CacheInv'
<1>1. call' \in [Calls -> Call \cup {Idle}]
  BY DEF CacheInv, Typed
<1>2. \A d \in Calls :
        /\ call'[d] # Idle <=> call[d] # Idle
        /\ call[d] # Idle =>
             /\ call'[d].query = call[d].query
             /\ call'[d].generation = call[d].generation
             /\ call'[d].asker = call[d].asker
             /\ call'[d].pc = "answered" =>
                  \/ call[d].pc = "answered" /\ call'[d].answer = call[d].answer
                  \/ call'[d].answer >= handled[SlotOf(d)]
  OBVIOUS
<1> QED
  BY <1>1, <1>2, SteadyStep

LEMMA DropUndecodableStep ==
  ASSUME CacheInv, NEW c \in Calls, call[c] # Idle, DropUndecodable(c)
  PROVE  CacheInv'
<1>1. PICK s \in Slots : s = SlotOf(c)
  BY CallerHasASlot DEF CacheInv
<1>2. /\ Goes(c, "undecodable", "sent") /\ generations' = Bumped({s})
      /\ Remove({ k \in CacheKey : GenerationKey(k.query) = s })
      /\ UNCHANGED <<partition, current, handled>>
  BY <1>1 DEF DropUndecodable, Evict, SlotOf
<1>3. Typed /\ "sent" \in CallPC
  BY DEF CacheInv, CallPC
<1>4. call[c].answer \in Nat /\ Turns(c, "sent", call[c].answer)
  BY <1>2, <1>3, GoesOn
<1>5. /\ call' \in [Calls -> Call \cup {Idle}]
      /\ \A d \in Calls : /\ call'[d] # Idle <=> call[d] # Idle
                          /\ call[d] # Idle =>
                               /\ call'[d].query = call[d].query
                               /\ call'[d].generation = call[d].generation
                               /\ call'[d].asker = call[d].asker
      /\ \A d \in Calls \ {c} : call'[d] = call[d]
      /\ call'[c].pc = "sent"
  BY <1>3, <1>4, GoingOn
<1>6. /\ entries' \in [CacheKey -> Entry \cup {NoEntry}]
      /\ \A k \in CacheKey : entries'[k] # NoEntry => entries'[k] = entries[k]
  BY <1>2, <1>3, RemovalIsTyped
<1>7. \A k \in CacheKey : entries'[k] # NoEntry =>
        /\ entries[k] # NoEntry
        /\ entries'[k].version = entries[k].version
        /\ entries'[k].asker = entries[k].asker
        /\ handled'[GenerationKey(k.query)] = handled[GenerationKey(k.query)]
        /\ k.part = Public \/ partition' = partition
  BY <1>2, <1>6
<1>8. \A d \in Calls :
        /\ call'[d] # Idle <=> call[d] # Idle
        /\ call[d] # Idle =>
             /\ call'[d].query = call[d].query
             /\ call'[d].generation = call[d].generation
             /\ call'[d].asker = call[d].asker
             /\ call'[d].pc = "answered" =>
                  \/ call[d].pc = "answered" /\ call'[d].answer = call[d].answer
                  \/ call'[d].answer >= handled[SlotOf(d)]
  BY <1>5
<1>9. /\ handled' \in [Slots -> Nat] /\ current' \in [Slots -> Nat]
      /\ \A r \in Slots : handled'[r] =< current'[r] /\ handled'[r] = handled[r]
      /\ partition' \in Partitions /\ partition' = partition
      /\ {s} \in SUBSET Slots
  BY <1>2 DEF CacheInv, Typed, Freshness, HandledIsPast
<1> QED
  BY <1>2, <1>5, <1>6, <1>7, <1>8, <1>9, SteadyStep

LEMMA HandleStep ==
  ASSUME CacheInv, NEW s \in Slots, NEW v \in 0 .. MaxVersion, Handle(s, v)
  PROVE  CacheInv'
<1>1. /\ generations' = Bumped({s})
      /\ Remove({ k \in CacheKey : GenerationKey(k.query) = s })
      /\ handled' = [handled EXCEPT ![s] = v]
      /\ v \in handled[s] .. current[s]
      /\ UNCHANGED <<partition, call, current>>
  BY DEF Handle, Evict
<1>2. Typed
  BY DEF CacheInv
<1>3. v \in Nat /\ v =< current[s] /\ current[s] \in Nat
  BY <1>1, <1>2, CacheAssumption DEF Typed
<1>4. /\ entries' \in [CacheKey -> Entry \cup {NoEntry}]
      /\ \A k \in CacheKey : entries'[k] # NoEntry =>
           GenerationKey(k.query) # s /\ entries'[k] = entries[k]
  BY <1>1, <1>2, RemovalIsTyped
<1>5. \A k \in CacheKey : GenerationKey(k.query) \in Slots
  BY KeyIsASlot DEF CacheKey
<1>6. handled' \in [Slots -> Nat] /\ current' \in [Slots -> Nat]
  BY <1>1, <1>2, <1>3 DEF Typed
<1>7. \A r \in Slots : /\ handled'[r] =< current'[r]
                       /\ r \notin {s} => handled'[r] = handled[r]
  BY <1>1, <1>2, <1>3 DEF Typed, CacheInv, Freshness, HandledIsPast
<1>8. \A k \in CacheKey : entries'[k] # NoEntry =>
        /\ entries[k] # NoEntry
        /\ entries'[k].version = entries[k].version
        /\ entries'[k].asker = entries[k].asker
        /\ handled'[GenerationKey(k.query)] = handled[GenerationKey(k.query)]
        /\ k.part = Public \/ partition' = partition
  BY <1>1, <1>4, <1>5, <1>7
<1>9. {s} \in SUBSET Slots /\ partition' \in Partitions /\ partition' = partition
  BY <1>1, <1>2 DEF Typed
<1> QED
  BY <1>1, <1>4, <1>6, <1>7, <1>8, <1>9, QuietStep

\* Clear and SetPartition: every slot, and what the removal leaves.
LEMMA EvictAllStep ==
  ASSUME CacheInv, generations' = Bumped(Slots), NEW K, Remove(K),
         UNCHANGED <<call, current, handled>>, partition' \in Partitions,
         partition' # partition => \A k \in CacheKey \ K : k.part = Public
  PROVE  CacheInv'
<1>1. Typed
  BY DEF CacheInv
<1>2. /\ entries' \in [CacheKey -> Entry \cup {NoEntry}]
      /\ \A k \in CacheKey : entries'[k] # NoEntry =>
           k \notin K /\ entries'[k] = entries[k]
  BY <1>1, RemovalIsTyped
<1>3. \A k \in CacheKey : entries'[k] # NoEntry =>
        /\ entries[k] # NoEntry
        /\ entries'[k].version = entries[k].version
        /\ entries'[k].asker = entries[k].asker
        /\ handled'[GenerationKey(k.query)] = handled[GenerationKey(k.query)]
        /\ k.part = Public \/ partition' = partition
  BY <1>2
<1>4. /\ handled' \in [Slots -> Nat] /\ current' \in [Slots -> Nat]
      /\ \A s \in Slots : /\ handled'[s] =< current'[s]
                          /\ s \notin Slots => handled'[s] = handled[s]
  BY DEF CacheInv, Typed, Freshness, HandledIsPast
<1> QED
  BY <1>2, <1>3, <1>4, QuietStep

LEMMA ClearStep == ASSUME CacheInv, Clear PROVE CacheInv'
  BY EvictAllStep DEF Clear, CacheInv, Typed

LEMMA SetPartitionStep ==
  ASSUME CacheInv, NEW p \in Partitions, SetPartition(p)
  PROVE  CacheInv'
<1>1. /\ generations' = Bumped(Slots) /\ partition' = p
      /\ Remove({ k \in CacheKey : k.part # Public })
      /\ UNCHANGED <<call, current, handled>>
  BY DEF SetPartition
<1> QED
  BY <1>1, EvictAllStep

\* A TTL that ends, a change at the server, a stutter.
LEMMA OutsideStep ==
  ASSUME CacheInv,
         (\E k \in CacheKey : Age(k)) \/ (\E s \in Slots : Change(s))
           \/ UNCHANGED vars
  PROVE  CacheInv'
<1>1. UNCHANGED <<generations, partition, call, handled>>
  BY DEF Age, Change, vars, cache
<1>2. generations' = Bumped({})
  BY <1>1, NothingBumped DEF CacheInv
<1>3. /\ current' \in [Slots -> Nat]
      /\ \A s \in Slots : current'[s] >= current[s]
  BY DEF Age, Change, vars, cache, CacheInv, Typed
<1>4. /\ entries' \in [CacheKey -> Entry \cup {NoEntry}]
      /\ \A k \in CacheKey : entries'[k] # NoEntry =>
           /\ entries[k] # NoEntry
           /\ entries'[k].version = entries[k].version
           /\ entries'[k].asker = entries[k].asker
  <2>1. CASE \E k \in CacheKey : Age(k)
    <3>1. PICK k \in CacheKey : Age(k)
      BY <2>1
    <3>2. PICK entry : entry = entries[k]
      OBVIOUS
    <3>3. entry \in Entry
      BY <3>1, <3>2 DEF Age, CacheInv, Typed
    <3>4. entries' = [entries EXCEPT ![k] = [entry EXCEPT !.fresh = FALSE]]
      BY <3>1, <3>2 DEF Age
    <3>5. PICK aged : aged = [entry EXCEPT !.fresh = FALSE]
      OBVIOUS
    <3>6. /\ aged \in Entry /\ aged.version = entry.version
          /\ aged.asker = entry.asker
      BY <3>3, <3>5 DEF Entry
    <3>7. entries'[k] = aged
          /\ \A l \in CacheKey \ {k} : entries'[l] = entries[l]
      BY <3>4, <3>5 DEF CacheInv, Typed
    <3>8. entries' \in [CacheKey -> Entry \cup {NoEntry}]
      BY <3>4, <3>5, <3>6 DEF CacheInv, Typed
    <3>9. entry # NoEntry
      BY <3>3, CacheAssumption
    <3> QED
      BY <3>2, <3>6, <3>7, <3>8, <3>9
  <2>2. CASE UNCHANGED entries
    BY <2>2 DEF CacheInv, Typed
  <2> QED
    BY <2>1, <2>2 DEF Change, vars, cache
<1>5. \A k \in CacheKey : entries'[k] # NoEntry =>
        /\ entries[k] # NoEntry
        /\ entries'[k].version = entries[k].version
        /\ entries'[k].asker = entries[k].asker
        /\ handled'[GenerationKey(k.query)] = handled[GenerationKey(k.query)]
        /\ k.part = Public \/ partition' = partition
  BY <1>1, <1>4
<1>6. /\ \A s \in Slots : handled'[s] =< current'[s] /\ handled'[s] = handled[s]
      /\ handled' \in [Slots -> Nat]
  <2> SUFFICES ASSUME NEW s \in Slots PROVE handled[s] =< current'[s]
    BY <1>1 DEF CacheInv, Typed
  <2>1. /\ handled[s] \in Nat /\ current[s] \in Nat /\ current'[s] \in Nat
        /\ handled[s] =< current[s] /\ current'[s] >= current[s]
    BY <1>3 DEF CacheInv, Typed, Freshness, HandledIsPast
  <2> QED
    BY <2>1
<1>7. {} \in SUBSET Slots /\ partition' \in Partitions /\ partition' = partition
  BY <1>1 DEF CacheInv, Typed
<1> QED
  BY <1>1, <1>2, <1>3, <1>4, <1>5, <1>6, <1>7, QuietStep
-----------------------------------------------------------------------------
LEMMA InitHasIt == Init => CacheInv
<1> SUFFICES ASSUME Init PROVE CacheInv
  OBVIOUS
<1>1. Typed
  BY DEF Init, Typed
<1>2. \A s : Holders(s) = {}
  BY DEF Init, Holders, Holds
<1>3. SlotsAreCounted
  BY <1>2 DEF Init, SlotsAreCounted
<1>4. Freshness
  BY DEF Init, Freshness, NoneAhead, ValidIsCurrent, HandledIsPast,
         NothingOutdated, PrivateStaysPrivate
<1> QED
  BY <1>1, <1>3, <1>4 DEF CacheInv

LEMMA CallStepKeepsIt ==
  ASSUME CacheInv, NEW c \in Calls, CallStep(c)
  PROVE  CacheInv'
<1>1. call[c] # Idle
  BY DEF CallStep
<1>2. {"hit", "undecodable", "sent", "unusable", "dropped"}
        \subseteq CallPC \ {"answered"}
  BY DEF CallPC
<1>3. CASE LookUp(c)
  <2>1. \E pc \in {"hit", "undecodable", "sent"} : Goes(c, "captured", pc)
    BY <1>3 DEF LookUp
  <2>2. UNCHANGED <<entries, generations, partition, current, handled>>
    BY <1>3 DEF LookUp, cache
  <2> QED
    BY <1>1, <1>2, <2>1, <2>2, GoesOnStep
<1>4. CASE Answer(c)
  BY <1>1, <1>4, AnswerStep
<1>5. CASE Fail(c)
  BY <1>1, <1>2, <1>5, GoesOnStep DEF Fail, cache
<1>6. CASE Release(c)
  BY <1>1, <1>6, ReleaseStep
<1>7. CASE Drop(c)
  <2>1. Goes(c, call[c].pc, "dropped")
    BY <1>7 DEF Drop, Goes
  <2>2. UNCHANGED <<entries, generations, partition, current, handled>>
    BY <1>7 DEF Drop, cache
  <2> QED
    BY <1>1, <1>2, <2>1, <2>2, GoesOnStep
<1>8. CASE DropUndecodable(c)
  BY <1>1, <1>8, DropUndecodableStep
<1>9. CASE \E public, ttl \in BOOLEAN : Write(c, public, ttl)
  BY <1>1, <1>9, WriteStep
<1> QED
  BY <1>3, <1>4, <1>5, <1>6, <1>7, <1>8, <1>9 DEF CallStep

LEMMA NextKeepsIt == CacheInv /\ [Next]_vars => CacheInv'
<1> SUFFICES ASSUME CacheInv, [Next]_vars PROVE CacheInv'
  OBVIOUS
<1>1. CASE \E c \in Calls : CallStep(c) \/ \E q \in Queries : Capture(c, q)
  BY <1>1, CallStepKeepsIt, CaptureStep
<1>2. CASE \E s \in Slots : \E v \in 0 .. MaxVersion : Handle(s, v)
  BY <1>2, HandleStep
<1>3. CASE Clear
  BY <1>3, ClearStep
<1>4. CASE \E p \in Partitions : SetPartition(p)
  BY <1>4, SetPartitionStep
<1>5. CASE (\E k \in CacheKey : Age(k)) \/ (\E s \in Slots : Change(s))
             \/ UNCHANGED vars
  BY <1>5, OutsideStep
<1> QED
  BY <1>1, <1>2, <1>3, <1>4, <1>5 DEF Next

LEMMA CacheInvHolds == Spec => []CacheInv
  BY InitHasIt, NextKeepsIt, PTL DEF Spec

\* Nothing older than what the client was told of is ever cached, for any
\* lists, resources and callers and however often things change.
THEOREM NothingOutdatedHolds == Spec => []NothingOutdated
<1>1. CacheInv => NothingOutdated
  BY DEF CacheInv, Freshness
<1> QED
  BY <1>1, CacheInvHolds, PTL

\* No private answer of one authorization context is ever there for another,
\* even if it was in flight when the context changed.
THEOREM PrivateStaysPrivateHolds == Spec => []PrivateStaysPrivate
<1>1. CacheInv => PrivateStaysPrivate
  BY DEF CacheInv, Freshness
<1> QED
  BY <1>1, CacheInvHolds, PTL

\* A slot lives as long as some call has captured its generation, no longer.
THEOREM SlotsAreCountedHolds == Spec => []SlotsAreCounted
<1>1. CacheInv => SlotsAreCounted
  BY DEF CacheInv
<1> QED
  BY <1>1, CacheInvHolds, PTL
-----------------------------------------------------------------------------
\* Only a write adds an entry, and it removes the other answers to its query.
LEMMA AddedAlone ==
  ASSUME Typed, NEW key \in CacheKey, NEW entry \in Entry, Replace(key, entry),
         OneAnswerPerQuery
  PROVE  OneAnswerPerQuery'
<1>1. entries' = [k \in CacheKey |->
                    IF k \in PushedOut(key) THEN NoEntry
                    ELSE IF k = key THEN entry
                    ELSE IF k \in LogicalEntries(key.query) THEN NoEntry
                    ELSE entries[k]]
  BY Zenon DEF Replace
<1>2. \A k \in CacheKey : entries'[k] # NoEntry =>
        k = key \/ (k.query # key.query /\ entries[k] # NoEntry)
  BY <1>1 DEF LogicalEntries
<1> QED
  BY <1>2 DEF OneAnswerPerQuery

LEMMA OneAnswerIsKept ==
  ASSUME CacheInv, OneAnswerPerQuery, [Next]_vars
  PROVE  OneAnswerPerQuery'
<1>1. ASSUME \A k \in CacheKey : entries'[k] # NoEntry => entries[k] # NoEntry
      PROVE  OneAnswerPerQuery'
  BY <1>1 DEF OneAnswerPerQuery
<1>2. Typed
  BY DEF CacheInv
<1>3. ASSUME NEW K, Remove(K)
      PROVE  \A k \in CacheKey : entries'[k] # NoEntry => entries[k] # NoEntry
  BY <1>2, <1>3, RemovalIsTyped
<1>4. CASE UNCHANGED entries
  BY <1>1, <1>4
<1>5. CASE \E K : Remove(K)
  BY <1>1, <1>3, <1>5
<1>6. CASE \E k \in CacheKey : Age(k)
  <2>1. \A k \in CacheKey : entries'[k] # NoEntry => entries[k] # NoEntry
    BY <1>2, <1>6 DEF Age, Typed
  <2> QED
    BY <1>1, <2>1
<1>7. ASSUME NEW c \in Calls, call[c] # Idle, NEW public \in BOOLEAN,
             NEW ttl \in BOOLEAN, Write(c, public, ttl)
      PROVE  OneAnswerPerQuery'
  <2> DEFINE key == [query |-> call[c].query,
                     part |-> IF public THEN Public ELSE partition]
             entry == [version |-> call[c].answer, asker |-> call[c].asker,
                       fresh |-> TRUE]
  <2>1. UNCHANGED entries \/ (\E K : Remove(K)) \/ Replace(key, entry)
    BY <1>7 DEF Write, cache
  <2>2. key \in CacheKey /\ entry \in Entry
    BY <1>2, <1>7, CallerHasASlot DEF CacheKey, Entry, Call, Typed
  <2> QED
    BY <2>1, <2>2, <1>2, <1>4, <1>5, AddedAlone
<1>8. ASSUME NEW c \in Calls, CallStep(c)
      PROVE  OneAnswerPerQuery'
  <2>1. CASE \E public, ttl \in BOOLEAN : Write(c, public, ttl)
    BY <1>7, <1>8, <2>1 DEF CallStep
  <2>2. CASE DropUndecodable(c)
    BY <1>5, <2>2 DEF DropUndecodable, Evict
  <2>3. CASE LookUp(c) \/ Answer(c) \/ Fail(c) \/ Release(c) \/ Drop(c)
    BY <1>4, <2>3 DEF LookUp, Answer, Fail, Release, Drop, cache
  <2> QED
    BY <1>8, <2>1, <2>2, <2>3 DEF CallStep
<1>9. CASE \E c \in Calls, q \in Queries : Capture(c, q)
  BY <1>4, <1>9 DEF Capture, cache
<1>10. CASE \E s \in Slots : Change(s) \/ \E v \in 0 .. MaxVersion : Handle(s, v)
  BY <1>4, <1>5, <1>10 DEF Change, Handle, Evict, cache
<1>11. CASE Clear \/ \E p \in Partitions : SetPartition(p)
  BY <1>5, <1>11 DEF Clear, SetPartition
<1>12. CASE UNCHANGED vars
  BY <1>4, <1>12 DEF vars, cache
<1> QED
  BY <1>6, <1>8, <1>9, <1>10, <1>11, <1>12 DEF Next

\* A query never has two cached answers of which lookup could pick the older.
THEOREM OneAnswerPerQueryHolds == Spec => []OneAnswerPerQuery
<1>1. Init => OneAnswerPerQuery
  BY DEF Init, OneAnswerPerQuery
<1>2. CacheInv /\ OneAnswerPerQuery /\ [Next]_vars => OneAnswerPerQuery'
  BY OneAnswerIsKept
<1> QED
  BY <1>1, <1>2, CacheInvHolds, PTL DEF Spec
=============================================================================
