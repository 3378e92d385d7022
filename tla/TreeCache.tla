----------------------------- MODULE TreeCache -----------------------------
(***************************************************************************)
(* The cache of tree branches that administrators read                     *)
(* (vp-engine/internal/payments/tree_read_cache.go): entries with a time   *)
(* to live, one load in flight per generation and key, shared by the       *)
(* readers that come meanwhile, and an invalidation after every change of  *)
(* the tree made by this process.  Data is known by the number of changes  *)
(* it contains; reads go to a replica that may lag.                        *)
(***************************************************************************)
EXTENDS Naturals, FiniteSets

CONSTANTS
  Keys, Cached,                \* branches; those stored with a time to live
  Readers,                     \* requests that read a branch
  MaxEntries, MaxFlights,      \* maxEntries, 64 loads in flight
  MaxChanges                   \* bound

ASSUME TreeCacheAssumption ==
  /\ Cached \subseteq Keys
  /\ MaxEntries \in Nat \ {0} /\ MaxFlights \in Nat /\ MaxChanges \in Nat

VARIABLES
  changes, replica,            \* changes committed, and those the replica shows
  pending,                     \* changes committed whose invalidation has not run
  generation, entries,         \* c.generation, c.entries
  older,                       \* the order of usedAt: pairs of keys, the first used before
  flights,                     \* c.flights: generation, key, and what was loaded
  reader,
  floor                        \* what the replica showed when c was last invalidated

cacheVars == <<changes, replica, pending, generation, entries, older, flights, reader, floor>>

Loading == MaxChanges + 1
NoEntry == [state |-> "none", data |-> 0]
Waits == [pc |-> "ready", key |-> CHOOSE k \in Keys : TRUE, generation |-> 0, floor |-> 0, got |-> 0]

CacheInit ==
  /\ changes = 0 /\ replica = 0 /\ pending = 0
  /\ generation = 0 /\ entries = [k \in Keys |-> NoEntry] /\ older = {} /\ flights = {}
  /\ reader = [r \in Readers |-> Waits]
  /\ floor = 0

Held == {k \in Keys : entries[k].state # "none"}
Among(S) == {p \in older : p[1] \in S /\ p[2] \in S}

\* The order when the keys of S stay and k becomes the most recently used.
UsedNow(S, k) == Among(S) \cup (S \X {k})

\* A change of the tree is committed; the process invalidates afterwards.
TreeChanges ==
  /\ changes < MaxChanges
  /\ changes' = changes + 1 /\ pending' = pending + 1
  /\ UNCHANGED <<replica, generation, entries, older, flights, reader, floor>>

\* Another process changes the tree: nothing is invalidated here.
ChangeElsewhere ==
  /\ changes < MaxChanges
  /\ changes' = changes + 1
  /\ UNCHANGED <<replica, pending, generation, entries, older, flights, reader, floor>>

Replicate ==
  /\ replica < changes
  /\ replica' = replica + 1
  /\ UNCHANGED <<changes, pending, generation, entries, older, flights, reader, floor>>

Invalidate ==
  /\ pending > 0
  /\ pending' = pending - 1
  /\ generation' = generation + 1
  /\ entries' = [k \in Keys |-> NoEntry] /\ older' = {}
  /\ floor' = replica
  /\ UNCHANGED <<changes, replica, flights, reader>>

\* The time to live of an entry ends.
Expires(k) ==
  /\ entries[k].state = "fresh"
  /\ entries' = [entries EXCEPT ![k].state = "expired"]
  /\ UNCHANGED <<changes, replica, pending, generation, older, flights, reader, floor>>

Becomes(r, state) == reader' = [reader EXCEPT ![r] = state]

Same(f, k) == f.generation = generation /\ f.key = k

\* read: a fresh entry is returned and becomes the most recently used; otherwise the
\* reader joins or starts the flight of this generation, or loads alone when there are
\* too many.
ReadTree(r, k) ==
  /\ reader[r].pc = "ready"
  /\ LET ask == [Waits EXCEPT !.key = k, !.floor = floor, !.generation = generation]
         hit == entries[k].state = "fresh"
         others == Held \ {k}
         same == {f \in flights : Same(f, k)}
     IN \/ /\ hit
           /\ older' = UsedNow(others, k)
           /\ Becomes(r, [ask EXCEPT !.pc = "done", !.got = entries[k].data])
           /\ UNCHANGED <<entries, flights>>
        \/ /\ ~hit
           /\ entries' = [entries EXCEPT ![k] = NoEntry] /\ older' = Among(others)
           /\ \/ /\ same # {}
                 /\ \E f \in same : Becomes(r, [ask EXCEPT !.pc = "shared", !.generation = f.generation])
                 /\ UNCHANGED flights
              \/ /\ same = {} /\ Cardinality(flights) < MaxFlights
                 /\ flights' = flights \cup {[generation |-> generation, key |-> k, data |-> Loading]}
                 /\ Becomes(r, [ask EXCEPT !.pc = "shared"])
              \/ /\ same = {} /\ Cardinality(flights) >= MaxFlights
                 /\ Becomes(r, [ask EXCEPT !.pc = "alone"])
                 /\ UNCHANGED flights
  /\ UNCHANGED <<changes, replica, pending, generation, floor>>

LoadAlone(r) ==
  /\ reader[r].pc = "alone"
  /\ Becomes(r, [reader[r] EXCEPT !.pc = "done", !.got = replica])
  /\ UNCHANGED <<changes, replica, pending, generation, entries, older, flights, floor>>

\* The query of a flight reads the replica.
Load(f) ==
  /\ f.data = Loading
  /\ flights' = (flights \ {f}) \cup {[f EXCEPT !.data = replica]}
  /\ UNCHANGED <<changes, replica, pending, generation, entries, older, reader, floor>>

\* Bug: a load is stored whatever was invalidated meanwhile.
BugCurrent(f) == TRUE
Current(f) == f.generation = generation

\* storeLocked: expired entries go, then the least recently used until there is room for one
\* more and for its bytes; sizes are left out, so any number of the oldest may have to go.
Store(f) ==
  LET live == {k \in Held : entries[k].state = "fresh" /\ k # f.key}
  IN \E kept \in SUBSET live :
       /\ Cardinality(kept) < MaxEntries
       /\ \A j \in live \ kept, k \in kept : <<j, k>> \in older
       /\ entries' = [k \in Keys |-> IF k = f.key THEN [state |-> "fresh", data |-> f.data]
                                     ELSE IF k \in kept THEN entries[k] ELSE NoEntry]
       /\ older' = UsedNow(kept, f.key)

Shares(r, f) == reader[r].pc = "shared" /\ reader[r].generation = f.generation /\ reader[r].key = f.key

\* The end of a flight: its data is stored, unless it is too large, and given to everybody
\* who waits for it.
Land(f) ==
  /\ f.data # Loading
  /\ \/ f.key \in Cached /\ Current(f) /\ Store(f)
     \/ UNCHANGED <<entries, older>>
  /\ flights' = flights \ {f}
  /\ reader' = [r \in Readers |-> IF Shares(r, f) THEN [reader[r] EXCEPT !.pc = "done", !.got = f.data]
                                  ELSE reader[r]]
  /\ UNCHANGED <<changes, replica, pending, generation, floor>>

\* The query fails or its 30 seconds pass: the readers get the error.
Fails(f) ==
  /\ f.data = Loading
  /\ flights' = flights \ {f}
  /\ reader' = [r \in Readers |-> IF Shares(r, f) THEN Waits ELSE reader[r]]
  /\ UNCHANGED <<changes, replica, pending, generation, entries, older, floor>>

\* A reader answers, or its client goes away while it waits.
Leaves(r) ==
  /\ reader[r].pc # "ready"
  /\ Becomes(r, Waits)
  /\ UNCHANGED <<changes, replica, pending, generation, entries, older, flights, floor>>

CacheNext ==
  \/ TreeChanges \/ ChangeElsewhere \/ Replicate \/ Invalidate
  \/ \E k \in Keys : Expires(k) \/ \E r \in Readers : ReadTree(r, k)
  \/ \E r \in Readers : LoadAlone(r) \/ Leaves(r)
  \/ \E f \in flights : Load(f) \/ Land(f) \/ Fails(f)

CacheSpec == CacheInit /\ [][CacheNext]_cacheVars

-----------------------------------------------------------------------------

EntryRows == [state : {"none", "fresh", "expired"}, data : Nat]
FlightRows == [generation : Nat, key : Keys, data : Nat]
ReaderRows == [pc : {"ready", "shared", "alone", "done"}, key : Keys \cup {Waits.key},
               generation : Nat, floor : Nat, got : Nat]

CacheTypeOK ==
  /\ changes \in 0..MaxChanges /\ replica \in 0..changes /\ floor \in 0..replica
  /\ pending \in Nat /\ generation \in Nat
  /\ entries \in [Keys -> EntryRows] /\ older \subseteq Held \X Held
  /\ Held \subseteq Cached /\ IsFiniteSet(Held) /\ Cardinality(Held) <= MaxEntries
  /\ flights \subseteq FlightRows /\ IsFiniteSet(flights) /\ Cardinality(flights) <= MaxFlights
  /\ reader \in [Readers -> ReaderRows]

\* After an invalidation nothing older than the replica was at that moment is cached or
\* returned to a reader who came later: a load that was in flight is not stored, and not
\* joined by anybody who comes after.
NoStaleBranch ==
  /\ \A k \in Held : entries[k].data >= floor
  /\ \A r \in Readers : reader[r].pc = "done" => reader[r].got >= reader[r].floor
=============================================================================
