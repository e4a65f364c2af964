---------------------------- MODULE EPCProcessor ----------------------------
(***************************************************************************)
(* The filter of repeated reads (server/rfid/epc_processor.cpp): a cache   *)
(* of the time each tag was last kept. The times are the readers', the     *)
(* cache is aged by the server's clock, and no reader's clock is compared  *)
(* with it. Every call holds mutex_ for its whole length; processEvents    *)
(* takes one step for each event and one for the cleanup.                  *)
(*                                                                         *)
(* The best RSSI and the two counters are left out: nothing reads them.    *)
(* The callback is given the whole batch, whatever the filter says.        *)
(***************************************************************************)
EXTENDS Integers, Sequences, FiniteSets

CONSTANTS
  Tags,
  NeverKept,      \* the time of a tag that is not in the cache
  Times,          \* what the readers' clocks and the server's say
  Windows,        \* values of setDuplicateFilterWindow
  Sizes,          \* values of setMaxCacheSize
  MaxBatch,       \* bound: events of a batch
  MaxFilterCalls  \* bound: calls

ASSUME EPCProcessorAssumption ==
  /\ Times \subseteq Nat /\ NeverKept \notin Int
  /\ Windows \subseteq Nat /\ Windows # {}
  /\ Sizes \subseteq Nat /\ Sizes # {}
  /\ MaxBatch \in Nat /\ MaxFilterCalls \in Nat

VARIABLES
  cache,       \* epcCache_: lastTimestamp, NeverKept if there is no entry
  window,      \* duplicateFilterWindowMs_
  maxCache,    \* maxCacheSize_
  call,        \* the step processEvents is at; "idle": the mutex is free
  batch,       \* what is left of its events
  clock,       \* system_clock
  kept,        \* history: per tag the time of the read kept last, and how many
  swept,       \* history: the clock of the last cleanup
  excused,     \* history: tags whose entry was removed for another reason than
               \* its age, or may have been by a window since widened
  filterCalls  \* calls made

filterVars == <<cache, window, maxCache, call, batch, clock, kept, swept, excused, filterCalls>>

Event == [epc : Tags, time : Times]
Batches == UNION {[1..n -> Event] : n \in 1..MaxBatch}

FilterInit ==
  /\ cache = [e \in Tags |-> NeverKept]
  /\ window \in Windows /\ maxCache \in Sizes
  /\ call = "idle" /\ batch = <<>>
  /\ clock = 0
  /\ kept = [e \in Tags |-> [time |-> NeverKept, reads |-> 0]]
  /\ swept = 0 /\ excused = {} /\ filterCalls = 0

-----------------------------------------------------------------------------
Called == call = "idle" /\ filterCalls < MaxFilterCalls /\ filterCalls' = filterCalls + 1

ProcessEvents(b) ==
  /\ Called
  /\ call' = "filter" /\ batch' = b
  /\ UNCHANGED <<cache, window, maxCache, clock, kept, swept, excused>>

\* isDuplicate: an event that is older than the last one kept is one, too.
IsDuplicate(event) ==
  cache[event.epc] # NeverKept /\ event.time - cache[event.epc] < window

BugFirstStays(event) ==
  [cache EXCEPT ![event.epc] = IF @ = NeverKept THEN event.time ELSE @]

\* The entry of a tag that was kept, new or not.
Stamped(event) == [cache EXCEPT ![event.epc] = event.time]

Filter ==
  LET event == Head(batch) IN
  /\ call = "filter" /\ batch # <<>>
  /\ batch' = Tail(batch)
  /\ IF IsDuplicate(event) THEN UNCHANGED <<cache, kept, excused>>
     ELSE /\ cache' = Stamped(event)
          /\ kept' = [kept EXCEPT ![event.epc] =
                        [time |-> event.time, reads |-> @.reads + 1]]
          /\ excused' = excused \ {event.epc}
  /\ UNCHANGED <<window, maxCache, call, clock, swept, filterCalls>>

Oldest(c) == {e \in Tags : c[e] # NeverKept /\ \A f \in Tags : c[f] # NeverKept => c[e] <= c[f]}
Size(c) == Cardinality({e \in Tags : c[e] # NeverKept})
Without(e) == [cache EXCEPT ![e] = NeverKept]

\* cleanupCache, first loop: older than the window, by the server's clock.
Expired == {e \in Tags : cache[e] # NeverKept /\ cache[e] < clock - window}

Expire ==
  /\ call = "filter" /\ batch = <<>>
  /\ cache' = [e \in Tags |-> IF e \in Expired THEN NeverKept ELSE cache[e]]
  /\ swept' = clock
  /\ call' = "evict"
  /\ UNCHANGED <<window, maxCache, batch, clock, kept, excused, filterCalls>>

\* Second loop: the oldest entry, as long as there are too many.
Evict(e) ==
  /\ call = "evict" /\ Size(cache) > maxCache /\ e \in Oldest(cache)
  /\ cache' = Without(e)
  /\ excused' = excused \cup {e}
  /\ UNCHANGED <<window, maxCache, call, batch, clock, kept, swept, filterCalls>>

Processed ==
  /\ call = "evict" /\ Size(cache) <= maxCache
  /\ call' = "idle"
  /\ UNCHANGED <<cache, window, maxCache, batch, clock, kept, swept, excused, filterCalls>>

-----------------------------------------------------------------------------
ClearCache ==
  /\ Called
  /\ cache' = [e \in Tags |-> NeverKept]
  /\ excused' = Tags
  /\ UNCHANGED <<window, maxCache, call, batch, clock, kept, swept>>

SetDuplicateFilterWindow(w) ==
  /\ Called
  /\ window' = w
  /\ excused' = IF w > window THEN Tags ELSE excused
  /\ UNCHANGED <<cache, maxCache, call, batch, clock, kept, swept>>

SetMaxCacheSize(n) ==
  /\ Called
  /\ maxCache' = n
  /\ UNCHANGED <<cache, window, call, batch, clock, kept, swept, excused>>

ClockTick ==
  /\ clock + 1 \in Times /\ clock' = clock + 1
  /\ UNCHANGED <<cache, window, maxCache, call, batch, kept, swept, excused, filterCalls>>

FilterNext ==
  \/ \E b \in Batches : ProcessEvents(b)
  \/ Filter \/ Expire \/ Processed
  \/ \E e \in Tags : Evict(e)
  \/ ClearCache
  \/ \E w \in Windows : SetDuplicateFilterWindow(w)
  \/ \E n \in Sizes : SetMaxCacheSize(n)
  \/ ClockTick

FilterSpec == FilterInit /\ [][FilterNext]_filterVars

-----------------------------------------------------------------------------
(* Properties *)

\* Two reads of a tag are kept less than a window apart only if the second
\* came late, after a cleanup by a clock that was past it, or the cache was
\* full, cleared, or its window widened in between. The ageing by the wrong
\* clock (:109-122) does not let a prompt reader's repetitions through.
KeptOncePerWindow ==
  [][\A e \in Tags :
       kept'[e].reads > kept[e].reads /\ kept[e].reads > 0
         => \/ kept'[e].time - kept[e].time >= window
            \/ kept'[e].time < swept
            \/ e \in excused]_filterVars
=============================================================================
