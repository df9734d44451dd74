------------------------ MODULE MaterializationCache ------------------------
(***************************************************************************)
(* The caches of decoded weights that the threads of a run share           *)
(* (staged/src/cache.rs, MaterializationCache) and the cache of prepared   *)
(* layer weights, which is written the same way                            *)
(* (kernels/src/prefill_range.rs, PrefillRangeWeightCache).  A call looks  *)
(* its key up under the lock, releases the lock for the load, which takes  *)
(* long, then locks again, looks again, and only then inserts, evicting    *)
(* the oldest key of a full cache.  Each locked section is one step here:  *)
(* it calls nothing that could wait, and the load runs without the lock,   *)
(* so that a load that fails or panics does not poison it.                 *)
(*                                                                         *)
(* A key stands for a parameter, its files, its commitment and its type:   *)
(* a value can only have the wrong type if it is another key's.            *)
(***************************************************************************)
EXTENDS Integers, Sequences, FiniteSets

CONSTANTS
  Threads,     (* threads that share the cache                               *)
  Keys,        (* cache keys                                                 *)
  NoKey,       (* no key: the stage's files do not describe the parameter    *)
  Programs,    (* the calls, in order, that each thread may make             *)
  Capacities,  (* possible values of ..._MATERIALIZATION_CACHE_ENTRIES       *)
  LoadMayFail  (* a load may fail: a layer with bad weights, a panic         *)

ASSUME CacheAssumption ==
  /\ NoKey \notin Keys
  /\ Programs \subseteq [Threads -> Seq(Keys \cup {NoKey})]
  /\ Capacities \subseteq Nat
  /\ LoadMayFail \in BOOLEAN

VARIABLES
  program,   (* the calls each thread makes in this run                      *)
  capacity,  (* MaterializationCache::capacity                               *)
  entries,   (* key -> value                                                 *)
  order,     (* keys, oldest first                                           *)
  pc,        (* where each thread is in get_or_insert_with                   *)
  answers    (* what each thread's calls have returned                       *)

cacheVars == <<entries, order>>
callVars == <<program, capacity, cacheVars, pc, answers>>

(* A value is known by the key it was loaded for and the call that loaded  *)
(* it: equal values are the same Arc. *)
Value == (Keys \cup {NoKey}) \X Threads \X (Nat \ {0})
Failed == <<>>

Call(t) == Len(answers[t]) + 1
Key(t) == program[t][Call(t)]
Fresh(t) == <<Key(t), t, Call(t)>>

Cached(k) == k \in DOMAIN entries

(* A fault that would break a property, used by no action: the second look *)
(* is left out.                                                            *)
NotRechecked(t) == FALSE

(* With a key and a capacity, the cache is asked. *)
Keyed(t) == Key(t) # NoKey /\ capacity > 0

(* The look under the second lock, and what a call finds. *)
FoundAgain(t) == Cached(Key(t))
Found(t) == entries[Key(t)]

(* What an insertion evicts. *)
Full == Cardinality(DOMAIN entries) >= capacity /\ order # <<>>
Victims == IF Full THEN {Head(order)} ELSE {}

Return(t, value) ==
  /\ answers' = [answers EXCEPT ![t] = Append(@, value)]
  /\ pc' = [pc EXCEPT ![t] = "idle"]

InitCache ==
  /\ program \in Programs /\ capacity \in Capacities
  /\ entries = [k \in {} |-> Failed] /\ order = <<>>
  /\ pc = [t \in Threads |-> "idle"]
  /\ answers = [t \in Threads |-> <<>>]

(* The call up to the load. *)
Lookup(t) ==
  /\ pc[t] = "idle" /\ Call(t) <= Len(program[t])
  /\ \/ /\ ~Keyed(t)
        /\ pc' = [pc EXCEPT ![t] = "uncached"]
        /\ UNCHANGED answers
     \/ /\ Keyed(t) /\ Cached(Key(t))
        /\ Return(t, Found(t))
     \/ /\ Keyed(t) /\ ~Cached(Key(t))
        /\ pc' = [pc EXCEPT ![t] = "loading"]
        /\ UNCHANGED answers
  /\ UNCHANGED <<program, capacity, cacheVars>>

(* The load, without the lock. *)
Load(t) ==
  /\ \/ pc[t] = "uncached" /\ Return(t, Fresh(t))
     \/ pc[t] = "loading" /\ pc' = [pc EXCEPT ![t] = "loaded"] /\ UNCHANGED answers
  /\ UNCHANGED <<program, capacity, cacheVars>>

FailLoad(t) ==
  /\ LoadMayFail /\ pc[t] \in {"uncached", "loading"}
  /\ Return(t, Failed)
  /\ UNCHANGED <<program, capacity, cacheVars>>

(* The second locked section finds what another thread inserted meanwhile  *)
(* and drops its own value, ... *)
AdoptOther(t) ==
  /\ pc[t] = "loaded" /\ FoundAgain(t)
  /\ Return(t, Found(t))
  /\ UNCHANGED <<program, capacity, cacheVars>>

(* ... or inserts its own. *)
Insert(t) ==
  /\ pc[t] = "loaded" /\ ~FoundAgain(t)
  /\ order' = Append(IF Full THEN Tail(order) ELSE order, Key(t))
  /\ entries' = [k \in (DOMAIN entries \ Victims) \cup {Key(t)} |->
                   IF k = Key(t) THEN Fresh(t) ELSE entries[k]]
  /\ Return(t, Fresh(t))
  /\ UNCHANGED <<program, capacity>>

Step(t) == Lookup(t) \/ Load(t) \/ FailLoad(t) \/ AdoptOther(t) \/ Insert(t)
NextCache == \E t \in Threads : Step(t)

CacheSpec == InitCache /\ [][NextCache]_callVars

(* Every thread runs, every load ends and the lock, which is held for a    *)
(* moment only, is granted. *)
FairCacheSpec == CacheSpec /\ \A t \in Threads : WF_callVars(Step(t))
-----------------------------------------------------------------------------
(* Properties.                                                             *)

(* Every variable has its type. *)
CacheTypeOK ==
  /\ program \in Programs /\ capacity \in Capacities
  /\ DOMAIN entries \subseteq Keys
  /\ entries \in [DOMAIN entries -> Value]
  /\ order \in Seq(Keys)
  /\ pc \in [Threads -> {"idle", "uncached", "loading", "loaded"}]
  /\ answers \in [Threads -> Seq(Value \cup {Failed})]

(* The two halves of the cache describe the same set: every entry is in    *)
(* the eviction queue exactly once, the queue names nothing else, and the  *)
(* capacity is never exceeded, although threads decide to insert on what   *)
(* they saw before their load. *)
QueueMatchesEntries ==
  /\ DOMAIN entries = {order[i] : i \in 1 .. Len(order)}
  /\ \A i, j \in 1 .. Len(order) : order[i] = order[j] => i = j
  /\ Len(order) <= capacity

(* A call gets what was loaded for its own key, by its own load or by one  *)
(* of another call for the same key (the downcast never fails); and an     *)
(* entry is what was loaded for the key it is stored under. *)
AnswersOwnKey ==
  /\ \A t \in Threads : \A n \in 1 .. Len(answers[t]) :
       LET v == answers[t][n]
       IN  v # Failed => v[1] = program[t][n]
                         /\ v[3] \in 1 .. Len(program[v[2]])
                         /\ program[v[2]][v[3]] = program[t][n]
  /\ \A k \in DOMAIN entries : entries[k][1] = k

(* An entry is never replaced while it is in the cache, and leaves it only *)
(* from the front of the queue: whoever gets a key that stays cached gets  *)
(* the same Arc, however many threads have loaded it at the same time. *)
EntriesAreStable ==
  [][\A k \in DOMAIN entries :
       \/ Cached(k)' /\ entries'[k] = entries[k]
       \/ ~Cached(k)' /\ k = Head(order)]_callVars

(* Calls that overlap, with their two locked sections and the load in      *)
(* between, behave like indivisible calls of a bounded memo table, and     *)
(* every call is answered. *)
Memo == INSTANCE FifoMemo WITH
  Callers <- Threads, MayFail <- LoadMayFail,
  table <- [i \in 1 .. Len(order) |-> entries[order[i]]]

CallsAreAtomic == Memo!FairSpec
=============================================================================
