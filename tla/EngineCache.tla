------------------------------ MODULE EngineCache ------------------------------
(* The compiled engines that runs and their tool calls share                  *)
(* (security/wasm_engine.py): instances cached by the hash of their code,     *)
(* loaded under a lock per hash, and evaluated under a lock per instance,     *)
(* because an instance has one memory.                                        *)
EXTENDS Naturals, FiniteSets, SequencesExt

CONSTANTS
  None, Threads, Hashes,
  Instances, Locks,
  MaxEntries,   \* _MAX_ENTRIES
  MaxHeap       \* bound: how far the memory of an instance is followed

\* There is always an instance and a lock that nobody refers to.  Assumed by the
\* modules that give the constants values.
EngineAssumption ==
  /\ None \notin Threads \cup Hashes \cup Instances \cup Locks
  /\ MaxEntries \in Nat \ {0} /\ MaxHeap \in Nat
  /\ IsFiniteSet(Threads) /\ IsFiniteSet(Hashes)
  /\ IsFiniteSet(Instances) /\ Cardinality(Instances) >= Cardinality(Threads) + MaxEntries
  /\ IsFiniteSet(Locks)
  /\ Cardinality(Locks) >= Cardinality(Threads) + Cardinality(Hashes) - 1

VARIABLES
  policies,     \* the LRU, oldest first: hashes and their instances
  inflight,     \* per hash: the lock of its loads, or None
  instance,     \* hash, lock and memory of each
  thread,
  evicted       \* history: hashes evicted while a thread had to do with them

vars == <<policies, inflight, instance, thread, evicted>>

NewInstance(h) == [hash |-> h, lock |-> None, heap |-> 0, input |-> None, output |-> None]

Idle == [pc |-> "idle", hash |-> None, slot |-> None, engine |-> None, result |-> None]

TypeOK ==
  /\ policies \in Seq([hash : Hashes, engine : Instances]) /\ Len(policies) <= MaxEntries
  /\ inflight \in [Hashes -> Locks \cup {None}]
  /\ instance \in [Instances -> [hash : Hashes \cup {None}, lock : Threads \cup {None},
                                 heap : 0..MaxHeap, input : Threads \cup {None},
                                 output : Threads \cup {None}]]
  /\ thread \in [Threads ->
       [pc : {"idle", "waiting", "loading", "ready", "resetting", "writing", "evaluating",
              "reading", "answered"},
        hash : Hashes \cup {None}, slot : Locks \cup {None},
        engine : Instances \cup {None}, result : Threads \cup {None}]]
  /\ evicted \subseteq Hashes

Init ==
  /\ policies = <<>>
  /\ inflight = [h \in Hashes |-> None]
  /\ instance = [i \in Instances |-> NewInstance(None)]
  /\ thread = [t \in Threads |-> Idle]
  /\ evicted = {}

-----------------------------------------------------------------------------
(* The cache.                                                                *)

Cached(h) == {e \in Range(policies) : e.hash = h}

Place(h) == CHOOSE i \in DOMAIN policies : policies[i].hash = h

Without(h) == IF Cached(h) = {} THEN policies ELSE RemoveAt(policies, Place(h))

Touched(h) == Append(Without(h), policies[Place(h)])

Adopts(t, h, engine) == thread' = [thread EXCEPT ![t] = [Idle EXCEPT !.pc = "ready", !.hash = h, !.engine = engine]]

StillUsed(hashes) == {h \in hashes : \E t \in Threads : thread'[t].hash = h}

UnusedLocks ==
  Locks \ ({inflight[h] : h \in Hashes} \cup {thread[t].slot : t \in Threads})

\* get_or_load, under the mutex: the instance there is, or the lock of its load.
Ask(t, h) ==
  /\ thread[t].pc \in {"idle", "ready"}
  /\ IF Cached(h) # {}
     THEN /\ \E e \in Cached(h) : Adopts(t, h, e.engine)
          /\ policies' = Touched(h)
          /\ UNCHANGED inflight
     ELSE /\ inflight' = [inflight EXCEPT ![h] =
               IF @ = None THEN CHOOSE l \in UnusedLocks : TRUE ELSE @]
          /\ thread' = [thread EXCEPT ![t] =
               [Idle EXCEPT !.pc = "waiting", !.hash = h, !.slot = inflight'[h]]]
          /\ UNCHANGED policies
  /\ evicted' = StillUsed(evicted)
  /\ UNCHANGED instance

Taken(slot) == \E t \in Threads : thread[t].slot = slot /\ thread[t].pc = "loading"

\* (Mutant) Whoever waited loads as well.
AcquireUnchecked(t) ==
  /\ thread[t].pc = "waiting" /\ ~Taken(thread[t].slot)
  /\ thread' = [thread EXCEPT ![t].pc = "loading"]
  /\ UNCHANGED <<policies, inflight, instance, evicted>>

\* Its turn: somebody else may have loaded it meanwhile.
Acquire(t) ==
  LET h == thread[t].hash
  IN  /\ thread[t].pc = "waiting" /\ ~Taken(thread[t].slot)
      /\ IF Cached(h) # {}
         THEN /\ \E e \in Cached(h) : Adopts(t, h, e.engine)
              /\ policies' = Touched(h)
         ELSE /\ thread' = [thread EXCEPT ![t].pc = "loading"]
              /\ UNCHANGED policies
      /\ UNCHANGED <<inflight, instance, evicted>>

\* Those nobody refers to any more.
UnusedInstances ==
  Instances \ ({e.engine : e \in Range(policies)} \cup {thread[t].engine : t \in Threads})

Stored(h, engine) ==
  LET all == Append(Without(h), [hash |-> h, engine |-> engine])
  IN  IF Len(all) > MaxEntries THEN Tail(all) ELSE all

Loaded(t) ==
  LET h == thread[t].hash
      i == CHOOSE i \in UnusedInstances : TRUE
  IN  /\ thread[t].pc = "loading"
      /\ instance' = [instance EXCEPT ![i] = NewInstance(h)]
      /\ policies' = Stored(h, i)
      /\ inflight' = [inflight EXCEPT ![h] = None]
      /\ Adopts(t, h, i)
      /\ evicted' = StillUsed(evicted \cup
           ({e.hash : e \in Range(policies)} \ {e.hash : e \in Range(policies')}))

\* (Mutant) The lock is taken back whatever came of the load.
LoadFailsReleasing(t) ==
  /\ thread[t].pc = "loading"
  /\ inflight' = [inflight EXCEPT ![thread[t].hash] = None]
  /\ thread' = [thread EXCEPT ![t] = Idle]
  /\ evicted' = StillUsed(evicted)
  /\ UNCHANGED <<policies, instance>>

\* The bytes are no module, or not of a version that can be run.
LoadFails(t) ==
  /\ thread[t].pc = "loading"
  /\ thread' = [thread EXCEPT ![t] = Idle]
  /\ evicted' = StillUsed(evicted)
  /\ UNCHANGED <<policies, inflight, instance>>

-----------------------------------------------------------------------------
(* A decision: the four calls into the instance.                             *)

Into(t, pc, changed) ==
  /\ thread' = [thread EXCEPT ![t].pc = pc]
  /\ instance' = [instance EXCEPT ![thread[t].engine] = changed]
  /\ UNCHANGED <<policies, inflight, evicted>>

\* (Mutant) Nobody waits for anybody.
EvaluateUnlocked(t) ==
  /\ thread[t].pc = "ready"
  /\ Into(t, "resetting", instance[thread[t].engine])

Evaluate(t) ==
  /\ thread[t].pc = "ready"
  /\ LET i == instance[thread[t].engine]
     IN i.lock = None /\ Into(t, "resetting", [i EXCEPT !.lock = t])

\* (Mutant) The heap goes on where the last decision left it.
ResetNothing(t) ==
  /\ thread[t].pc = "resetting"
  /\ Into(t, "writing", instance[thread[t].engine])

Reset(t) ==
  /\ thread[t].pc = "resetting"
  /\ Into(t, "writing", [instance[thread[t].engine] EXCEPT !.heap = 0])

Grown(heap) == IF heap < MaxHeap THEN heap + 1 ELSE heap

Write(t) ==
  /\ thread[t].pc = "writing"
  /\ LET i == instance[thread[t].engine]
     IN Into(t, "evaluating", [i EXCEPT !.heap = Grown(@), !.input = t])

\* The answer is to what the memory holds, and is put there as well ...
Eval(t) ==
  /\ thread[t].pc = "evaluating"
  /\ LET i == instance[thread[t].engine]
     IN Into(t, "reading", [i EXCEPT !.heap = Grown(@), !.output = i.input])

\* What is left in the memory is written over before it is read again.
Released(i) == [i EXCEPT !.lock = None, !.input = None, !.output = None]

\* ... unless the module traps; the lock is released all the same.
Trap(t) ==
  /\ thread[t].pc = "evaluating"
  /\ Into(t, "ready", Released(instance[thread[t].engine]))

Read(t) ==
  /\ thread[t].pc = "reading"
  /\ LET i == instance[thread[t].engine]
     IN /\ thread' = [thread EXCEPT ![t].pc = "answered", ![t].result = i.output]
        /\ instance' = [instance EXCEPT ![thread[t].engine] = Released(i)]
  /\ UNCHANGED <<policies, inflight, evicted>>

\* The verdict is used; the run goes on, or ends and lets its engine go.
Use(t, pc) ==
  /\ thread[t].pc = "answered"
  /\ thread' = [thread EXCEPT ![t] = IF pc = "ready" THEN [@ EXCEPT !.pc = pc, !.result = None]
                                     ELSE Idle]
  /\ evicted' = StillUsed(evicted)
  /\ UNCHANGED <<policies, inflight, instance>>

Next ==
  \E t \in Threads :
    \/ \E h \in Hashes : Ask(t, h)
    \/ Acquire(t) \/ Loaded(t) \/ LoadFails(t)
    \/ Evaluate(t) \/ Reset(t) \/ Write(t) \/ Eval(t) \/ Trap(t) \/ Read(t)
    \/ \E pc \in {"idle", "ready"} : Use(t, pc)

Spec == Init /\ [][Next]_vars

-----------------------------------------------------------------------------

\* Who asks for one compiled policy gets one instance of it, loaded once however
\* many ask at the same time and whatever loads fail, unless the cache ran out
\* of room meanwhile ("N concurrent first-loads").
OneInstance ==
  \A h \in Hashes \ evicted :
    /\ Cardinality({i \in Instances \ UnusedInstances : instance[i].hash = h}) <= 1
    /\ Cardinality({t \in Threads : thread[t].pc = "loading" /\ thread[t].hash = h}) <= 1

\* A decision is of its own input, by the policy that was asked for, though calls
\* of many runs share the instance; and its memory does not grow from decision to
\* decision, also when some of them trap.
OwnAnswers ==
  /\ \A t \in Threads : thread[t].pc = "answered" =>
       thread[t].result = t /\ instance[thread[t].engine].hash = thread[t].hash
  /\ \A i \in Instances : instance[i].heap <= 2
=============================================================================
