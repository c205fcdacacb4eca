---------------------------- MODULE AuditSender ----------------------------
(***************************************************************************)
(* How events leave the process (hexgate/tracing/_senders.py): one sender   *)
(* per key from a registry, each a bounded queue that the worker of its     *)
(* batch processor exports, emitted to from any thread, stopped by the      *)
(* host's shutdown() or, at the latest, by the hook that runs at exit.      *)
(*                                                                         *)
(* One key.  An enforcer keeps the sender it was built with; run starts,    *)
(* usage and messages look it up for each event: a thread may do either.    *)
(***************************************************************************)
EXTENDS Naturals, FiniteSets, Sequences, SequencesExt

CONSTANTS
  Threads,      \* that emit
  Senders,      \* AuditSender objects
  Shutdowns,    \* calls of shutdown()
  MaxQueue,     \* MAX_QUEUE_SIZE
  MaxBatch,     \* MAX_EXPORT_BATCH_SIZE
  MaxEvents,    \* bound: events, numbered as they are emitted
  MaxTimeouts,  \* bound: shutdowns of a processor that run into their timeout
  None

\* Of the constants; assumed by the modules that give them values.
SenderAssumption ==
  /\ {MaxQueue, MaxBatch, MaxEvents, MaxTimeouts} \subseteq Nat
  /\ 0 < MaxBatch /\ MaxBatch <= MaxQueue
  /\ None \notin Senders

VARIABLES
  registry,     \* the sender of the key, or None
  sender,       \* the objects
  thread,
  shutdown,
  emitted,      \* how many events there have been
  late,         \* events queued on a processor that was being stopped
  exiting

vars == <<registry, sender, thread, shutdown, emitted, late, exiting>>

\* closing: refuses events; stopped: its processor does; ended: so has its worker;
\* shut: shut down, and overdue: with the worker still at it.
NewSender == [built |-> FALSE, queue |-> <<>>, batch |-> {}, closing |-> FALSE,
              stopped |-> FALSE, ended |-> FALSE, shut |-> FALSE, overdue |-> FALSE]

\* of: the sender it holds.
Idle == [pc |-> "idle", of |-> None, event |-> None]

\* before: the events of the registry that were through when it was called.
NotCalled == [pc |-> "idle", senders |-> {}, before |-> {}]

Init ==
  /\ registry = None
  /\ sender = [s \in Senders |-> NewSender]
  /\ thread = [t \in Threads |-> Idle]
  /\ shutdown = [k \in Shutdowns |-> NotCalled]
  /\ emitted = 0 /\ late = {} /\ exiting = FALSE

-----------------------------------------------------------------------------
(* The registry.                                                           *)

\* get_or_create_sender: the one that is there ...
GetSender(t) ==
  /\ thread[t].pc = "idle" /\ ~exiting
  /\ thread' = [thread EXCEPT ![t] = IF registry # None THEN [Idle EXCEPT !.of = registry]
                                     ELSE [Idle EXCEPT !.pc = "building"]]
  /\ UNCHANGED <<registry, sender, shutdown, emitted, late, exiting>>

Unbuilt == {s \in Senders : ~sender[s].built}

\* ... or a new one, also when another thread has put one there meanwhile.
CreateSender(t) ==
  /\ thread[t].pc = "building" /\ Unbuilt # {}
  /\ registry' = CHOOSE s \in Unbuilt : TRUE
  /\ sender' = [sender EXCEPT ![registry'].built = TRUE]
  /\ thread' = [thread EXCEPT ![t] = [Idle EXCEPT !.of = registry']]
  /\ UNCHANGED <<shutdown, emitted, late, exiting>>

-----------------------------------------------------------------------------
(* AuditSender.emit.                                                       *)

Emit(t) ==
  /\ thread[t].pc = "idle" /\ thread[t].of # None /\ ~exiting
  /\ emitted < MaxEvents
  /\ emitted' = emitted + 1
  /\ IF sender[thread[t].of].closing THEN UNCHANGED thread
     ELSE thread' = [thread EXCEPT ![t].pc = "offering", ![t].event = emitted']
  /\ UNCHANGED <<registry, sender, shutdown, late, exiting>>

\* The processor, when the span ends: not once it is stopped ...
Offer(t) ==
  /\ thread[t].pc = "offering"
  /\ thread' = [thread EXCEPT ![t] = IF sender[@.of].stopped THEN [Idle EXCEPT !.of = thread[t].of]
                                     ELSE [@ EXCEPT !.pc = "appending"]]
  /\ UNCHANGED <<registry, sender, shutdown, emitted, late, exiting>>

\* ... and a full deque drops its oldest.
Enqueue(t) ==
  LET s == thread[t].of
      room == IF Len(sender[s].queue) = MaxQueue THEN Tail(sender[s].queue) ELSE sender[s].queue
  IN  /\ thread[t].pc = "appending"
      /\ sender' = [sender EXCEPT ![s].queue = room \o <<thread[t].event>>]
      /\ late' = IF sender[s].stopped THEN late \cup {thread[t].event} ELSE late
      /\ thread' = [thread EXCEPT ![t].pc = "idle", ![t].event = None]
      /\ UNCHANGED <<registry, shutdown, emitted, exiting>>

-----------------------------------------------------------------------------
(* The worker of a processor.                                              *)

\* On its timer, for a full batch, or to drain.
Take(s) ==
  LET q == sender[s].queue
      n == IF Len(q) < MaxBatch THEN Len(q) ELSE MaxBatch
  IN  /\ ~sender[s].ended /\ sender[s].batch = {} /\ n > 0
      /\ sender' = [sender EXCEPT ![s].batch = ToSet(SubSeq(q, 1, n)),
                                  ![s].queue = SubSeq(q, n + 1, Len(q))]
      /\ UNCHANGED <<registry, thread, shutdown, emitted, late, exiting>>

\* Delivered, or given up by the exporter.
Exported(s) ==
  /\ sender[s].batch # {}
  /\ sender' = [sender EXCEPT ![s].batch = {}]
  /\ UNCHANGED <<registry, thread, shutdown, emitted, late, exiting>>

\* A stopped worker drains before it ends.
End(s) ==
  /\ sender[s].stopped /\ ~sender[s].ended
  /\ sender[s].queue = <<>> /\ sender[s].batch = {}
  /\ sender' = [sender EXCEPT ![s].ended = TRUE]
  /\ UNCHANGED <<registry, thread, shutdown, emitted, late, exiting>>

-----------------------------------------------------------------------------
(* Stopping.                                                               *)

Queued(s) == ToSet(sender[s].queue) \cup sender[s].batch

\* (Mutant) The registry is cleared before its senders are listed.
ShutdownClearing(k) ==
  /\ shutdown[k].pc = "idle" /\ ~exiting
  /\ registry' = None
  /\ shutdown' = [shutdown EXCEPT ![k] =
       [pc |-> "closing", senders |-> {},
        before |-> IF registry = None THEN {} ELSE Queued(registry)]]
  /\ UNCHANGED <<sender, thread, emitted, late, exiting>>

\* shutdown: the senders there are, and none left in the registry.
Shutdown(k) ==
  /\ shutdown[k].pc = "idle" /\ ~exiting
  /\ registry' = None
  /\ shutdown' = [shutdown EXCEPT ![k] =
       [pc |-> "closing", senders |-> {registry} \ {None},
        before |-> IF registry = None THEN {} ELSE Queued(registry)]]
  /\ UNCHANGED <<sender, thread, emitted, late, exiting>>

\* AuditSender.close, on the loop ...
Close(k) ==
  /\ shutdown[k].pc = "closing"
  /\ \E s \in shutdown[k].senders :
       ~sender[s].closing /\ sender' = [sender EXCEPT ![s].closing = TRUE]
  /\ UNCHANGED <<registry, thread, shutdown, emitted, late, exiting>>

\* ... and provider.shutdown, in a thread of close() or of the hook at exit.
Stop(s) ==
  /\ sender[s].built /\ ~sender[s].stopped
  /\ sender[s].closing \/ exiting
  /\ sender' = [sender EXCEPT ![s].stopped = TRUE]
  /\ UNCHANGED <<registry, thread, shutdown, emitted, late, exiting>>

\* (Mutant) Nobody waits for the worker.
JoinedAtOnce(s) ==
  /\ sender[s].stopped /\ ~sender[s].shut
  /\ sender' = [sender EXCEPT ![s].shut = TRUE]
  /\ UNCHANGED <<registry, thread, shutdown, emitted, late, exiting>>

\* _BoundedShutdownProcessor.shutdown: the worker has drained, or the export
\* timeout is over.
Joined(s) ==
  /\ sender[s].stopped /\ ~sender[s].shut
  /\ \/ sender[s].ended
     \/ Cardinality({u \in Senders : sender[u].overdue}) < MaxTimeouts
  /\ sender' = [sender EXCEPT ![s].shut = TRUE, ![s].overdue = ~sender[s].ended]
  /\ UNCHANGED <<registry, thread, shutdown, emitted, late, exiting>>

Returned(k) ==
  /\ shutdown[k].pc = "closing"
  /\ \A s \in shutdown[k].senders : sender[s].shut
  /\ shutdown' = [shutdown EXCEPT ![k].pc = "returned"]
  /\ UNCHANGED <<registry, sender, thread, emitted, late, exiting>>

\* The interpreter joins the threads, then runs the hooks.
Exit ==
  /\ ~exiting
  /\ \A t \in Threads : thread[t].pc = "idle"
  /\ \A k \in Shutdowns : shutdown[k].pc # "closing"
  /\ exiting' = TRUE
  /\ UNCHANGED <<registry, sender, thread, shutdown, emitted, late>>

Next ==
  \/ \E t \in Threads : GetSender(t) \/ CreateSender(t) \/ Emit(t) \/ Offer(t) \/ Enqueue(t)
  \/ \E s \in Senders : Take(s) \/ Exported(s) \/ End(s) \/ Stop(s) \/ Joined(s)
  \/ \E k \in Shutdowns : Shutdown(k) \/ Close(k) \/ Returned(k)
  \/ Exit

Spec == Init /\ [][Next]_vars

-----------------------------------------------------------------------------
(* Properties.                                                             *)

TypeOK ==
  /\ registry \in Senders \cup {None}
  /\ emitted \in 0..MaxEvents /\ late \subseteq 1..emitted /\ exiting \in BOOLEAN
  /\ \A s \in Senders : Queued(s) \subseteq 1..emitted /\ Len(sender[s].queue) <= MaxQueue
  /\ \A t \in Threads : thread[t].of \in Senders \cup {None}

\* An event that was emitted leaves the process, unless newer ones push it out of a
\* full queue or a shutdown runs into its timeout: shutdown() returns when those
\* that were through before it was called have left, and the process is over when
\* all have, though two threads made a sender each and one is in no registry.
\* What is queued after its processor was told to stop may be lost.
NothingForgotten ==
  /\ \A k \in Shutdowns : shutdown[k].pc = "returned" =>
       \A s \in Senders : sender[s].overdue \/ shutdown[k].before \cap Queued(s) = {}
  /\ (exiting /\ \A s \in Senders : sender[s].built => sender[s].shut) =>
       \A s \in Senders : sender[s].overdue \/ Queued(s) \subseteq late
=============================================================================
