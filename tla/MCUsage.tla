------------------------------- MODULE MCUsage -------------------------------
(* What a process keeps of what others own, and decides by: the usage          *)
(* snapshots of users (this module's own variables), with room for one of two, *)
(* so that a fetch outlives its state; a cap on an agent's runs across         *)
(* processes; the rings of buckets of a ledger; the engine that runs share;    *)
(* the documents of OAuth clients; and how events leave the process, from two  *)
(* threads and with a shutdown.  Each behaviour is one of one of them.         *)
EXTENDS UsageSource, TLC

CONSTANTS
  Runs, Others, RunsCap, RunsWindow, Margin, SnapshotAge, OnUnavailable, Lag,
  ReadTimeout, MemoTTL, MaxNow, Saves,
  Threads, Senders, Shutdowns, MaxQueue, MaxBatch, MaxEvents, MaxTimeouts,
  Clients, Versions, DocumentTTL, FailureTTL, MaxStale, FetchTimeout, MaxEntries, Horizon

VARIABLES part,
          now, policy, ledger, run, started, recorded, ingested, memo, fetch, snapshot,
          clock, counts, newest, added,
          registry, sender, thread, shutdown, emitted, late, exiting,
          served, engine, banned, boundary,
          published, gone, documents, failures, task, loaded

MCUserPaths == [s \in Scopes |-> {{1}}]

\* Of three policies the second brings a cap and a guard, the third another cap
\* and an approval; the first has neither.
MCSaves ==
  <<[admission |-> None, usage |-> {}, guard |-> FALSE],
    [admission |-> "allow", usage |-> {1}, guard |-> TRUE],
    [admission |-> "ask", usage |-> {1, 2}, guard |-> FALSE]>>

\* The cap on runs, of any size and any delays.
Cap == INSTANCE AgentUsage WITH
  Cap <- RunsCap, Window <- RunsWindow, MaxStaleness <- SnapshotAge

\* The minutes, hours and days of the code, with fewer of each.
Rings == INSTANCE UsageLedger WITH
  now <- clock, Windows <- {2, 4, 12}, MaxAdds <- 3, MaxNow <- 22,
  Rings <- <<[width |-> 1, retention |-> 2], [width |-> 2, retention |-> 4],
             [width |-> 4, retention |-> 12]>>

\* So are the threads, the senders and the shutdowns, the runs of the boundary and
\* the clients with their times.
Spans == INSTANCE AuditSender

Boundary == INSTANCE RunBoundary WITH run <- boundary

Documents == INSTANCE ClientDocuments

ASSUME PartsAssumption ==
  /\ Cap!UsageAssumption /\ Rings!RingsAssumption /\ Spans!SenderAssumption
  /\ Documents!ClientAssumption /\ Boundary!BoundaryAssumption

capVars == <<now, policy, ledger, run, started, recorded, ingested, memo, fetch, snapshot>>
ringVars == <<clock, counts, newest, added>>
spanVars == <<registry, sender, thread, shutdown, emitted, late, exiting>>
boundaryVars == <<served, engine, banned, boundary>>
clientVars == <<published, gone, documents, failures, task, loaded>>
usageVars == <<part, vars, capVars, ringVars, spanVars, boundaryVars, clientVars>>

\* The parts that are not looked at have one state.
UsageInit ==
  /\ part \in {"users", "cap", "rings", "spans", "boundary", "clients"}
  /\ Init /\ Cap!Init /\ Rings!Init /\ Spans!Init /\ Boundary!Init /\ Documents!Init
  /\ part # "cap" => policy = "open"
  /\ part # "users" => up
  /\ part # "clients" => published = [c \in Clients |-> CHOOSE v \in Versions : TRUE]

UsageNext ==
  \/ /\ part = "users" /\ Next
     /\ UNCHANGED <<part, capVars, ringVars, spanVars, boundaryVars, clientVars>>
  \/ /\ part = "cap" /\ Cap!Next
     /\ UNCHANGED <<part, vars, ringVars, spanVars, boundaryVars, clientVars>>
  \/ /\ part = "rings" /\ Rings!Next
     /\ UNCHANGED <<part, vars, capVars, spanVars, boundaryVars, clientVars>>
  \/ /\ part = "spans" /\ Spans!Next
     /\ UNCHANGED <<part, vars, capVars, ringVars, boundaryVars, clientVars>>
  \/ /\ part = "boundary" /\ Boundary!Next
     /\ UNCHANGED <<part, vars, capVars, ringVars, spanVars, clientVars>>
  \/ /\ part = "clients" /\ Documents!Next
     /\ UNCHANGED <<part, vars, capVars, ringVars, spanVars, boundaryVars>>

\* Runs are alike, and users.
Symmetric == Permutations(Runs) \cup Permutations(Users)

UsageSpec == UsageInit /\ [][UsageNext]_usageVars

-----------------------------------------------------------------------------
(* What the modules promise; each says there what it is about.             *)

\* What a decision counts has no gap between the platform's term and the ledger's.
NeverUndercounts == part = "cap" => Cap!NeverUndercounts

\* No run is admitted once a full cap of runs was there to be counted.
AdmittedBelowCap == Cap!AdmittedBelowCap

\* The rings neither lose a count nor read one older than a window and a bucket.
WindowsHold == part = "rings" => Rings!WindowsHold

\* What is emitted leaves the process.
NothingForgotten == part = "spans" => Spans!NothingForgotten

\* A run is admitted by the policy it refreshed, with the numbers that policy
\* reads, and its calls run the guards of the policy that decides them.
RunsSeeTheirPolicy ==
  part = "boundary" =>
    Boundary!RunsSeeTheirPolicy /\ Boundary!CapsHaveSnapshots /\ Boundary!GuardsOfThePolicy

\* An old document of a client ends, and a blip at its host refuses nobody.
ClientsLive == part = "clients" => Documents!OldDocumentsEnd /\ Documents!BlipsRefuseNobody
=============================================================================
