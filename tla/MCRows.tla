------------------------------- MODULE MCRows -------------------------------
(* What is left of a project when its requests and calls overlap: its policies *)
(* under a lock, its members under none, and the engines that its runs share   *)
(* under two.  The three share no state: each behaviour is one of one of       *)
(* them, or of another part of the project, which looks at none of this.       *)
EXTENDS PolicyLinker, Sequences

CONSTANTS
  StoredAgents, Caps, Requests,
  Users, Founder, AskedRoles, Invites, Keys,
  Threads, Hashes, Instances, Locks, MaxEntries, MaxHeap

VARIABLES part,
          module, bindings, entry, fragment, own, bundle, req, up, behind, torn,
          member, invite, key, orgReq,
          policies, inflight, instance, thread, evicted

Store == INSTANCE PolicyStore WITH roles <- bindings, Agents <- StoredAgents

Org == INSTANCE OrgAccess WITH req <- orgReq, Roles <- AskedRoles

Engines == INSTANCE EngineCache

ASSUME RowsAssumption ==
  Store!StoreAssumption /\ Org!OrgAssumption /\ Engines!EngineAssumption

storeVars == <<module, bindings, entry, fragment, own, bundle, req, up, behind, torn>>
orgVars == <<member, invite, key, orgReq>>
engineVars == <<policies, inflight, instance, thread, evicted>>
rowsVars == <<part, storeVars, orgVars, engineVars>>

Parts == {"modules", "document", "constraint", "store", "members", "engines"}

RowsInit == part \in Parts /\ Store!Init /\ Org!Init /\ Engines!Init

RowsNext ==
  /\ UNCHANGED part
  /\ \/ part = "store" /\ Store!Next /\ UNCHANGED <<orgVars, engineVars>>
     \/ part = "members" /\ Org!Next /\ UNCHANGED <<storeVars, engineVars>>
     \/ part = "engines" /\ Engines!Next /\ UNCHANGED <<storeVars, orgVars>>

RowsSpec == RowsInit /\ [][RowsNext]_rowsVars

-----------------------------------------------------------------------------
(* What the modules promise; each says there what it is about.  A part is      *)
(* looked at where it is what the behaviour is of.                             *)

\* What is stored is in force.  A policy that was accepted resolves, whatever was
\* accepted since; bundles are those of the stored policy unless a build failed, and
\* an agent of a modular project enforces the modules.
StoredIsInForce ==
  part = "store" =>
    /\ Store!StoredPolicyResolves
    /\ Store!BundlesCurrent
    /\ Store!ModularBundles

\* A leaver keeps no key but one inserted after the sweep.
LeaversKeysSwept == part = "members" => Org!LeaversKeysSwept

\* The last owner goes only by a decision on rows that changed since.
LastOwnerLostToStaleRead == Org!LastOwnerLostToStaleRead

\* One instance of a compiled policy is loaded and shared, and decides each call
\* by that call's input.
EnginesAreShared == part = "engines" => Engines!OneInstance /\ Engines!OwnAnswers
=============================================================================
