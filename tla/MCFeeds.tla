------------------------------- MODULE MCFeeds -------------------------------
(* The feeds a run boundary refreshes: the platform's policy (this module's   *)
(* own variables), a local bundle directory, the bans, the usage snapshots.    *)
(* They share no state: each behaviour is one of one of them.                 *)
EXTENDS PolicyRefresh, TLC

CONSTANTS
  None, Nobody,
  VerifyWith, MaxBuilds,
  Admins, Agents, Users, Targets, AgentOf, UserOf, MaxBans, MaxFailures,
  UsageAgents, UsageUsers, Asked, Capacity, Workers, States,
  MinRefresh, SyncAfter, MaxStaleness, RejectedRetry, Timeout,
  a1, a2, u1, r1, r2

VARIABLES feed, dir, cache, thread, good,
          bans, admin, registry, banSource, gate, boundary, failures,
          table, recent, state, paused, inFlight, queue, proc, up

Local == INSTANCE LocalPolicySource WITH Threads <- Runs

\* One thread runs an agent for nobody in particular, another one for a user.
MCAgentOf == r1 :> a1 @@ r2 :> a2
MCUserOf == r1 :> None @@ r2 :> u1

Bans == INSTANCE BanEnforcement WITH source <- banSource, run <- boundary

\* One agent, whose runs ask for one path or for two, on two threads.
MCAsked == a1 :> {{1}, {1, 2}}
MCStates == 1..4

Usage == INSTANCE UsageSource WITH
  Agents <- UsageAgents, Users <- UsageUsers, Callers <- Runs

ASSUME FeedsAssumption ==
  Local!LocalAssumption /\ Bans!BansAssumption /\ Usage!SourceAssumption

localVars == <<dir, cache, thread, good>>
bansVars == <<bans, admin, registry, banSource, gate, boundary, failures>>
usageVars == <<table, recent, state, paused, inFlight, queue, proc, up>>
feedsVars == <<vars, localVars, bansVars, usageVars, feed>>

\* The feeds that are not looked at have one state.
FeedsInit ==
  /\ feed \in {"platform", "directory", "bans", "usage"}
  /\ Init /\ Local!Init /\ Bans!Init /\ Usage!Init
  /\ feed # "platform" => source.strict /\ platform.content.guards
  /\ feed # "usage" => up

OfPlatform(A) ==
  feed = "platform" /\ A /\ UNCHANGED <<feed, localVars, bansVars, usageVars>>

OfDirectory(A) ==
  feed = "directory" /\ A /\ UNCHANGED <<feed, vars, bansVars, usageVars>>

OfBans(A) ==
  feed = "bans" /\ A /\ UNCHANGED <<feed, vars, localVars, usageVars>>

OfUsage(A) ==
  feed = "usage" /\ A /\ UNCHANGED <<feed, vars, localVars, bansVars>>

FeedsNext ==
  OfPlatform(Next) \/ OfDirectory(Local!Next) \/ OfBans(Bans!Next) \/ OfUsage(Usage!Next)

\* A run of an agent begins.
UsageRefreshed ==
  \E r \in Runs, a \in UsageAgents : \E paths \in Asked[a] : Usage!Refresh(r, a, paths)

\* The fairness of each feed's own specification.
FeedsSpec ==
  /\ FeedsInit /\ [][FeedsNext]_feedsVars
  /\ \A r \in Runs :
       /\ WF_feedsVars(OfPlatform(Progress(r)) \/ OfBans(Bans!Leave(r))
                         \/ OfUsage(Usage!Proceed(r)))
       /\ SF_feedsVars(OfDirectory(Local!Fetch(r)) \/ OfBans(Bans!Proceeds(r))
                         \/ OfUsage(UsageRefreshed))
  /\ \A w \in Workers : WF_feedsVars(OfUsage(Usage!Take(w) \/ Usage!Proceed(w)))
  /\ WF_feedsVars(OfUsage(Usage!Tick))

-----------------------------------------------------------------------------
(* What the modules promise; each says there what it is about.             *)

\* No edit is hidden: a fetch answers with what was served while it was asking, and
\* a bundle directory is served build by build - no bundle is put together from
\* two, and none hides behind the mtime another one is cached under.
EditsAreServed ==
  /\ FetchHidesNoEdit
  /\ feed = "directory" => Local!OneBuildAtATime /\ Local!CacheHidesNoBuild

\* What a source was ever told of a ban binds until the ban is lifted, and a
\* lifted ban refuses nobody whose fetch succeeds.
BansBind == Bans!KillSwitch /\ Bans!LiftedBansLetPass

\* Fetches of one scope keep their distance.
SpacedAttempts == Usage!SpacedAttempts

\* Every feed catches up: what is served in the end is enforced in the end, a
\* ban that stays takes hold for good, and a snapshot that is old is replaced
\* once the platform answers for good.
FeedsCatchUp ==
  /\ Converges
  /\ Bans!BansTakeHold
  /\ feed = "usage" => Usage!Heals
=============================================================================
