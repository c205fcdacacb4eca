----------------------------- MODULE FeedsProofs -----------------------------
(* Theorems about the feeds of a run boundary, for any number of concurrent    *)
(* boundaries, of saves, builds and ban edits, and of failed or forged answers. *)
(* The first part is about PolicyRefresh alone; the others are about the feeds  *)
(* together, each behaviour of which is one of each of its parts.               *)
EXTENDS MCFeeds, Sequences, FiniteSetTheorems, TLAPS

\* An engine that may be enforced.
Verified(e) == /\ e \in Engines /\ e.content \in Contents
               /\ source.strict => e.kind = "bundle"

\* Every engine the SDK holds, in force, cached or about to be installed.
Held == /\ Verified(enforcer) /\ Verified(source.engine)
        /\ \A r \in Runs : Verified(run[r].result)

\* Whoever is between its request and the return of its fetch has the lock.
Locked == \A r \in Runs : run[r].pc \in {"asked", "storing"} <=> source.lock = r

Same(e, f) == e.kind = f.kind /\ e.content = f.content

\* The tags are those of the cached engine, except while they are being written.
Paired ==
  /\ source.etag # NoTag => source.engine.kind = "bundle" /\ source.engine.content = source.etag
  /\ source.yaml # NoTag => source.engine.kind = "yaml" /\ source.engine.content = source.yaml

\* What a run has asked with, is writing, or has fetched.
RunInv(r) ==
  /\ run[r].pc = "asked" => run[r].sent = source.etag
  /\ run[r].pc = "storing" => /\ Same(source.engine, run[r].asOf)
                              /\ run[r].tag = Etag(run[r].asOf)
  /\ run[r].pc = "fetched" => Same(run[r].result, run[r].asOf)

RefreshInv ==
  /\ TypeOK /\ Held /\ Locked
  /\ (\A r \in Runs : run[r].pc # "storing") => Paired
  /\ \A r \in Runs : RunInv(r)
  /\ platform.content \in Contents \cup {Unparseable}
  /\ platform.kind = "bundle" => platform.content \in Contents

\* Saves are numbered, and what the source caches is never newer than the last.
Numbered == source.engine.ver <= platform.ver

\* With one run at a time what is fetched is the cache, and the cache is never
\* behind what is in force.
InStep ==
  /\ enforcer.ver <= source.engine.ver
  /\ \A r \in Runs : run[r].pc = "fetched" => run[r].result.ver = source.engine.ver

USE DEF PCs

\* A policy that the platform can serve passes for none of the marks.
LEMMA MarksApart ==
  /\ NoTag \notin Contents \cup Wasms \cup {Unparseable}
  /\ Unparseable \notin Contents /\ Forged \notin Contents
BY RefreshAssumption

LEMMA EtagTyped ==
  ASSUME NEW e \in Engines, e.kind = "bundle" => e.content \in Contents
  PROVE  Etag(e) \in Tags /\ (Etag(e) # NoTag => e.kind = "bundle" /\ e.content = Etag(e))
BY DEF Etag, Tags

LEMMA ResponseTyped ==
  ASSUME platform \in Engines
  PROVE  /\ Response \in Engines /\ Same(Response, platform) /\ Response.ver = platform.ver
         /\ Etag(Response) = Etag(platform)
BY DEF Response, Engines, Same, Etag

\* What every step of one run's fetch leaves to show: the cache, this run, and
\* that it alone had the lock.
LEMMA OneFetch ==
  ASSUME RefreshInv, TypeOK', NEW r \in Runs, NEW s, run' = [run EXCEPT ![r] = s],
         enforcer' \in {enforcer, run[r].result}, platform' = platform,
         source'.strict = source.strict,
         Verified(source'.engine), Verified(s.result),
         s.pc \in {"asked", "storing"} <=> source'.lock = r,
         source.lock \in {NoRun, r}, source'.lock \in {NoRun, r},
         s.pc # "storing" => Paired',
         s.pc = "asked" => s.sent = source'.etag,
         s.pc = "storing" => Same(source'.engine, s.asOf) /\ s.tag = Etag(s.asOf),
         s.pc = "fetched" => Same(s.result, s.asOf)
  PROVE  RefreshInv'
<1>1. run'[r] = s /\ \A q \in Runs : q # r => run'[q] = run[q]
  BY DEF RefreshInv, TypeOK
<1>2. \A q \in Runs : q # r => run[q].pc \notin {"asked", "storing"} /\ source'.lock # q
  BY RefreshAssumption DEF RefreshInv, Locked
<1>3. \A e : Verified(e)' <=> Verified(e)
  BY DEF Verified
<1>4. Held'
  BY <1>1, <1>3 DEF Held, RefreshInv
<1>5. Locked'
  BY <1>1, <1>2 DEF Locked, RefreshInv
<1>6. (\A q \in Runs : run'[q].pc # "storing") => Paired'
  BY <1>1
<1>7. ASSUME NEW q \in Runs PROVE RunInv(q)'
  <2>1. CASE q = r
    BY <1>1, <2>1 DEF RunInv
  <2>2. CASE q # r
    BY <1>1, <1>2, <2>2 DEF RunInv, RefreshInv
  <2>3. QED BY <2>1, <2>2
<1>8. QED BY <1>4, <1>5, <1>6, <1>7 DEF RefreshInv

LEMMA TypesOfParts ==
  ASSUME RefreshInv, NEW r \in Runs
  PROVE  /\ source \in [engine : Engines, etag : Tags, yaml : YamlHashes,
                        lock : Runs \cup {NoRun}, strict : BOOLEAN]
         /\ run[r] \in [pc : PCs, sent : Tags, tag : Tags, asOf : Engines, result : Engines]
         /\ run \in [Runs -> [pc : PCs, sent : Tags, tag : Tags, asOf : Engines,
                              result : Engines]]
         /\ platform \in Engines /\ enforcer \in Engines
         /\ Verified(source.engine) /\ Verified(run[r].result) /\ Verified(enforcer)
         /\ RunInv(r)
         /\ run[r].pc \in {"asked", "storing"} <=> source.lock = r
         /\ \A q \in Runs : q # r /\ source.lock = r => run[q].pc \notin {"asked", "storing"}
         /\ source.lock = r /\ run[r].pc # "storing" => Paired
         /\ source.lock = NoRun => Paired
<1>1. \A q \in Runs : q # r /\ source.lock = r => run[q].pc \notin {"asked", "storing"}
  BY DEF RefreshInv, Locked
<1>2. source.lock = r /\ run[r].pc # "storing" => Paired
  BY <1>1 DEF RefreshInv
<1>3. source.lock = NoRun => Paired
  BY RefreshAssumption DEF RefreshInv, Locked
<1>4. QED BY <1>1, <1>2, <1>3 DEF RefreshInv, TypeOK, Held, Locked

LEMMA AskKeeps ==
  ASSUME RefreshInv, NEW r \in Runs, Ask(r) PROVE RefreshInv'
<1>0. PICK s : s = [run[r] EXCEPT !.pc = "asked", !.sent = source.etag]
  OBVIOUS
<1>1. /\ source' = [source EXCEPT !.lock = r] /\ run' = [run EXCEPT ![r] = s]
      /\ source.lock = NoRun /\ Paired
  BY <1>0, TypesOfParts DEF Ask
<1>2. /\ s \in [pc : PCs, sent : Tags, tag : Tags, asOf : Engines, result : Engines]
      /\ s.pc = "asked" /\ s.sent = source.etag /\ s.result = run[r].result
      /\ source' \in [engine : Engines, etag : Tags, yaml : YamlHashes,
                      lock : Runs \cup {NoRun}, strict : BOOLEAN]
      /\ source'.lock = r /\ source'.engine = source.engine /\ source'.etag = source.etag
      /\ source'.yaml = source.yaml /\ source'.strict = source.strict
  BY <1>0, <1>1, TypesOfParts
<1>3. TypeOK' /\ platform' = platform /\ enforcer' = enforcer
  BY <1>0, <1>1, <1>2 DEF Ask, RefreshInv, TypeOK
<1>4. Paired'
  BY <1>1, <1>2 DEF Paired
<1>5. Verified(source'.engine) /\ Verified(s.result)
  BY <1>2, TypesOfParts
<1>6. QED BY <1>1, <1>2, <1>3, <1>4, <1>5, OneFetch

\* A fetch that returns an engine of the cache.
LEMMA ReturnsKeeps ==
  ASSUME RefreshInv, NEW r \in Runs, run[r].pc = "asked", NEW src, Returns(r, src, source.engine),
         src = source \/ src = [source EXCEPT !.etag = NoTag],
         Same(source.engine, platform), UNCHANGED <<platform, enforcer, faults>>
  PROVE  RefreshInv'
<1>0. PICK s : s = [run[r] EXCEPT !.pc = "fetched", !.asOf = Response, !.result = source.engine]
  OBVIOUS
<1>1. source' = [src EXCEPT !.lock = NoRun] /\ run' = [run EXCEPT ![r] = s]
  BY <1>0, TypesOfParts DEF Returns
<1>2. Response \in Engines /\ Same(Response, platform)
  BY <1>0, ResponseTyped, TypesOfParts
<1>3. /\ s \in [pc : PCs, sent : Tags, tag : Tags, asOf : Engines, result : Engines]
      /\ s.pc = "fetched" /\ s.asOf = Response /\ s.result = source.engine
  <2>1. /\ run[r] \in [pc : PCs, sent : Tags, tag : Tags, asOf : Engines, result : Engines]
        /\ source.engine \in Engines
    BY TypesOfParts
  <2>2. QED BY <1>0, <1>2, <2>1
<1>4. /\ source' \in [engine : Engines, etag : Tags, yaml : YamlHashes,
                      lock : Runs \cup {NoRun}, strict : BOOLEAN]
      /\ source'.lock = NoRun /\ source'.engine = source.engine
      /\ source'.etag \in {source.etag, NoTag}
      /\ source'.yaml = source.yaml /\ source'.strict = source.strict
  BY <1>1, TypesOfParts DEF Tags
<1>5. TypeOK'
  BY <1>1, <1>3, <1>4 DEF RefreshInv, TypeOK
<1>6. Paired'
  BY <1>4, TypesOfParts DEF Paired
<1>7. Same(s.result, s.asOf)
  BY <1>2, <1>3 DEF Same
<1>8. source.lock = r /\ r # NoRun
  BY TypesOfParts, RefreshAssumption
<1>9. QED BY <1>1, <1>3, <1>4, <1>5, <1>6, <1>7, <1>8, TypesOfParts, OneFetch

\* A fetch that raises.
LEMMA RaisesKeeps ==
  ASSUME RefreshInv, NEW r \in Runs, Raises(r), faults' \in 0..MaxFaults
  PROVE  RefreshInv'
<1>0. PICK s : s = [run[r] EXCEPT !.pc = "idle"]
  OBVIOUS
<1>1. source' = [source EXCEPT !.lock = NoRun] /\ run' = [run EXCEPT ![r] = s]
      /\ platform' = platform /\ enforcer' = enforcer /\ run[r].pc = "asked"
  BY <1>0, TypesOfParts DEF Raises
<1>2. /\ s \in [pc : PCs, sent : Tags, tag : Tags, asOf : Engines, result : Engines]
      /\ s.pc = "idle" /\ s.result = run[r].result
      /\ source' \in [engine : Engines, etag : Tags, yaml : YamlHashes,
                      lock : Runs \cup {NoRun}, strict : BOOLEAN]
      /\ source'.lock = NoRun /\ source'.engine = source.engine /\ source'.etag = source.etag
      /\ source'.yaml = source.yaml /\ source'.strict = source.strict
  BY <1>0, <1>1, TypesOfParts
<1>3. TypeOK'
  BY <1>0, <1>1, <1>2 DEF RefreshInv, TypeOK
<1>4. Paired' /\ source.lock = r /\ r # NoRun
  BY <1>1, <1>2, TypesOfParts, RefreshAssumption DEF Paired
<1>5. QED BY <1>1, <1>2, <1>3, <1>4, TypesOfParts, OneFetch

\* A response that goes into the cache.
LEMMA WritesKeeps ==
  ASSUME RefreshInv, NEW r \in Runs, run[r].pc = "asked",
         Writes(r, Response, Etag(platform)), Verified(Response),
         UNCHANGED <<platform, enforcer, faults>>
  PROVE  RefreshInv'
<1>0. PICK s : s = [run[r] EXCEPT !.pc = "storing", !.tag = Etag(platform), !.asOf = Response]
  OBVIOUS
<1>1. source' = [source EXCEPT !.engine = Response] /\ run' = [run EXCEPT ![r] = s]
  BY <1>0, TypesOfParts DEF Writes
<1>2. Response \in Engines /\ Etag(platform) = Etag(Response) /\ Etag(platform) \in Tags
  BY <1>0, ResponseTyped, EtagTyped, TypesOfParts DEF RefreshInv
<1>3. /\ s \in [pc : PCs, sent : Tags, tag : Tags, asOf : Engines, result : Engines]
      /\ s.pc = "storing" /\ s.asOf = Response /\ s.result = run[r].result
      /\ s.tag = Etag(s.asOf)
  BY <1>0, <1>2, TypesOfParts
<1>4. /\ source' \in [engine : Engines, etag : Tags, yaml : YamlHashes,
                      lock : Runs \cup {NoRun}, strict : BOOLEAN]
      /\ source'.lock = source.lock /\ source'.engine = Response
      /\ source'.strict = source.strict
  BY <1>1, <1>2, TypesOfParts
<1>5. TypeOK'
  BY <1>1, <1>3, <1>4 DEF RefreshInv, TypeOK
<1>6. source.lock = r
  BY TypesOfParts
<1>7. Same(source'.engine, s.asOf)
  BY <1>3, <1>4 DEF Same
<1>8. Verified(source'.engine) /\ Verified(s.result)
  BY <1>3, <1>4, TypesOfParts
<1>9. QED BY <1>1, <1>3, <1>4, <1>5, <1>6, <1>7, <1>8, OneFetch

LEMMA StoresKeeps ==
  ASSUME RefreshInv, NEW r \in Runs, Stores(r) PROVE RefreshInv'
<1>0. PICK s : s = [run[r] EXCEPT !.pc = "fetched", !.result = source.engine]
  OBVIOUS
<1>1. /\ run' = [run EXCEPT ![r] = s] /\ run[r].pc = "storing"
      /\ source' = [source EXCEPT !.etag = run[r].tag, !.lock = NoRun,
                                  !.yaml = IF run[r].asOf.kind = "yaml"
                                           THEN run[r].asOf.content ELSE NoTag]
      /\ platform' = platform /\ enforcer' = enforcer /\ faults' = faults
  BY <1>0, TypesOfParts DEF Stores
<1>2. /\ Same(source.engine, run[r].asOf) /\ run[r].tag = Etag(run[r].asOf)
      /\ run[r].tag \in Tags /\ run[r].asOf.kind \in {"bundle", "yaml"}
      /\ source.engine.content \in Contents
  BY <1>0, <1>1, TypesOfParts DEF RunInv, Verified, Engines
<1>3. /\ s \in [pc : PCs, sent : Tags, tag : Tags, asOf : Engines, result : Engines]
      /\ s.pc = "fetched" /\ s.asOf = run[r].asOf /\ s.result = source.engine
  <2>1. /\ run[r] \in [pc : PCs, sent : Tags, tag : Tags, asOf : Engines, result : Engines]
        /\ source.engine \in Engines
    BY TypesOfParts
  <2>2. QED BY <1>0, <2>1
<1>4. /\ source' \in [engine : Engines, etag : Tags, yaml : YamlHashes,
                      lock : Runs \cup {NoRun}, strict : BOOLEAN]
      /\ source'.lock = NoRun /\ source'.engine = source.engine
      /\ source'.etag = run[r].tag
      /\ source'.yaml = (IF run[r].asOf.kind = "yaml" THEN run[r].asOf.content ELSE NoTag)
      /\ source'.strict = source.strict
  BY <1>1, <1>2, TypesOfParts DEF Same, YamlHashes
<1>5. TypeOK'
  BY <1>1, <1>3, <1>4 DEF RefreshInv, TypeOK
<1>6. Paired'
  BY <1>2, <1>4 DEF Paired, Same, Etag
<1>7. Same(s.result, s.asOf)
  BY <1>2, <1>3 DEF Same
<1>8. source.lock = r /\ r # NoRun
  BY <1>1, TypesOfParts, RefreshAssumption
<1>9. QED BY <1>1, <1>3, <1>4, <1>5, <1>6, <1>7, <1>8, TypesOfParts, OneFetch

\* The installation needs no lock: it can be the engine of an older fetch, but
\* never one that did not verify.
LEMMA InstallsKeeps ==
  ASSUME RefreshInv, NEW r \in Runs, Installs(r) PROVE RefreshInv'
<1>0. PICK s : s = [run[r] EXCEPT !.pc = "idle"]
  OBVIOUS
<1>1. run' = [run EXCEPT ![r] = s] /\ run[r].pc = "fetched" /\ enforcer' = run[r].result
      /\ platform' = platform /\ source' = source /\ faults' = faults
  BY <1>0, TypesOfParts DEF Installs
<1>2. /\ s \in [pc : PCs, sent : Tags, tag : Tags, asOf : Engines, result : Engines]
      /\ s.pc = "idle" /\ s.result = run[r].result
  BY <1>0, TypesOfParts
<1>3. TypeOK'
  BY <1>0, <1>1, <1>2, TypesOfParts DEF RefreshInv, TypeOK
<1>4. run'[r] = s /\ \A q \in Runs : q # r => run'[q] = run[q]
  BY <1>1, TypesOfParts
<1>5. \A e : Verified(e)' <=> Verified(e)
  BY <1>1 DEF Verified
<1>6. Held'
  BY <1>1, <1>2, <1>4, <1>5, TypesOfParts DEF RefreshInv, Held
<1>7. Locked'
  BY <1>1, <1>2, <1>4 DEF RefreshInv, Locked
<1>8. (\A q \in Runs : run'[q].pc # "storing") => Paired'
  BY <1>1, <1>4 DEF RefreshInv, Paired
<1>9. \A q \in Runs : RunInv(q)'
  BY <1>1, <1>2, <1>4 DEF RefreshInv, RunInv
<1>10. QED BY <1>1, <1>3, <1>6, <1>7, <1>8, <1>9 DEF RefreshInv

LEMMA RefreshNext == RefreshInv /\ [Next]_vars => RefreshInv'
<1> SUFFICES ASSUME RefreshInv, [Next]_vars PROVE RefreshInv'
  OBVIOUS
<1>1. CASE Save
  <2>1. PICK s \in Served :
          platform' = [kind |-> s.kind, content |-> s.content, ver |-> platform.ver + 1]
    BY <1>1 DEF Save
  <2>2. /\ s.kind \in {"bundle", "yaml"} /\ s.content \in Contents \cup {Unparseable}
        /\ s.kind = "bundle" => s.content \in Contents
    BY DEF Served
  <2>3. platform.ver + 1 \in Nat
    BY DEF RefreshInv, TypeOK, Engines
  <2>4. platform' \in Engines
    BY <2>1, <2>2, <2>3 DEF Engines
  <2>5. \A e : Verified(e)' <=> Verified(e)
    BY <1>1 DEF Save, Verified
  <2>6. UNCHANGED <<source, enforcer, run, faults>>
    BY <1>1 DEF Save
  <2>7. Held' /\ Locked' /\ (Paired <=> Paired') /\ \A q \in Runs : RunInv(q)'
    BY <2>5, <2>6 DEF RefreshInv, Held, Locked, Paired, RunInv
  <2>8. QED BY <2>1, <2>2, <2>4, <2>6, <2>7 DEF RefreshInv, TypeOK
<1>2. ASSUME NEW r \in Runs, AnsweredNotModified(r) PROVE RefreshInv'
  <2>1. run[r].sent = source.etag /\ Paired
    BY <1>2, TypesOfParts DEF AnsweredNotModified, RunInv
  <2>2. Same(source.engine, platform)
    BY <1>2, <2>1 DEF AnsweredNotModified, Paired, Same, Etag
  <2>3. QED BY <1>2, <2>2, ReturnsKeeps DEF AnsweredNotModified
<1>3. ASSUME NEW r \in Runs, AnsweredSameYaml(r) PROVE RefreshInv'
  <2>1. Paired /\ platform.content \in Contents \cup {Unparseable}
    BY <1>3, TypesOfParts DEF AnsweredSameYaml, RefreshInv
  <2>2. source.yaml # NoTag
    BY <1>3, <2>1, MarksApart DEF AnsweredSameYaml
  <2>3. Same(source.engine, platform)
    BY <1>3, <2>1, <2>2 DEF AnsweredSameYaml, Paired, Same
  <2>4. QED BY <1>3, <2>3, ReturnsKeeps DEF AnsweredSameYaml
<1>4. ASSUME NEW r \in Runs, AnsweredBundle(r) PROVE RefreshInv'
  <2>1. Verified(Response)
    BY <1>4, ResponseTyped, TypesOfParts DEF AnsweredBundle, RefreshInv, Verified, Response
  <2>2. QED BY <1>4, <2>1, WritesKeeps DEF AnsweredBundle
<1>5. ASSUME NEW r \in Runs, AnsweredNewYaml(r) PROVE RefreshInv'
  <2>1. Verified(Response)
    BY <1>5, ResponseTyped, TypesOfParts
       DEF AnsweredNewYaml, YamlAllowed, RefreshInv, Verified, Response
  <2>2. Etag(platform) = NoTag
    BY <1>5 DEF AnsweredNewYaml, Etag
  <2>3. QED BY <1>5, <2>1, <2>2, WritesKeeps DEF AnsweredNewYaml
<1>6. ASSUME NEW r \in Runs, Fails(r) \/ AnsweredForged(r) \/ AnsweredRefused(r) PROVE RefreshInv'
  <2>1. Raises(r) /\ faults' \in 0..MaxFaults
    BY <1>6, RefreshAssumption DEF Fails, AnsweredForged, AnsweredRefused, RefreshInv, TypeOK
  <2>2. QED BY <2>1, RaisesKeeps
<1>7. CASE UNCHANGED vars
  BY <1>7 DEF vars, RefreshInv, TypeOK, Held, Locked, Paired, RunInv, Verified
<1>8. QED BY <1>1, <1>2, <1>3, <1>4, <1>5, <1>6, <1>7, AskKeeps, StoresKeeps, InstallsKeeps
          DEF Next, Progress

LEMMA RefreshInvariant == Spec => []RefreshInv
<1>1. Init => RefreshInv
  <2> SUFFICES ASSUME Init PROVE RefreshInv
    OBVIOUS
  <2>1. PICK s \in Served, strict \in BOOLEAN :
          /\ s.content # Unparseable /\ (strict => s.kind = "bundle")
          /\ platform = [kind |-> s.kind, content |-> s.content, ver |-> 0]
          /\ enforcer = platform
          /\ source = [engine |-> enforcer, etag |-> Etag(platform),
                       yaml |-> IF s.kind = "yaml" THEN s.content ELSE NoTag,
                       lock |-> NoRun, strict |-> strict]
          /\ run = [r \in Runs |-> [pc |-> "idle", sent |-> NoTag, tag |-> NoTag,
                                    asOf |-> platform, result |-> enforcer]]
          /\ faults = 0
    BY DEF Init
  <2>2. s.kind \in {"bundle", "yaml"} /\ s.content \in Contents
    BY <2>1 DEF Served
  <2>3. platform \in Engines /\ enforcer \in Engines
    BY <2>1, <2>2 DEF Engines
  <2>4. Etag(platform) \in Tags /\ NoTag \in Tags
    BY <2>1, <2>2 DEF Etag, Tags
  <2>5. TypeOK
    BY <2>1, <2>2, <2>3, <2>4, RefreshAssumption DEF TypeOK, YamlHashes
  <2>6. Held
    BY <2>1, <2>2, <2>3 DEF Held, Verified
  <2>7. Locked /\ \A r \in Runs : RunInv(r)
    BY <2>1, RefreshAssumption DEF Locked, RunInv
  <2>8. Paired
    BY <2>1, <2>2 DEF Paired, Etag
  <2>9. QED BY <2>1, <2>2, <2>5, <2>6, <2>7, <2>8 DEF RefreshInv
<1>2. QED BY <1>1, RefreshNext, PTL DEF Spec

\* Whatever the platform serves, loses or forges and however refreshes overlap,
\* no policy is enforced that was not served and verified, and in strict mode
\* none that is not a signed bundle.
THEOREM NothingUnverifiedInForce == Spec => []OnlyVerifiedEnforced
<1>1. RefreshInv => OnlyVerifiedEnforced
  BY DEF RefreshInv, Held, Verified, OnlyVerifiedEnforced
<1>2. QED BY <1>1, RefreshInvariant, PTL

\* A 304, an unchanged yaml and a fresh response alike: what a fetch returns is
\* what the platform served when it answered, and the cache never holds the
\* engine of one response with the tags of another.
THEOREM FetchesAreCurrent == Spec => [](FetchHidesNoEdit /\ TagsPairEngine)
<1>1. RefreshInv => FetchHidesNoEdit
  BY DEF RefreshInv, RunInv, Same, FetchHidesNoEdit
<1>2. RefreshInv => TagsPairEngine
  <2> SUFFICES ASSUME RefreshInv, source.lock = NoRun PROVE Paired
    BY DEF TagsPairEngine, Paired
  <2>1. QED BY RefreshAssumption DEF RefreshInv, Locked
<1>3. QED BY <1>1, <1>2, RefreshInvariant, PTL

-----------------------------------------------------------------------------
(* Where a policy in force can be replaced by an older one.                *)

LEMMA NumberedNext == RefreshInv /\ Numbered /\ [Next]_vars =>
                        Numbered' /\ source'.engine.ver >= source.engine.ver
<1> SUFFICES ASSUME RefreshInv, Numbered, [Next]_vars
             PROVE  Numbered' /\ source'.engine.ver >= source.engine.ver
  OBVIOUS
<1>1. /\ source \in [engine : Engines, etag : Tags, yaml : YamlHashes,
                     lock : Runs \cup {NoRun}, strict : BOOLEAN]
      /\ source.engine.ver \in Nat /\ platform.ver \in Nat /\ source.engine.ver <= platform.ver
  BY DEF RefreshInv, TypeOK, Engines, Numbered
<1>2. platform'.ver >= platform.ver
  <2>1. CASE Save
    BY <1>1, <2>1 DEF Save
  <2>2. CASE platform' = platform
    BY <1>1, <2>2
  <2>3. Save \/ platform' = platform
    <3>1. ASSUME NEW r \in Runs,
                 \/ Ask(r) \/ AnsweredNotModified(r) \/ AnsweredBundle(r)
                 \/ AnsweredSameYaml(r) \/ AnsweredNewYaml(r) \/ Stores(r) \/ Installs(r)
          PROVE  platform' = platform
      BY <3>1 DEF Ask, AnsweredNotModified, AnsweredBundle, AnsweredSameYaml, AnsweredNewYaml,
         Stores, Installs
    <3>2. ASSUME NEW r \in Runs, Fails(r) \/ AnsweredForged(r) \/ AnsweredRefused(r)
          PROVE  platform' = platform
      BY <3>2 DEF Fails, AnsweredForged, AnsweredRefused, Raises
    <3>3. QED BY <3>1, <3>2 DEF Next, vars, Progress
  <2>4. QED BY <2>1, <2>2, <2>3
<1>3. \/ source'.engine = source.engine
      \/ source'.engine.ver = platform.ver /\ platform' = platform
  <2>1. ASSUME NEW r \in Runs, AnsweredBundle(r) \/ AnsweredNewYaml(r)
        PROVE  source'.engine.ver = platform.ver /\ platform' = platform
    BY <1>1, <2>1 DEF AnsweredBundle, AnsweredNewYaml, Writes, Response
  <2>2. ASSUME NEW r \in Runs, AnsweredNotModified(r) \/ AnsweredSameYaml(r)
        PROVE  source'.engine = source.engine
    BY <1>1, <2>2 DEF AnsweredNotModified, AnsweredSameYaml, Returns
  <2>3. ASSUME NEW r \in Runs, Ask(r) \/ Stores(r) \/ Installs(r)
        PROVE  source'.engine = source.engine
    BY <1>1, <2>3 DEF Ask, Stores, Installs
  <2>4. ASSUME NEW r \in Runs, Fails(r) \/ AnsweredForged(r) \/ AnsweredRefused(r)
        PROVE  source'.engine = source.engine
    BY <1>1, <2>4 DEF Fails, AnsweredForged, AnsweredRefused, Raises
  <2>5. QED BY <2>1, <2>2, <2>3, <2>4 DEF Next, Save, vars, Progress
<1>4. platform'.ver \in Nat
  <2>1. platform' \in Engines
    BY RefreshNext DEF RefreshInv, TypeOK
  <2>2. QED BY <2>1 DEF Engines
<1>5. QED BY <1>1, <1>2, <1>3, <1>4 DEF Numbered

\* The cache itself never goes back, whoever refreshes.
THEOREM CacheNeverRegresses == Spec => [][source'.engine.ver >= source.engine.ver]_vars
<1>1. Init => Numbered
  BY DEF Init, Numbered
<1>2. RefreshInv /\ Numbered /\ [Next]_vars => [source'.engine.ver >= source.engine.ver]_vars
  BY NumberedNext
<1>3. QED BY <1>1, <1>2, NumberedNext, RefreshInvariant, PTL DEF Spec

One == \A r, q \in Runs : r = q

LEMMA InStepNext ==
  ASSUME One, RefreshInv, RefreshInv', Numbered, InStep, [Next]_vars
  PROVE  InStep' /\ enforcer'.ver >= enforcer.ver
<1>1. /\ source.engine.ver \in Nat /\ source'.engine.ver \in Nat /\ enforcer.ver \in Nat
      /\ source'.engine.ver >= source.engine.ver
  <2>1. source.engine \in Engines /\ source'.engine \in Engines /\ enforcer \in Engines
    BY DEF RefreshInv, TypeOK
  <2>2. QED BY <2>1, NumberedNext DEF Engines
<1>2. source \in [engine : Engines, etag : Tags, yaml : YamlHashes,
                  lock : Runs \cup {NoRun}, strict : BOOLEAN]
      /\ run \in [Runs -> [pc : PCs, sent : Tags, tag : Tags, asOf : Engines, result : Engines]]
  BY DEF RefreshInv, TypeOK
<1>3. ASSUME NEW r \in Runs, run'[r].pc # "fetched", enforcer' = enforcer
      PROVE  InStep' /\ enforcer'.ver >= enforcer.ver
  BY <1>1, <1>3 DEF InStep, One
<1>4. ASSUME NEW r \in Runs, run'[r].result = source.engine, source'.engine = source.engine,
             enforcer' = enforcer
      PROVE  InStep' /\ enforcer'.ver >= enforcer.ver
  BY <1>1, <1>4 DEF InStep, One
<1>5. ASSUME NEW r \in Runs,
             Ask(r) \/ Fails(r) \/ AnsweredForged(r) \/ AnsweredRefused(r)
             \/ AnsweredBundle(r) \/ AnsweredNewYaml(r)
      PROVE  run'[r].pc # "fetched" /\ enforcer' = enforcer
  <2>1. CASE Ask(r)
    BY <1>2, <2>1 DEF Ask
  <2>2. CASE Fails(r) \/ AnsweredForged(r) \/ AnsweredRefused(r)
    BY <1>2, <2>2 DEF Fails, AnsweredForged, AnsweredRefused, Raises
  <2>3. CASE AnsweredBundle(r) \/ AnsweredNewYaml(r)
    BY <1>2, <2>3 DEF AnsweredBundle, AnsweredNewYaml, Writes
  <2>4. QED BY <1>5, <2>1, <2>2, <2>3
<1>6. ASSUME NEW r \in Runs, AnsweredNotModified(r) \/ AnsweredSameYaml(r) \/ Stores(r)
      PROVE  /\ run'[r].result = source.engine /\ source'.engine = source.engine
             /\ enforcer' = enforcer
  <2>1. CASE AnsweredNotModified(r) \/ AnsweredSameYaml(r)
    <3>1. PICK src : /\ src = source \/ src = [source EXCEPT !.etag = NoTag]
                     /\ Returns(r, src, source.engine) /\ enforcer' = enforcer
      BY <2>1 DEF AnsweredNotModified, AnsweredSameYaml
    <3>2. src.engine = source.engine /\ source' = [src EXCEPT !.lock = NoRun]
      BY <1>2, <3>1 DEF Returns
    <3>3. source'.engine = src.engine
      BY <1>2, <3>1, <3>2
    <3>4. run'[r].result = source.engine
      BY <1>2, <3>1 DEF Returns
    <3>5. QED BY <3>1, <3>2, <3>3, <3>4
  <2>2. CASE Stores(r)
    BY <1>2, <2>2 DEF Stores
  <2>3. QED BY <1>6, <2>1, <2>2
<1>7. ASSUME NEW r \in Runs, Installs(r) PROVE InStep' /\ enforcer'.ver >= enforcer.ver
  <2>1. enforcer'.ver = source.engine.ver /\ source' = source /\ run'[r].pc = "idle"
    <3>1. run[r].result.ver = source.engine.ver
      BY <1>7 DEF Installs, InStep
    <3>2. QED BY <1>2, <1>7, <3>1 DEF Installs
  <2>2. \A q \in Runs : run'[q].pc # "fetched"
    BY <2>1 DEF One
  <2>3. enforcer.ver <= source.engine.ver
    BY DEF InStep
  <2>4. QED BY <1>1, <2>1, <2>2, <2>3 DEF InStep
<1>8. CASE Save \/ UNCHANGED vars
  BY <1>1, <1>8 DEF Save, vars, InStep
<1>9. QED BY <1>3, <1>4, <1>5, <1>6, <1>7, <1>8 DEF Next, Progress

\* Where one run is refreshed at a time the policy in force never goes back to
\* an older save: what is found of several runs comes of their overlap alone.
THEOREM OneRunNeverRegresses ==
  (\A r, q \in Runs : r = q) => (Spec => EnforcerNeverRegresses)
<1> SUFFICES ASSUME One PROVE Spec => EnforcerNeverRegresses
  BY DEF One
<1>1. Init => Numbered /\ InStep
  BY DEF Init, Numbered, InStep
<1>2. RefreshInv /\ RefreshInv' /\ Numbered /\ InStep /\ [Next]_vars
        => Numbered' /\ InStep' /\ [enforcer'.ver >= enforcer.ver]_vars
  BY NumberedNext, InStepNext
<1>3. QED BY <1>1, <1>2, RefreshInvariant, PTL DEF Spec, EnforcerNeverRegresses

-----------------------------------------------------------------------------
(* The bundle directory: builds only grow, and what is read between two reads  *)
(* of the manifest's mtime is no older than the first.                         *)

ThreadRec ==
  [pc : Local!PCs, mtime : Local!Builds, read : Local!Files, got : Local!Files]

LocalTypes ==
  /\ dir \in Local!Files
  /\ cache \in [bundle : Local!Files, mtime : Local!Builds, lock : Runs \cup {Nobody}]
  /\ thread \in [Runs -> ThreadRec]
  /\ good \subseteq Local!Builds

\* The mtime a bundle goes under is no later than its manifest, nor is that than the disk.
Follows(mtime, manifest) == mtime <= manifest /\ manifest <= dir.manifest

Reader(t) ==
  /\ thread[t].pc = "stated" => thread[t].mtime <= dir.manifest
  /\ thread[t].pc \in {"reading", "verifying"} => Follows(thread[t].mtime, thread[t].read.manifest)

LocalInv ==
  /\ LocalTypes
  /\ Local!Verifies(cache.bundle) /\ Follows(cache.mtime, cache.bundle.manifest)
  /\ \A t \in Runs : Reader(t) /\ Local!Verifies(thread[t].got)

LEMMA LocalStart == Local!Init => LocalInv
<1>. SUFFICES ASSUME Local!Init PROVE LocalInv OBVIOUS
<1>1. 0 \in Local!Builds
  BY FeedsAssumption DEF Local!LocalAssumption, Local!Builds
<1>2. dir \in Local!Files /\ dir.wasm = 0 /\ dir.manifest = 0 /\ dir.sig = 0
  BY <1>1 DEF Local!Init, Local!Files
<1>3. LocalTypes
  BY <1>1, <1>2 DEF Local!Init, LocalTypes, ThreadRec, Local!PCs
<1>4. Local!Verifies(dir)
  BY <1>2 DEF Local!Init, Local!Verifies
<1>5. QED BY <1>2, <1>3, <1>4 DEF Local!Init, LocalInv, Reader, Follows

LEMMA LocalTypesStep == LocalInv /\ Local!Next => LocalTypes'
<1>. SUFFICES ASSUME LocalInv, Local!Next PROVE LocalTypes' OBVIOUS
<1>0. LocalTypes /\ MaxBuilds \in Nat
  BY FeedsAssumption DEF LocalInv, Local!LocalAssumption
<1>. USE DEF LocalTypes
<1>1. ASSUME Local!Build
      PROVE  LocalTypes'
  BY <1>0, <1>1
     DEF Local!Build, Local!BuildWasm, Local!BuildManifest, Local!BuildSignature,
         Local!Builds, Local!Files
<1>2. ASSUME NEW t \in Runs, NEW x \in ThreadRec, x = thread[t],
             Local!Stat(t) \/ Local!Hit(t)
      PROVE  LocalTypes'
  <2>1. PICK y : /\ thread' = [thread EXCEPT ![t] = y]
                 /\ \/ y = [x EXCEPT !.pc = "stated", !.mtime = dir.manifest]
                    \/ y = [x EXCEPT !.pc = "idle", !.got = cache.bundle]
    BY <1>0, <1>2 DEF Local!Stat, Local!Hit
  <2>2. dir.manifest \in Local!Builds /\ cache.bundle \in Local!Files
    BY <1>0 DEF Local!Files
  <2>3. y \in ThreadRec
    BY <2>1, <2>2 DEF ThreadRec, Local!PCs
  <2>4. QED BY <1>0, <1>2, <2>1, <2>3 DEF Local!Stat, Local!Hit
<1>3. ASSUME NEW t \in Runs, NEW x \in ThreadRec, x = thread[t],
             Local!Miss(t) \/ Local!ReadRest(t)
      PROVE  LocalTypes'
  <2>0. PICK f : f = x.read
    OBVIOUS
  <2>1. /\ f \in Local!Files
        /\ [f EXCEPT !.manifest = dir.manifest] \in Local!Files
        /\ [f EXCEPT !.sig = dir.sig, !.wasm = dir.wasm] \in Local!Files
    BY <1>0, <2>0 DEF ThreadRec, Local!Files
  <2>2. \E y \in ThreadRec : thread' = [thread EXCEPT ![t] = y]
    <3>1. CASE Local!Miss(t)
      <4>1. thread' = [thread EXCEPT ![t] = [x EXCEPT !.pc = "reading",
                                     !.read = [f EXCEPT !.manifest = dir.manifest]]]
        BY <1>0, <1>3, <2>0, <3>1 DEF Local!Miss, ThreadRec
      <4>2. QED BY <2>1, <4>1 DEF ThreadRec, Local!PCs
    <3>2. CASE Local!ReadRest(t)
      <4>1. thread' = [thread EXCEPT ![t] = [x EXCEPT !.pc = "verifying",
                                     !.read = [f EXCEPT !.sig = dir.sig, !.wasm = dir.wasm]]]
        BY <1>0, <1>3, <2>0, <3>2 DEF Local!ReadRest, ThreadRec
      <4>2. QED BY <2>1, <4>1 DEF ThreadRec, Local!PCs
    <3>3. QED BY <1>3, <3>1, <3>2
  <2>3. cache' \in [bundle : Local!Files, mtime : Local!Builds, lock : Runs \cup {Nobody}]
    BY <1>0, <1>3 DEF Local!Miss, Local!ReadRest
  <2>4. QED BY <1>0, <1>3, <2>1, <2>2, <2>3 DEF Local!Miss, Local!ReadRest
<1>4. ASSUME NEW t \in Runs, NEW x \in ThreadRec, x = thread[t],
             Local!Store(t) \/ Local!Refuse(t)
      PROVE  LocalTypes'
  <2>1. PICK y : /\ thread' = [thread EXCEPT ![t] = y]
                 /\ \/ y = [x EXCEPT !.pc = "idle", !.got = x.read]
                    \/ y = [x EXCEPT !.pc = "idle"]
    BY <1>0, <1>4 DEF Local!Store, Local!Refuse
  <2>2. y \in ThreadRec
    BY <2>1 DEF ThreadRec, Local!PCs
  <2>3. cache' \in [bundle : Local!Files, mtime : Local!Builds, lock : Runs \cup {Nobody}]
    BY <1>0, <1>4 DEF Local!Store, Local!Refuse, ThreadRec
  <2>4. QED BY <1>0, <1>4, <2>1, <2>2, <2>3 DEF Local!Store, Local!Refuse
<1>5. \A t \in Runs : thread[t] \in ThreadRec
  BY <1>0
<1>6. QED
  BY <1>1, <1>2, <1>3, <1>4, <1>5 DEF Local!Next, Local!Fetch

\* A build takes nothing back: what verified still verifies, and the disk moves on.
LEMMA BuildsGrow ==
  ASSUME LocalInv, Local!Build
  PROVE  LocalInv'
<1>0. LocalTypes /\ LocalTypes' /\ MaxBuilds \in Nat
  BY LocalTypesStep, FeedsAssumption DEF LocalInv, Local!LocalAssumption, Local!Next
<1>1. UNCHANGED <<cache, thread>> /\ good \subseteq good'
  BY DEF Local!Build, Local!BuildWasm, Local!BuildManifest, Local!BuildSignature
<1>2. /\ dir.manifest \in Nat /\ dir'.manifest \in Nat /\ dir.wasm \in Nat
      /\ dir.manifest <= dir'.manifest
  BY <1>0
     DEF Local!Build, Local!BuildWasm, Local!BuildManifest, Local!BuildSignature, LocalTypes,
         Local!Files, Local!Builds
<1>3. ASSUME NEW b, Local!Verifies(b)
      PROVE  Local!Verifies(b)'
  BY <1>1, <1>3 DEF Local!Verifies
<1>4. ASSUME NEW m \in Nat, NEW n \in Nat, Follows(m, n)
      PROVE  Follows(m, n)'
  BY <1>2, <1>4 DEF Follows
<1>5. /\ cache.mtime \in Nat /\ cache.bundle.manifest \in Nat
      /\ \A t \in Runs : thread[t].mtime \in Nat /\ thread[t].read.manifest \in Nat
  BY <1>0 DEF LocalTypes, ThreadRec, Local!Files, Local!Builds
<1>6. Local!Verifies(cache.bundle)' /\ Follows(cache.mtime, cache.bundle.manifest)'
  BY <1>1, <1>2, <1>3, <1>4, <1>5 DEF LocalInv, Local!Verifies, Follows
<1>7. ASSUME NEW t \in Runs
      PROVE  Reader(t)' /\ Local!Verifies(thread[t].got)'
  BY <1>1, <1>2, <1>3, <1>4, <1>5 DEF LocalInv, Reader, Local!Verifies, Follows
<1>8. QED BY <1>0, <1>6, <1>7 DEF LocalInv

LEMMA FetchesFollow ==
  ASSUME LocalInv, NEW t \in Runs, Local!Fetch(t)
  PROVE  LocalInv'
<1>0. LocalTypes /\ LocalTypes' /\ UNCHANGED <<dir, good>>
  BY LocalTypesStep
     DEF LocalInv, Local!Next, Local!Fetch, Local!Stat, Local!Hit, Local!Miss, Local!ReadRest,
         Local!Store, Local!Refuse
<1>1. PICK x \in ThreadRec : x = thread[t]
  BY <1>0 DEF LocalTypes
<1>2. /\ Local!Verifies(cache.bundle) /\ Follows(cache.mtime, cache.bundle.manifest)
      /\ Reader(t) /\ Local!Verifies(x.got) /\ thread \in [Runs -> ThreadRec]
      /\ dir.manifest \in Nat /\ x.mtime \in Nat /\ x.read.manifest \in Nat
  BY <1>0, <1>1, FeedsAssumption
     DEF LocalInv, LocalTypes, ThreadRec, Local!Files, Local!Builds, Local!LocalAssumption
<1>3. \A s \in Runs : s # t => thread'[s] = thread[s]
  BY <1>2
     DEF Local!Fetch, Local!Stat, Local!Hit, Local!Miss, Local!ReadRest, Local!Store,
         Local!Refuse
<1>4. \A b : Local!Verifies(b)' <=> Local!Verifies(b)
  BY <1>0 DEF Local!Verifies
<1>5. \A m, n : Follows(m, n)' <=> Follows(m, n)
  BY <1>0 DEF Follows
<1>6. SUFFICES /\ Local!Verifies(cache'.bundle) /\ Follows(cache'.mtime, cache'.bundle.manifest)
               /\ thread'[t].pc = "stated" => thread'[t].mtime <= dir.manifest
               /\ thread'[t].pc \in {"reading", "verifying"} =>
                    Follows(thread'[t].mtime, thread'[t].read.manifest)
               /\ Local!Verifies(thread'[t].got)
  <2>1. ASSUME NEW s \in Runs, s # t
        PROVE  Reader(s)' /\ Local!Verifies(thread'[s].got)
    BY <1>0, <1>3, <2>1 DEF LocalInv, Reader, Follows
  <2>2. Local!Verifies(cache.bundle)' <=> Local!Verifies(cache'.bundle)
    BY <1>0 DEF Local!Verifies
  <2>3. \A s \in Runs : Local!Verifies(thread[s].got)' <=> Local!Verifies(thread'[s].got)
    BY <1>0 DEF Local!Verifies
  <2>4. Follows(cache.mtime, cache.bundle.manifest)'
          <=> Follows(cache'.mtime, cache'.bundle.manifest)
    BY <1>0 DEF Follows
  <2>5. (Reader(t))' <=>
          /\ thread'[t].pc = "stated" => thread'[t].mtime <= dir.manifest
          /\ thread'[t].pc \in {"reading", "verifying"} =>
               Follows(thread'[t].mtime, thread'[t].read.manifest)
    BY <1>0 DEF Reader, Follows
  <2>6. QED BY <1>0, <2>1, <2>2, <2>3, <2>4, <2>5 DEF LocalInv
<1>7. CASE Local!Stat(t)
  <2>1. thread'[t] = [x EXCEPT !.pc = "stated", !.mtime = dir.manifest] /\ cache' = cache
    BY <1>1, <1>2, <1>7 DEF Local!Stat
  <2>2. QED BY <1>2, <2>1 DEF ThreadRec
<1>8. CASE Local!Hit(t)
  <2>1. thread'[t] = [x EXCEPT !.pc = "idle", !.got = cache.bundle] /\ cache' = cache
    BY <1>1, <1>2, <1>8 DEF Local!Hit
  <2>2. QED BY <1>2, <2>1 DEF ThreadRec
<1>9. CASE Local!Miss(t)
  <2>1. PICK f \in Local!Files : f = x.read
    BY DEF ThreadRec
  <2>2. /\ thread'[t] = [x EXCEPT !.pc = "reading", !.read = [f EXCEPT !.manifest = dir.manifest]]
        /\ cache' = [cache EXCEPT !.lock = t] /\ x.mtime <= dir.manifest
    BY <1>1, <1>2, <1>9, <2>1 DEF Local!Miss, ThreadRec, Reader
  <2>3. cache'.bundle = cache.bundle /\ cache'.mtime = cache.mtime
    BY <1>0, <2>2 DEF LocalTypes
  <2>4. thread'[t].mtime = x.mtime /\ thread'[t].read.manifest = dir.manifest
        /\ thread'[t].got = x.got /\ thread'[t].pc = "reading"
    BY <2>1, <2>2 DEF ThreadRec, Local!Files
  <2>5. QED BY <1>2, <2>2, <2>3, <2>4 DEF Follows
<1>10. CASE Local!ReadRest(t)
  <2>1. PICK f \in Local!Files : f = x.read
    BY DEF ThreadRec
  <2>2. /\ thread'[t] = [x EXCEPT !.pc = "verifying",
                                  !.read = [f EXCEPT !.sig = dir.sig, !.wasm = dir.wasm]]
        /\ cache' = cache /\ Follows(x.mtime, x.read.manifest)
    BY <1>1, <1>2, <1>10, <2>1 DEF Local!ReadRest, ThreadRec, Reader
  <2>3. thread'[t].mtime = x.mtime /\ thread'[t].read.manifest = x.read.manifest
        /\ thread'[t].got = x.got /\ thread'[t].pc = "verifying"
    BY <2>1, <2>2 DEF ThreadRec, Local!Files
  <2>4. QED BY <1>2, <2>2, <2>3
<1>11. CASE Local!Store(t)
  <2>1. /\ thread'[t] = [x EXCEPT !.pc = "idle", !.got = x.read]
        /\ cache' = [bundle |-> x.read, mtime |-> x.mtime, lock |-> Nobody]
        /\ Local!Verifies(x.read) /\ Follows(x.mtime, x.read.manifest)
    BY <1>1, <1>2, <1>11 DEF Local!Store, Reader
  <2>2. QED BY <1>2, <2>1 DEF ThreadRec
<1>12. CASE Local!Refuse(t)
  <2>1. thread'[t] = [x EXCEPT !.pc = "idle"] /\ cache' = [cache EXCEPT !.lock = Nobody]
    BY <1>1, <1>2, <1>12 DEF Local!Refuse
  <2>2. cache'.bundle = cache.bundle /\ cache'.mtime = cache.mtime
    BY <1>0, <2>1 DEF LocalTypes
  <2>3. QED BY <1>2, <2>1, <2>2 DEF ThreadRec
<1>13. QED BY <1>7, <1>8, <1>9, <1>10, <1>11, <1>12 DEF Local!Fetch

LEMMA LocalStep == LocalInv /\ [Local!Next]_(Local!vars) => LocalInv'
<1>1. ASSUME LocalInv, UNCHANGED Local!vars
      PROVE  LocalInv'
  BY <1>1 DEF Local!vars, LocalInv, LocalTypes, Reader, Follows, Local!Verifies
<1>2. QED BY <1>1, BuildsGrow, FetchesFollow DEF Local!Next

LEMMA LocalPart == FeedsSpec => Local!Spec
<1>1. [FeedsNext]_feedsVars => [Local!Next]_(Local!vars)
  BY DEF FeedsNext, feedsVars, localVars, Local!vars, OfPlatform, OfDirectory, OfBans, OfUsage
<1>2. FeedsInit => Local!Init
  BY DEF FeedsInit
<1>3. QED BY <1>1, <1>2, PTL DEF FeedsSpec, Local!Spec

-----------------------------------------------------------------------------
(* The kill switch: what a run is owed is active and aimed at it, and what its *)
(* source was told of stays in the set that source falls back on.              *)

BanIds == Bans!BanIds

SourceRec == [used : BOOLEAN, cached : SUBSET BanIds, etag : (SUBSET BanIds) \cup {None},
              lock : Runs \cup {None}, delivered : SUBSET BanIds]

RunRec == [pc : Bans!PCs, src : Bans!SourceIds \cup {None}, sent : (SUBSET BanIds) \cup {None},
           got : SUBSET BanIds, owed : SUBSET BanIds, lifted : SUBSET BanIds]

BansTypes ==
  /\ bans \in Seq([target : Targets, active : BOOLEAN]) /\ Len(bans) <= MaxBans
  /\ admin \in [Admins -> Targets \cup {None}]
  /\ registry \in Bans!SourceIds \cup {None}
  /\ gate \in [Agents -> Bans!SourceIds \cup {None}]
  /\ banSource \in [Bans!SourceIds -> SourceRec]
  /\ boundary \in [Runs -> RunRec]
  /\ failures \in Nat

InFlight == {"asked", "storing"}

\* Who asks or stores holds the lock of its source.
Holds(r) ==
  /\ boundary[r].pc \in {"ready", "asked", "storing"} => boundary[r].src \in Bans!SourceIds
  /\ boundary[r].pc \in InFlight => banSource[boundary[r].src].lock = r

\* A source's etag is that of its set, but for a holder that has yet to store it.
Tagged(s) ==
  LET src == banSource[s]
  IN  /\ (\A r \in Runs : boundary[r].pc = "storing" => boundary[r].src # s) =>
           src.etag \in {None, src.cached}
      /\ src.delivered \subseteq src.cached /\ src.delivered \subseteq Bans!Active

\* What a run is owed, and what it may no longer be refused for.
Owed(r) ==
  LET b == boundary[r]
  IN  /\ b.pc \in {"idle", "creating", "ready", "refused"} => b.owed = {}
      /\ b.owed \subseteq Bans!Active \cap Bans!Aims(r)
      /\ b.lifted \subseteq Bans!Revoked
      /\ b.pc = "asked" => b.sent = banSource[b.src].etag
      /\ b.pc = "storing" => /\ b.sent = banSource[b.src].cached
                             /\ b.owed \subseteq banSource[b.src].cached
                             /\ b.lifted \cap banSource[b.src].cached = {}
      /\ b.pc = "fetched" => b.owed \subseteq b.got /\ b.lifted \cap b.got = {}
      /\ b.pc = "refused" => b.got # {} /\ b.lifted \cap b.got = {}
      /\ b.pc = "admitted" => b.owed = {}

BansInv ==
  /\ BansTypes
  /\ \A r \in Runs : Holds(r) /\ Owed(r)
  /\ \A s \in Bans!SourceIds : Tagged(s)

LEMMA BansStart == Bans!Init => BansInv
<1>. SUFFICES ASSUME Bans!Init PROVE BansInv OBVIOUS
<1>0. MaxBans \in Nat
  BY FeedsAssumption DEF Bans!BansAssumption
<1>1. [used |-> FALSE, cached |-> {}, etag |-> None, lock |-> None, delivered |-> {}] \in SourceRec
  BY DEF SourceRec
<1>2. Bans!Boundary \in RunRec
  BY DEF Bans!Boundary, RunRec, Bans!PCs
<1>3. <<>> \in Seq([target : Targets, active : BOOLEAN]) /\ Len(<<>>) = 0
  OBVIOUS
<1>4. BansTypes
  BY <1>0, <1>1, <1>2, <1>3 DEF Bans!Init, BansTypes
<1>5. \A r \in Runs : /\ boundary[r].pc = "idle" /\ boundary[r].owed = {}
                      /\ boundary[r].lifted = {}
  BY DEF Bans!Init, Bans!Boundary
<1>6. \A s \in Bans!SourceIds : /\ banSource[s].etag = None /\ banSource[s].delivered = {}
                                /\ banSource[s].cached = {}
  BY DEF Bans!Init
<1>7. QED BY <1>4, <1>5, <1>6 DEF BansInv, Holds, InFlight, Owed, Tagged

LEMMA Rows ==
  ASSUME BansTypes
  PROVE  /\ DOMAIN bans = 1..Len(bans) /\ Len(bans) \in Nat /\ MaxBans \in Nat
         /\ Bans!Active \in SUBSET BanIds /\ Bans!Revoked \in SUBSET BanIds
         /\ \A r \in Runs : Bans!Aims(r) \in SUBSET BanIds
<1>1. DOMAIN bans = 1..Len(bans) /\ Len(bans) \in Nat /\ MaxBans \in Nat /\ Len(bans) <= MaxBans
  BY FeedsAssumption DEF BansTypes, Bans!BansAssumption
<1>2. DOMAIN bans \subseteq BanIds
  BY <1>1 DEF BanIds, Bans!BanIds
<1>3. QED BY <1>1, <1>2 DEF Bans!Active, Bans!Revoked, Bans!Aims

\* Rows are added and lifted, never reactivated nor aimed at somebody else.
LEMMA Inserted ==
  ASSUME BansTypes, NEW m \in Admins, Bans!InsertBan(m)
  PROVE  /\ Bans!Active \subseteq Bans!Active' /\ Bans!Revoked \subseteq Bans!Revoked'
         /\ \A r \in Runs : Bans!Aims(r) \subseteq Bans!Aims(r)'
         /\ bans' \in Seq([target : Targets, active : BOOLEAN]) /\ Len(bans') <= MaxBans
<1>1. PICK x : x = [target |-> admin[m], active |-> TRUE]
  OBVIOUS
<1>2. /\ x \in [target : Targets, active : BOOLEAN] /\ bans' = Append(bans, x)
      /\ Len(bans) < MaxBans /\ MaxBans \in Nat
  BY <1>1, FeedsAssumption DEF BansTypes, Bans!InsertBan, Bans!BansAssumption
<1>3. /\ DOMAIN bans = 1..Len(bans) /\ DOMAIN bans' = 1..Len(bans) + 1 /\ Len(bans) \in Nat
      /\ \A i \in 1..Len(bans) : bans'[i] = bans[i]
      /\ bans' \in Seq([target : Targets, active : BOOLEAN]) /\ Len(bans') = Len(bans) + 1
  BY <1>2 DEF BansTypes
<1>4. DOMAIN bans \subseteq DOMAIN bans' /\ \A i \in DOMAIN bans : bans'[i] = bans[i]
  BY <1>3
<1>5. Bans!Active \subseteq Bans!Active'
  BY <1>4 DEF Bans!Active
<1>6. Bans!Revoked \subseteq Bans!Revoked'
  BY <1>4 DEF Bans!Active, Bans!Revoked
<1>7. \A r \in Runs : Bans!Aims(r) \subseteq Bans!Aims(r)'
  BY <1>4 DEF Bans!Aims
<1>8. QED BY <1>2, <1>3, <1>5, <1>6, <1>7

LEMMA Lifted ==
  ASSUME BansTypes, NEW k \in BanIds, Bans!RevokeBan(k)
  PROVE  /\ Bans!Active' = Bans!Active \ {k} /\ Bans!Revoked' = Bans!Revoked \cup {k}
         /\ \A r \in Runs : Bans!Aims(r)' = Bans!Aims(r)
         /\ bans' \in Seq([target : Targets, active : BOOLEAN]) /\ Len(bans') <= MaxBans
<1>1. PICK x \in [target : Targets, active : BOOLEAN] : x = bans[k]
  <2>1. k \in 1..Len(bans)
    BY Rows DEF Bans!RevokeBan, Bans!Active
  <2>2. bans \in Seq([target : Targets, active : BOOLEAN])
    BY DEF BansTypes
  <2>3. bans[k] \in [target : Targets, active : BOOLEAN]
    <3>1. \A S, q : q \in Seq(S) => \A i \in 1..Len(q) : q[i] \in S
      OBVIOUS
    <3>2. QED BY <2>1, <2>2, <3>1
  <2>4. QED BY <2>3
<1>2. bans' = [bans EXCEPT ![k] = [x EXCEPT !.active = FALSE]] /\ k \in Bans!Active
  BY <1>1 DEF Bans!RevokeBan
<1>3. k \in DOMAIN bans /\ DOMAIN bans = 1..Len(bans)
  BY <1>2, Rows DEF Bans!Active
<1>4. /\ [x EXCEPT !.active = FALSE] \in [target : Targets, active : BOOLEAN]
      /\ [x EXCEPT !.active = FALSE].target = x.target
      /\ [x EXCEPT !.active = FALSE].active = FALSE
  OBVIOUS
<1>5. /\ DOMAIN bans' = DOMAIN bans /\ bans'[k].active = FALSE /\ bans'[k].target = bans[k].target
      /\ \A i \in DOMAIN bans : i # k => bans'[i] = bans[i]
  BY <1>1, <1>2, <1>3, <1>4
<1>6. bans' \in Seq([target : Targets, active : BOOLEAN]) /\ Len(bans') = Len(bans)
  BY <1>2, <1>3, <1>4 DEF BansTypes
<1>7. Bans!Active' = Bans!Active \ {k}
  BY <1>5 DEF Bans!Active
<1>8. QED BY <1>2, <1>3, <1>5, <1>6, <1>7 DEF BansTypes, Bans!Revoked, Bans!Aims

\* The platform's steps: nobody's set, lock or place changes, and what is lifted is
\* forgiven everywhere.
LEMMA PlatformStep ==
  ASSUME BansInv,
         \/ \E m \in Admins : Bans!InsertBan(m) \/ \E t \in Targets : Bans!CheckBan(m, t)
         \/ \E k \in BanIds : Bans!RevokeBan(k)
  PROVE  BansInv'
<1>0. BansTypes
  BY DEF BansInv
<1>1. ASSUME NEW m \in Admins, NEW t \in Targets, Bans!CheckBan(m, t)
      PROVE  BansInv'
  <2>1. BansTypes'
    BY <1>0, <1>1 DEF BansTypes, Bans!CheckBan, Bans!sdk
  <2>2. UNCHANGED <<bans, boundary, banSource>>
    BY <1>1 DEF Bans!CheckBan, Bans!sdk
  <2>3. ASSUME NEW r \in Runs
        PROVE  Holds(r)' /\ Owed(r)'
    BY <2>2 DEF BansInv, Holds, Owed, Bans!Active, Bans!Revoked, Bans!Aims
  <2>4. ASSUME NEW s \in Bans!SourceIds
        PROVE  Tagged(s)'
    BY <2>2 DEF BansInv, Tagged, Bans!Active
  <2>5. QED BY <2>1, <2>3, <2>4 DEF BansInv, Bans!SourceIds
<1>2. ASSUME NEW m \in Admins, Bans!InsertBan(m)
      PROVE  BansInv'
  <2>1. /\ UNCHANGED <<boundary, banSource, registry, gate, failures>>
        /\ admin' = [admin EXCEPT ![m] = None]
    BY <1>2 DEF Bans!InsertBan, Bans!sdk
  <2>2. BansTypes'
    BY <1>0, <1>2, <2>1, Inserted DEF BansTypes
  <2>3. /\ Bans!Active \subseteq Bans!Active' /\ Bans!Revoked \subseteq Bans!Revoked'
        /\ \A r \in Runs : Bans!Aims(r) \subseteq Bans!Aims(r)'
    BY <1>0, <1>2, Inserted
  <2>4. ASSUME NEW r \in Runs
        PROVE  Holds(r)' /\ Owed(r)'
    BY <2>1, <2>3 DEF BansInv, Holds, Owed
  <2>5. ASSUME NEW s \in Bans!SourceIds
        PROVE  Tagged(s)'
    BY <2>1, <2>3 DEF BansInv, Tagged
  <2>6. QED BY <2>2, <2>4, <2>5 DEF BansInv, Bans!SourceIds
<1>3. ASSUME NEW k \in BanIds, Bans!RevokeBan(k)
      PROVE  BansInv'
  <2>1. /\ UNCHANGED <<registry, gate, failures, admin>>
        /\ boundary' = [r \in Runs |-> [boundary[r] EXCEPT !.owed = @ \ {k}]]
        /\ banSource' = [s \in Bans!SourceIds |-> [banSource[s] EXCEPT !.delivered = @ \ {k}]]
    BY <1>3 DEF Bans!RevokeBan
  <2>2. /\ Bans!Active' = Bans!Active \ {k} /\ Bans!Revoked' = Bans!Revoked \cup {k}
        /\ \A r \in Runs : Bans!Aims(r)' = Bans!Aims(r)
    BY <1>0, <1>3, Lifted
  <2>3. ASSUME NEW r \in Runs
        PROVE  /\ boundary'[r].owed = boundary[r].owed \ {k} /\ boundary'[r] \in RunRec
               /\ boundary'[r].pc = boundary[r].pc /\ boundary'[r].src = boundary[r].src
               /\ boundary'[r].sent = boundary[r].sent /\ boundary'[r].got = boundary[r].got
               /\ boundary'[r].lifted = boundary[r].lifted
    <3>1. PICK x \in RunRec : x = boundary[r]
      BY <1>0 DEF BansTypes
    <3>2. boundary'[r] = [x EXCEPT !.owed = x.owed \ {k}]
      BY <2>1, <3>1
    <3>3. QED BY <3>1, <3>2 DEF RunRec
  <2>4. ASSUME NEW s \in Bans!SourceIds
        PROVE  /\ banSource'[s].delivered = banSource[s].delivered \ {k}
               /\ banSource'[s] \in SourceRec
               /\ banSource'[s].cached = banSource[s].cached
               /\ banSource'[s].etag = banSource[s].etag
               /\ banSource'[s].lock = banSource[s].lock
    <3>1. PICK x \in SourceRec : x = banSource[s]
      BY <1>0 DEF BansTypes
    <3>2. banSource'[s] = [x EXCEPT !.delivered = x.delivered \ {k}]
      BY <2>1, <3>1
    <3>3. QED BY <3>1, <3>2 DEF SourceRec
  <2>5. BansTypes'
    <3>1. boundary' \in [Runs -> RunRec]
      BY <2>1, <2>3
    <3>2. banSource' \in [Bans!SourceIds -> SourceRec]
      BY <2>1, <2>4
    <3>3. QED BY <1>0, <1>3, <2>1, <3>1, <3>2, Lifted DEF BansTypes
  <2>6. ASSUME NEW r \in Runs
        PROVE  Holds(r)' /\ Owed(r)'
    <3>1. Holds(r) /\ Owed(r)
      BY DEF BansInv
    <3>2. Holds(r)'
      BY <2>3, <2>4, <3>1 DEF Holds, InFlight
    <3>3. boundary[r].pc \in InFlight => boundary[r].src \in Bans!SourceIds
      BY <3>1 DEF Holds, InFlight
    <3>4. Owed(r)'
      BY <2>2, <2>3, <2>4, <3>1, <3>3 DEF Owed, InFlight
    <3>5. QED BY <3>2, <3>4
  <2>7. ASSUME NEW s \in Bans!SourceIds
        PROVE  Tagged(s)'
    BY <2>2, <2>3, <2>4 DEF BansInv, Tagged
  <2>8. QED BY <2>5, <2>6, <2>7 DEF BansInv, Bans!SourceIds
<1>4. QED BY <1>1, <1>2, <1>3

\* A step of the run that holds a source, or takes it while it is free: the source and
\* the run it leaves behind.
Handles(r, s, y, z) ==
  /\ boundary[r].src = s /\ banSource[s].lock \in {None, r}
  /\ z.pc \in {"asked", "storing", "fetched"}
  /\ z.pc # "fetched" => z.src = s /\ y.lock = r
  /\ y.delivered \subseteq y.cached /\ y.delivered \subseteq Bans!Active
  /\ z.pc # "storing" => y.etag \in {None, y.cached}
  /\ z.owed \subseteq Bans!Active /\ z.owed \subseteq Bans!Aims(r)
  /\ z.lifted \subseteq Bans!Revoked
  /\ z.pc = "asked" => z.sent = y.etag
  /\ z.pc = "storing" =>
       z.sent = y.cached /\ z.owed \subseteq y.cached /\ z.lifted \cap y.cached = {}
  /\ z.pc = "fetched" => z.owed \subseteq z.got /\ z.lifted \cap z.got = {}

LEMMA HolderStep ==
  ASSUME BansInv, NEW r \in Runs, NEW s \in Bans!SourceIds, NEW y \in SourceRec, NEW z \in RunRec,
         UNCHANGED <<bans, admin, registry, gate>>, failures' \in Nat,
         banSource' = [banSource EXCEPT ![s] = y], boundary' = [boundary EXCEPT ![r] = z],
         Handles(r, s, y, z)
  PROVE  BansInv'
<1>. USE DEF Handles
<1>1. /\ BansTypes /\ None \notin Runs /\ Bans!Active' = Bans!Active
      /\ Bans!Revoked' = Bans!Revoked /\ \A q \in Runs : Bans!Aims(q)' = Bans!Aims(q)
  BY FeedsAssumption
     DEF BansInv, Bans!BansAssumption, Bans!Active, Bans!Revoked, Bans!Aims
<1>2. BansTypes'
  BY <1>1 DEF BansTypes
<1>3. /\ boundary'[r] = z /\ \A q \in Runs : q # r => boundary'[q] = boundary[q]
      /\ banSource'[s] = y /\ \A t \in Bans!SourceIds : t # s => banSource'[t] = banSource[t]
  BY <1>1 DEF BansTypes
<1>4. ASSUME NEW q \in Runs
      PROVE  Holds(q)' /\ Owed(q)'
  <2>1. CASE q = r
    BY <1>1, <1>3, <2>1 DEF Holds, Owed, InFlight
  <2>2. CASE q # r
    <3>1. Holds(q) /\ Owed(q)
      BY DEF BansInv
    <3>2. boundary[q].pc \in InFlight => boundary[q].src \in Bans!SourceIds \ {s}
      BY <1>1, <2>2, <3>1 DEF Holds, InFlight
    <3>3. Holds(q)'
      BY <1>3, <2>2, <3>1, <3>2 DEF Holds
    <3>4. Owed(q)'
      BY <1>1, <1>3, <2>2, <3>1, <3>2 DEF Owed, InFlight
    <3>5. QED BY <3>3, <3>4
  <2>3. QED BY <2>1, <2>2
<1>5. ASSUME NEW t \in Bans!SourceIds
      PROVE  Tagged(t)'
  <2>1. CASE t = s
    BY <1>1, <1>3, <2>1 DEF Tagged, InFlight
  <2>2. CASE t # s
    <3>1. Tagged(t)
      BY DEF BansInv
    <3>2. (\A q \in Runs : boundary'[q].pc = "storing" => boundary'[q].src # t) =>
            \A q \in Runs : boundary[q].pc = "storing" => boundary[q].src # t
      BY <1>3, <2>2
    <3>3. QED BY <1>1, <1>3, <2>2, <3>1, <3>2 DEF Tagged
  <2>3. QED BY <2>1, <2>2
<1>6. QED BY <1>2, <1>4, <1>5 DEF BansInv, Bans!SourceIds

\* A step of a run outside of its fetch.
LEMMA QuietStep ==
  ASSUME BansInv, BansTypes', NEW r \in Runs, NEW z \in RunRec,
         UNCHANGED bans, boundary' = [boundary EXCEPT ![r] = z],
         boundary[r].pc \notin InFlight, z.pc \notin InFlight,
         \A s \in Bans!SourceIds :
           /\ banSource'[s].lock = banSource[s].lock /\ banSource'[s].etag = banSource[s].etag
           /\ banSource'[s].cached = banSource[s].cached
           /\ banSource'[s].delivered = banSource[s].delivered,
         z.pc = "ready" => z.src \in Bans!SourceIds,
         z.pc # "fetched", z.owed = {}, z.lifted \subseteq Bans!Revoked,
         z.pc = "refused" => z.got # {} /\ z.lifted \cap z.got = {}
  PROVE  BansInv'
<1>1. /\ BansTypes /\ Bans!Active' = Bans!Active
      /\ Bans!Revoked' = Bans!Revoked /\ \A q \in Runs : Bans!Aims(q)' = Bans!Aims(q)
  BY DEF BansInv, Bans!Active, Bans!Revoked, Bans!Aims
<1>2. boundary'[r] = z /\ \A q \in Runs : q # r => boundary'[q] = boundary[q]
  BY <1>1 DEF BansTypes
<1>3. ASSUME NEW q \in Runs
      PROVE  Holds(q)' /\ Owed(q)'
  <2>1. CASE q = r
    BY <1>1, <1>2, <2>1 DEF Holds, Owed, InFlight
  <2>2. CASE q # r
    <3>1. Holds(q) /\ Owed(q)
      BY DEF BansInv
    <3>2. Holds(q)'
      BY <1>2, <2>2, <3>1 DEF Holds, InFlight
    <3>3. boundary[q].pc \in InFlight => boundary[q].src \in Bans!SourceIds
      BY <3>1 DEF Holds, InFlight
    <3>4. Owed(q)'
      BY <1>1, <1>2, <2>2, <3>1, <3>3 DEF Owed, InFlight
    <3>5. QED BY <3>2, <3>4
  <2>3. QED BY <2>1, <2>2
<1>4. ASSUME NEW t \in Bans!SourceIds
      PROVE  Tagged(t)'
  <2>1. Tagged(t)
    BY DEF BansInv
  <2>2. (\A q \in Runs : boundary'[q].pc = "storing" => boundary'[q].src # t) =>
          \A q \in Runs : boundary[q].pc = "storing" => boundary[q].src # t
    BY <1>2 DEF InFlight
  <2>3. QED BY <1>1, <2>1, <2>2 DEF Tagged
<1>5. QED BY <1>3, <1>4 DEF BansInv, Bans!SourceIds

\* The source a run is about to ask, or asks, with its set and its etag.
LEMMA AskedSource ==
  ASSUME BansInv, NEW r \in Runs, boundary[r].pc \in {"ready", "asked", "storing"},
         boundary[r].pc = "ready" => banSource[boundary[r].src].lock = None
  PROVE  \E s \in Bans!SourceIds, x \in SourceRec, b \in RunRec :
           /\ s = boundary[r].src /\ x = banSource[s] /\ b = boundary[r]
           /\ x.lock \in {None, r} /\ x.delivered \subseteq x.cached
           /\ x.delivered \subseteq Bans!Active
           /\ b.pc # "storing" => x.etag \in {None, x.cached}
           /\ b.owed \subseteq Bans!Active \cap Bans!Aims(r) /\ b.lifted \subseteq Bans!Revoked
           /\ b.pc = "asked" => b.sent = x.etag
           /\ b.pc = "storing" =>
                b.sent = x.cached /\ b.owed \subseteq x.cached /\ b.lifted \cap x.cached = {}
<1>1. Holds(r) /\ Owed(r) /\ BansTypes /\ None \notin Runs
  BY FeedsAssumption DEF BansInv, Bans!BansAssumption
<1>2. PICK s \in Bans!SourceIds, x \in SourceRec, b \in RunRec :
        s = boundary[r].src /\ x = banSource[s] /\ b = boundary[r]
  BY <1>1 DEF Holds, BansTypes
<1>3. Tagged(s) /\ x.lock \in {None, r}
  BY <1>1, <1>2 DEF BansInv, Holds, InFlight
<1>4. ASSUME NEW q \in Runs, boundary[q].pc = "storing", boundary[q].src = s
      PROVE  q = r
  <2>1. banSource[s].lock = q
    BY <1>4 DEF BansInv, Holds, InFlight
  <2>2. QED BY <1>1, <1>2, <1>3, <2>1
<1>5. b.pc # "storing" => x.etag \in {None, x.cached}
  BY <1>2, <1>3, <1>4 DEF Tagged
<1>6. QED BY <1>1, <1>2, <1>3, <1>5 DEF Tagged, Owed

\* What fetch leaves in a run.
Returned(b, got, owed, lifted) ==
  [b EXCEPT !.pc = "fetched", !.got = got, !.sent = None, !.src = None,
            !.owed = owed, !.lifted = lifted]

LEMMA FetchStep ==
  ASSUME BansInv, NEW r \in Runs,
         Bans!Ask(r) \/ Bans!NotModified(r) \/ Bans!Answered(r) \/ Bans!Stores(r) \/ Bans!Fails(r)
  PROVE  BansInv'
<1>. USE DEF Bans!Etag
<1>1. /\ UNCHANGED <<bans, admin, registry, gate>> /\ failures' \in {failures, failures + 1}
      /\ boundary[r].pc \in {"ready", "asked", "storing"}
      /\ boundary[r].pc = "ready" => banSource[boundary[r].src].lock = None
  BY DEF Bans!Ask, Bans!NotModified, Bans!Answered, Bans!Stores, Bans!Fails, Bans!Src
<1>a. failures' \in Nat /\ boundary \in [Runs -> RunRec]
  BY <1>1 DEF BansInv, BansTypes
<1>2. PICK s \in Bans!SourceIds, x \in SourceRec, b \in RunRec :
           /\ s = boundary[r].src /\ x = banSource[s] /\ b = boundary[r]
           /\ x.lock \in {None, r} /\ x.delivered \subseteq x.cached
           /\ x.delivered \subseteq Bans!Active
           /\ b.pc # "storing" => x.etag \in {None, x.cached}
           /\ b.owed \subseteq Bans!Active \cap Bans!Aims(r) /\ b.lifted \subseteq Bans!Revoked
           /\ b.pc = "asked" => b.sent = x.etag
           /\ b.pc = "storing" =>
                b.sent = x.cached /\ b.owed \subseteq x.cached /\ b.lifted \cap x.cached = {}
  BY <1>1, AskedSource
<1>3. PICK A, R, M : /\ A = Bans!Active /\ R = Bans!Revoked /\ M = Bans!Aims(r)
                     /\ A \in SUBSET BanIds /\ R \in SUBSET BanIds /\ M \in SUBSET BanIds
                     /\ A \cap R = {} /\ A # None
  <2>1. BansTypes
    BY DEF BansInv
  <2>2. /\ Bans!Active \in SUBSET BanIds /\ Bans!Revoked \in SUBSET BanIds
        /\ Bans!Aims(r) \in SUBSET BanIds
    BY <2>1, Rows
  <2>3. Bans!Active \cap Bans!Revoked = {}
    BY DEF Bans!Revoked
  <2>4. Bans!Active # None
    BY <2>2, FeedsAssumption DEF Bans!BansAssumption, BanIds
  <2>5. QED BY <2>2, <2>3, <2>4
<1>b. /\ banSource[boundary[r].src] = x /\ boundary[r] = b
      /\ {"asked", "storing", "fetched"} \subseteq Bans!PCs
  BY <1>2 DEF Bans!PCs
<1>4. CASE Bans!Ask(r)
  <2>1. PICK y : y = [x EXCEPT !.lock = r]
    OBVIOUS
  <2>2. PICK z : z = [b EXCEPT !.pc = "asked", !.sent = x.etag, !.owed = A \cap M,
                               !.lifted = R \cap M]
    OBVIOUS
  <2>3. /\ y \in SourceRec /\ y.lock = r /\ y.etag = x.etag /\ y.cached = x.cached
        /\ y.delivered = x.delivered
    BY <2>1 DEF SourceRec
  <2>4. /\ z \in RunRec /\ z.pc = "asked" /\ z.src = b.src /\ z.sent = x.etag
        /\ z.owed = A \cap M /\ z.lifted = R \cap M
    BY <1>3, <1>b, <2>2 DEF RunRec, SourceRec
  <2>5. banSource' = [banSource EXCEPT ![s] = y] /\ boundary' = [boundary EXCEPT ![r] = z]
    BY <1>2, <1>3, <1>4, <1>b, <2>1, <2>2 DEF Bans!Ask, Bans!Src
  <2>6. Handles(r, s, y, z)
    BY <1>2, <1>3, <1>4, <2>3, <2>4 DEF Handles, Bans!Ask
  <2>7. QED BY <1>1, <1>a, <2>3, <2>4, <2>5, <2>6, HolderStep
<1>5. ASSUME NEW y \in SourceRec, y.lock = None, y.cached = x.cached,
             y.etag = IF b.pc = "storing" THEN b.sent ELSE x.etag,
             y.delivered \subseteq x.delivered \cup (x.cached \cap A),
             NEW O, NEW L, O \in SUBSET b.owed, L \in SUBSET b.lifted,
             banSource' = [banSource EXCEPT ![s] = y],
             boundary' = [boundary EXCEPT ![r] = Returned(b, x.cached \cap M, O, L)],
             O \subseteq x.cached, L \cap x.cached \cap M = {}
      PROVE  BansInv'
  <2>1. PICK z : z = Returned(b, x.cached \cap M, O, L)
    OBVIOUS
  <2>2. O \in SUBSET BanIds /\ L \in SUBSET BanIds /\ x.cached \cap M \in SUBSET BanIds
    BY <1>3, <1>5 DEF RunRec
  <2>3. /\ z \in RunRec /\ z.pc = "fetched" /\ z.got = x.cached \cap M
        /\ z.owed = O /\ z.lifted = L
    BY <1>b, <2>1, <2>2 DEF RunRec, Returned
  <2>4. Handles(r, s, y, z)
    BY <1>2, <1>3, <1>5, <2>3 DEF Handles
  <2>5. QED BY <1>1, <1>5, <1>a, <2>1, <2>3, <2>4, HolderStep
<1>6. CASE Bans!NotModified(r)
  <2>1. PICK y : y = [x EXCEPT !.lock = None]
    OBVIOUS
  <2>2. /\ y \in SourceRec /\ y.lock = None /\ y.etag = x.etag /\ y.cached = x.cached
        /\ y.delivered = x.delivered
    BY <2>1 DEF SourceRec
  <2>3. banSource' = [banSource EXCEPT ![s] = y]
    BY <1>2, <1>6, <1>b, <2>1 DEF Bans!NotModified, Bans!Unlocked, Bans!Src
  <2>4. boundary' = [boundary EXCEPT ![r] = Returned(b, x.cached \cap M, b.owed, b.lifted)]
    BY <1>3, <1>6, <1>b DEF Bans!NotModified, Bans!Returns, Bans!Src, Returned
  <2>5. b.pc = "asked" /\ x.cached = A
    BY <1>2, <1>3, <1>6, <1>b DEF Bans!NotModified
  <2>6. /\ b.owed \in SUBSET b.owed /\ b.lifted \in SUBSET b.lifted /\ b.owed \subseteq x.cached
        /\ b.lifted \cap x.cached \cap M = {}
        /\ y.etag = IF b.pc = "storing" THEN b.sent ELSE x.etag
        /\ y.delivered \subseteq x.delivered \cup (x.cached \cap A)
    BY <1>2, <1>3, <2>2, <2>5
  <2>7. QED BY <1>5, <2>2, <2>3, <2>4, <2>6
<1>7. CASE Bans!Stores(r)
  <2>1. PICK y : y = [x EXCEPT !.etag = b.sent, !.delivered = x.delivered \cup (x.cached \cap A),
                               !.lock = None]
    OBVIOUS
  <2>2. /\ y \in SourceRec /\ y.lock = None /\ y.etag = b.sent /\ y.cached = x.cached
        /\ y.delivered = x.delivered \cup (x.cached \cap A)
    BY <1>3, <2>1 DEF SourceRec, RunRec
  <2>3. banSource' = [banSource EXCEPT ![s] = y]
    <3>1. y = [[x EXCEPT !.etag = b.sent, !.delivered = x.delivered \cup (x.cached \cap A)]
                 EXCEPT !.lock = None]
      BY <2>1 DEF SourceRec
    <3>2. QED BY <1>2, <1>3, <1>7, <1>b, <3>1 DEF Bans!Stores, Bans!Unlocked, Bans!Src
  <2>4. boundary' = [boundary EXCEPT ![r] = Returned(b, x.cached \cap M, b.owed, b.lifted)]
    BY <1>3, <1>7, <1>b DEF Bans!Stores, Bans!Returns, Bans!Src, Returned
  <2>5. b.pc = "storing"
    BY <1>7, <1>b DEF Bans!Stores
  <2>6. /\ b.owed \in SUBSET b.owed /\ b.lifted \in SUBSET b.lifted /\ b.owed \subseteq x.cached
        /\ b.lifted \cap x.cached \cap M = {}
        /\ y.etag = IF b.pc = "storing" THEN b.sent ELSE x.etag
        /\ y.delivered \subseteq x.delivered \cup (x.cached \cap A)
    BY <1>2, <1>3, <2>2, <2>5
  <2>7. QED BY <1>5, <2>2, <2>3, <2>4, <2>6
<1>8. CASE Bans!Fails(r)
  <2>1. PICK y : y = [x EXCEPT !.lock = None]
    OBVIOUS
  <2>2. /\ y \in SourceRec /\ y.lock = None /\ y.etag = x.etag /\ y.cached = x.cached
        /\ y.delivered = x.delivered
    BY <2>1 DEF SourceRec
  <2>3. banSource' = [banSource EXCEPT ![s] = y]
    BY <1>2, <1>8, <1>b, <2>1 DEF Bans!Fails, Bans!Unlocked, Bans!Src
  <2>4. boundary' = [boundary EXCEPT ![r] =
                       Returned(b, x.cached \cap M, b.owed \cap x.delivered, {})]
    BY <1>3, <1>8, <1>b DEF Bans!Fails, Bans!Returns, Bans!Src, Returned
  <2>5. b.pc = "asked"
    BY <1>8, <1>b DEF Bans!Fails
  <2>6. /\ b.owed \cap x.delivered \in SUBSET b.owed /\ {} \in SUBSET b.lifted
        /\ b.owed \cap x.delivered \subseteq x.cached /\ {} \cap x.cached \cap M = {}
        /\ y.etag = IF b.pc = "storing" THEN b.sent ELSE x.etag
        /\ y.delivered \subseteq x.delivered \cup (x.cached \cap A)
    BY <1>2, <2>2, <2>5
  <2>7. QED BY <1>5, <2>2, <2>3, <2>4, <2>6
<1>9. CASE Bans!Answered(r)
  <2>1. PICK y : y = [x EXCEPT !.cached = A]
    OBVIOUS
  <2>2. PICK z : z = [b EXCEPT !.pc = "storing", !.sent = A]
    OBVIOUS
  <2>3. y \in SourceRec /\ y.lock = x.lock /\ y.cached = A /\ y.delivered = x.delivered
    BY <1>3, <2>1 DEF SourceRec
  <2>4. /\ z \in RunRec /\ z.pc = "storing" /\ z.src = b.src /\ z.sent = A
        /\ z.owed = b.owed /\ z.lifted = b.lifted
    BY <1>3, <1>b, <2>2 DEF RunRec
  <2>5. banSource' = [banSource EXCEPT ![s] = y] /\ boundary' = [boundary EXCEPT ![r] = z]
    BY <1>2, <1>3, <1>9, <1>b, <2>1, <2>2 DEF Bans!Answered
  <2>6. x.lock = r
    BY <1>2, <1>9 DEF Bans!Answered, BansInv, Holds, InFlight
  <2>7. Handles(r, s, y, z)
    BY <1>2, <1>3, <2>3, <2>4, <2>6 DEF Handles
  <2>8. QED BY <1>1, <1>a, <2>3, <2>4, <2>5, <2>7, HolderStep
<1>10. QED BY <1>4, <1>6, <1>7, <1>8, <1>9

LEMMA BoundaryStep ==
  ASSUME BansInv, NEW r \in Runs,
         Bans!Enter(r) \/ Bans!CreateSource(r) \/ Bans!Enforce(r) \/ Bans!Leave(r)
  PROVE  BansInv'
<1>1. /\ BansTypes /\ Holds(r) /\ Owed(r) /\ UNCHANGED <<bans, admin, failures>>
      /\ AgentOf[r] \in Agents
  BY FeedsAssumption
     DEF BansInv, Bans!BansAssumption, Bans!Enter, Bans!CreateSource, Bans!Enforce, Bans!Leave
<1>2. PICK b \in RunRec : b = boundary[r]
  BY <1>1 DEF BansTypes
<1>3. CASE Bans!Enter(r)
  <2>1. PICK z : /\ boundary' = [boundary EXCEPT ![r] = z]
                 /\ \/ \E s \in Bans!SourceIds : z = [b EXCEPT !.pc = "ready", !.src = s]
                    \/ z = [b EXCEPT !.pc = "creating"]
    <3>1. gate[AgentOf[r]] \in Bans!SourceIds \cup {None}
      BY <1>1 DEF BansTypes
    <3>2. CASE \E s \in Bans!SourceIds :
                 boundary' = [boundary EXCEPT ![r].pc = "ready", ![r].src = s]
      <4>1. PICK s \in Bans!SourceIds :
              boundary' = [boundary EXCEPT ![r].pc = "ready", ![r].src = s]
        BY <3>2
      <4>2. PICK z : z = [b EXCEPT !.pc = "ready", !.src = s]
        OBVIOUS
      <4>3. boundary' = [boundary EXCEPT ![r] = z]
        BY <1>1, <1>2, <4>1, <4>2 DEF BansTypes
      <4>4. QED BY <4>2, <4>3
    <3>3. CASE boundary' = [boundary EXCEPT ![r].pc = "creating"]
      <4>1. PICK z : z = [b EXCEPT !.pc = "creating"]
        OBVIOUS
      <4>2. boundary' = [boundary EXCEPT ![r] = z]
        BY <1>1, <1>2, <3>3, <4>1 DEF BansTypes
      <4>3. QED BY <4>1, <4>2
    <3>4. registry \in Bans!SourceIds \cup {None}
      BY <1>1 DEF BansTypes
    <3>5. QED BY <1>3, <3>1, <3>2, <3>3, <3>4 DEF Bans!Enter
  <2>2. /\ z \in RunRec /\ z.pc \in {"ready", "creating"} /\ z.owed = b.owed
        /\ z.lifted = b.lifted
        /\ z.pc = "ready" => z.src \in Bans!SourceIds
    BY <2>1 DEF RunRec, Bans!PCs
  <2>3. UNCHANGED <<registry, banSource>> /\ gate' \in [Agents -> Bans!SourceIds \cup {None}]
    BY <1>1, <1>3 DEF Bans!Enter, BansTypes
  <2>4. b.pc = "idle" /\ b.owed = {} /\ b.lifted \subseteq Bans!Revoked
    BY <1>1, <1>2, <1>3 DEF Bans!Enter, Owed
  <2>5. BansTypes'
    BY <1>1, <2>1, <2>2, <2>3 DEF BansTypes
  <2>6. QED BY <1>1, <1>2, <2>1, <2>2, <2>3, <2>4, <2>5, QuietStep DEF InFlight
<1>4. CASE Bans!CreateSource(r)
  <2>1. PICK s \in Bans!SourceIds :
          /\ banSource' = [banSource EXCEPT ![s].used = TRUE] /\ registry' = s
          /\ gate' = [gate EXCEPT ![AgentOf[r]] = s]
          /\ boundary' = [boundary EXCEPT ![r].pc = "ready", ![r].src = s]
    BY <1>4 DEF Bans!CreateSource
  <2>2. PICK x \in SourceRec : x = banSource[s]
    BY <1>1 DEF BansTypes
  <2>3. PICK y : y = [x EXCEPT !.used = TRUE]
    OBVIOUS
  <2>4. /\ y \in SourceRec /\ y.lock = x.lock /\ y.etag = x.etag /\ y.cached = x.cached
        /\ y.delivered = x.delivered
    BY <2>3 DEF SourceRec
  <2>5. banSource' = [banSource EXCEPT ![s] = y]
    BY <2>1, <2>2, <2>3
  <2>6. PICK z : z = [b EXCEPT !.pc = "ready", !.src = s]
    OBVIOUS
  <2>7. boundary' = [boundary EXCEPT ![r] = z]
    BY <1>1, <1>2, <2>1, <2>6 DEF BansTypes
  <2>8. /\ z \in RunRec /\ z.pc = "ready" /\ z.src = s /\ z.owed = b.owed
        /\ z.lifted = b.lifted
    BY <2>6 DEF RunRec, Bans!PCs
  <2>9. BansTypes'
    <3>1. gate' \in [Agents -> Bans!SourceIds \cup {None}] /\ UNCHANGED <<bans, admin, failures>>
      BY <1>1, <1>4, <2>1 DEF BansTypes, Bans!CreateSource
    <3>2. banSource' \in [Bans!SourceIds -> SourceRec] /\ boundary' \in [Runs -> RunRec]
      BY <1>1, <2>4, <2>5, <2>7, <2>8 DEF BansTypes
    <3>3. QED BY <1>1, <2>1, <3>1, <3>2 DEF BansTypes
  <2>10. \A t \in Bans!SourceIds :
           /\ banSource'[t].lock = banSource[t].lock /\ banSource'[t].etag = banSource[t].etag
           /\ banSource'[t].cached = banSource[t].cached
           /\ banSource'[t].delivered = banSource[t].delivered
    BY <1>1, <2>2, <2>4, <2>5 DEF BansTypes
  <2>11. b.pc = "creating" /\ b.owed = {} /\ b.lifted \subseteq Bans!Revoked
    BY <1>1, <1>2, <1>4 DEF Bans!CreateSource, Owed
  <2>12. QED BY <1>1, <1>2, <2>7, <2>8, <2>9, <2>10, <2>11, QuietStep DEF InFlight
<1>5. CASE Bans!Enforce(r)
  <2>1. PICK z : /\ boundary' = [boundary EXCEPT ![r] = z]
                 /\ z = IF b.got # {} THEN [b EXCEPT !.pc = "refused", !.owed = {}]
                        ELSE [b EXCEPT !.pc = "admitted", !.got = {}, !.lifted = {}]
    BY <1>2, <1>5 DEF Bans!Enforce, Bans!Decided
  <2>2. /\ b.pc = "fetched" /\ b.owed \subseteq b.got /\ b.lifted \cap b.got = {}
        /\ b.lifted \subseteq Bans!Revoked /\ UNCHANGED <<registry, gate, banSource>>
    BY <1>1, <1>2, <1>5 DEF Bans!Enforce, Owed
  <2>3. CASE b.got # {}
    <3>1. /\ z \in RunRec /\ z.pc = "refused" /\ z.owed = {} /\ z.lifted = b.lifted
          /\ z.got = b.got
      BY <2>1, <2>3 DEF RunRec, Bans!PCs
    <3>2. BansTypes'
      BY <1>1, <2>1, <2>2, <3>1 DEF BansTypes
    <3>3. QED BY <1>1, <1>2, <2>1, <2>2, <2>3, <3>1, <3>2, QuietStep DEF InFlight
  <2>4. CASE b.got = {}
    <3>1. /\ z \in RunRec /\ z.pc = "admitted" /\ z.owed = {} /\ z.lifted = {}
      BY <2>1, <2>2, <2>4 DEF RunRec, Bans!PCs
    <3>2. BansTypes'
      BY <1>1, <2>1, <2>2, <3>1 DEF BansTypes
    <3>3. QED BY <1>1, <1>2, <2>1, <2>2, <3>1, <3>2, QuietStep DEF InFlight
  <2>5. QED BY <2>3, <2>4
<1>6. CASE Bans!Leave(r)
  <2>1. PICK z : boundary' = [boundary EXCEPT ![r] = z] /\ z = Bans!Boundary
    BY <1>6 DEF Bans!Leave
  <2>2. z \in RunRec /\ z.pc = "idle" /\ z.owed = {} /\ z.lifted = {}
    BY <2>1 DEF Bans!Boundary, RunRec, Bans!PCs
  <2>3. UNCHANGED <<registry, gate, banSource>> /\ b.pc \in {"refused", "admitted"}
    BY <1>2, <1>6 DEF Bans!Leave
  <2>4. BansTypes'
    BY <1>1, <2>1, <2>2, <2>3 DEF BansTypes
  <2>5. QED BY <1>1, <1>2, <2>1, <2>2, <2>3, <2>4, QuietStep DEF InFlight
<1>7. QED BY <1>3, <1>4, <1>5, <1>6

LEMMA BansStep == BansInv /\ [Bans!Next]_(Bans!vars) => BansInv'
<1>1. ASSUME BansInv, UNCHANGED Bans!vars
      PROVE  BansInv'
  <2>1. /\ UNCHANGED <<bans, banSource, boundary>>
        /\ Bans!Active' = Bans!Active /\ Bans!Revoked' = Bans!Revoked
        /\ \A r \in Runs : Bans!Aims(r)' = Bans!Aims(r)
    BY <1>1 DEF Bans!vars, Bans!Active, Bans!Revoked, Bans!Aims
  <2>2. BansTypes'
    BY <1>1 DEF BansInv, BansTypes, Bans!vars
  <2>3. ASSUME NEW r \in Runs
        PROVE  Holds(r)' /\ Owed(r)'
    BY <1>1, <2>1 DEF BansInv, Holds, Owed
  <2>4. ASSUME NEW s \in Bans!SourceIds
        PROVE  Tagged(s)'
    BY <1>1, <2>1 DEF BansInv, Tagged
  <2>5. QED BY <2>2, <2>3, <2>4 DEF BansInv, Bans!SourceIds
<1>2. ASSUME BansInv, Bans!Next
      PROVE  BansInv'
  BY <1>2, PlatformStep, FetchStep, BoundaryStep DEF Bans!Next, Bans!Proceeds, BanIds
<1>3. QED BY <1>1, <1>2

LEMMA BansPart == FeedsSpec => Bans!Spec
<1>1. [FeedsNext]_feedsVars => [Bans!Next]_(Bans!vars)
  BY DEF FeedsNext, feedsVars, bansVars, Bans!vars, OfPlatform, OfDirectory, OfBans, OfUsage
<1>2. FeedsInit => Bans!Init
  BY DEF FeedsInit
<1>3. QED BY <1>1, <1>2, PTL DEF FeedsSpec, Bans!Spec

\* The kill switch holds (hexgate/security/bans.py; features/bans/service.py): a ban that
\* was active when the fetch of a run began, or that its source was ever told of, refuses
\* the run until it is lifted - whatever fails, and however many gates, sources and
\* threads share a key; and a lifted one refuses nobody whose fetch succeeds.
THEOREM BannedAreRefused == FeedsSpec => []BansBind
<1>1. ASSUME BansInv, NEW r \in Runs
      PROVE  /\ boundary[r].pc = "admitted" => boundary[r].owed = {}
             /\ boundary[r].pc = "refused" => boundary[r].got \ boundary[r].lifted # {}
  BY <1>1 DEF BansInv, Owed
<1>2. BansInv => BansBind
  BY <1>1 DEF BansBind, Bans!KillSwitch, Bans!LiftedBansLetPass
<1>3. QED BY <1>2, BansStart, BansStep, BansPart, PTL DEF Bans!Spec

-----------------------------------------------------------------------------
(* What the feeds promise together.                                            *)

LEMMA PlatformPart == FeedsSpec => Spec
<1>1. [FeedsNext]_feedsVars => [Next]_vars
  BY DEF FeedsNext, feedsVars, OfPlatform, OfDirectory, OfBans, OfUsage
<1>2. FeedsInit => Init
  BY DEF FeedsInit
<1>3. QED BY <1>1, <1>2, PTL DEF FeedsSpec, Spec

\* No edit is hidden (hexgate/security/source.py: fetch; hexgate/security/local_source.py):
\* a fetch from the platform answers with what was served while it was asking, and a
\* bundle directory is served build by build - whatever is rebuilt between two reads of
\* it no bundle is put together from two builds, and none hides behind a later mtime.
THEOREM EditsReachEngines == FeedsSpec => []EditsAreServed
<1>1. LocalInv => Local!OneBuildAtATime /\ Local!CacheHidesNoBuild
  <2>1. SUFFICES ASSUME LocalInv
                 PROVE  Local!OneBuildAtATime /\ Local!CacheHidesNoBuild
    OBVIOUS
  <2>2. Local!OneBuildAtATime
    <3>1. \A t \in Runs : Local!Verifies(thread[t].got)
      BY <2>1, Zenon DEF LocalInv
    <3>2. QED BY <3>1, Zenon DEF Local!Verifies, Local!OneBuildAtATime
  <2>3. {cache.mtime, cache.bundle.manifest, dir.manifest} \subseteq Nat
    BY <2>1 DEF LocalInv, LocalTypes, Local!Files, Local!Builds
  <2>4. cache.mtime <= cache.bundle.manifest /\ cache.bundle.manifest <= dir.manifest
    BY <2>1 DEF LocalInv, Follows
  <2>5. cache.mtime = dir.manifest => cache.bundle.manifest = dir.manifest
    BY <2>3, <2>4
  <2>6. QED BY <2>2, <2>5 DEF Local!CacheHidesNoBuild
<1>2. FetchHidesNoEdit /\ LocalInv => EditsAreServed
  BY <1>1 DEF EditsAreServed
<1>3. FeedsSpec => []LocalInv
  BY LocalStart, LocalStep, LocalPart, PTL DEF Local!Spec
<1>4. FeedsSpec => []FetchHidesNoEdit
  BY FetchesAreCurrent, PlatformPart, PTL
<1>5. QED BY <1>2, <1>3, <1>4, PTL

-----------------------------------------------------------------------------
(* The usage snapshots: UsageSourceProofs, of the source of this module.       *)

Source == INSTANCE UsageSourceProofs WITH
  Agents <- UsageAgents, Users <- UsageUsers, Callers <- Runs

\* The two instances are of one module, action by action.
LEMMA OneSource ==
  /\ Usage!Init => Source!Init
  /\ [Usage!Next]_(Usage!vars) => [Source!Next]_(Source!vars)
<1>1. \A i : Usage!Free(i) <=> Source!Free(i)
  BY DEF Usage!Free, Source!Free, Usage!Scopes, Source!Scopes, Usage!Procs, Source!Procs
<1>2. Usage!Kept = Source!Kept
  BY <1>1 DEF Usage!Kept, Source!Kept, Usage!NewState, Source!NewState
<1>3. \A s, paths : Usage!Touch(s, paths) <=> Source!Touch(s, paths)
  BY Zenon DEF Usage!Touch, Source!Touch, Usage!Free, Source!Free, Usage!Kept,
     Source!Kept, Usage!NewState, Source!NewState, Usage!Remove, Source!Remove,
     Usage!Scopes, Source!Scopes, Usage!Procs, Source!Procs
<1>4. \A s, i : Usage!Throttled(s, i) <=> Source!Throttled(s, i)
  BY DEF Usage!Throttled, Source!Throttled, Usage!Paused, Source!Paused
<1>5. \A p, s, paths : Usage!Refresh(p, s, paths) <=> Source!Refresh(p, s, paths)
  BY <1>3 DEF Usage!Refresh, Source!Refresh, Usage!Idle, Source!Idle
<1>6. \A p, s, paths : Usage!Read(p, s, paths) <=> Source!Read(p, s, paths)
  BY <1>3 DEF Usage!Read, Source!Read, Usage!Idle, Source!Idle
<1>7. \A p : Usage!Tier(p) <=> Source!Tier(p)
  BY DEF Usage!Tier, Source!Tier, Usage!Paused, Source!Paused, Usage!Goes, Source!Goes,
     Usage!Ends, Source!Ends, Usage!Idle, Source!Idle
<1>8. \A p : Usage!Schedule(p) <=> Source!Schedule(p)
  BY <1>4 DEF Usage!Schedule, Source!Schedule, Usage!Goes, Source!Goes, Usage!Ends,
     Source!Ends, Usage!Idle, Source!Idle
<1>9. \A p : Usage!Take(p) <=> Source!Take(p)
  BY DEF Usage!Take, Source!Take, Usage!Idle, Source!Idle
<1>10. \A p : Usage!Lock(p) <=> Source!Lock(p)
  BY <1>4 DEF Usage!Lock, Source!Lock, Usage!After, Source!After, Usage!Ends,
     Source!Ends, Usage!Goes, Source!Goes, Usage!Idle, Source!Idle, Usage!Covered,
     Source!Covered
<1>11. \A p : Usage!Start(p) <=> Source!Start(p)
  BY DEF Usage!Start, Source!Start
<1>12. \A p : Usage!Succeed(p) <=> Source!Succeed(p)
  BY DEF Usage!Succeed, Source!Succeed, Usage!After, Source!After, Usage!Idle,
     Source!Idle
<1>13. \A p, f : Usage!Fail(p, f) <=> Source!Fail(p, f)
  BY DEF Usage!Fail, Source!Fail, Usage!Longer, Source!Longer, Usage!After,
     Source!After, Usage!Idle, Source!Idle
<1>14. \A p : Usage!Finish(p) <=> Source!Finish(p)
  BY DEF Usage!Finish, Source!Finish, Usage!Ends, Source!Ends, Usage!Idle, Source!Idle
<1>15. Usage!Tick <=> Source!Tick
  BY <1>2 DEF Usage!Tick, Source!Tick, Usage!Older, Source!Older, Usage!Less,
     Source!Less, Usage!Procs, Source!Procs
<1>16. Usage!Turn <=> Source!Turn
  BY DEF Usage!Turn, Source!Turn
<1>17. \A p : Usage!Proceed(p) <=> Source!Proceed(p)
  BY <1>7, <1>8, <1>10, <1>11, <1>12, <1>13, <1>14 DEF Usage!Proceed, Source!Proceed
<1>18. Usage!Init => Source!Init
  BY DEF Usage!Init, Source!Init, Usage!Scopes, Source!Scopes, Usage!Procs,
     Source!Procs, Usage!NewState, Source!NewState, Usage!Idle, Source!Idle
<1>19. Usage!Next <=> Source!Next
  BY <1>5, <1>6, <1>9, <1>15, <1>16, <1>17 DEF Usage!Next, Source!Next, Usage!Scopes,
     Source!Scopes, Usage!Procs, Source!Procs
<1>20. [Source!Next]_(Source!vars) <=> [Usage!Next]_(Usage!vars)
  BY <1>19 DEF Usage!vars, Source!vars
<1>21. QED BY <1>18, <1>20

LEMMA UsagePart == FeedsSpec => Usage!Spec
<1>1. [FeedsNext]_feedsVars => [Usage!Next]_(Usage!vars)
  BY DEF FeedsNext, feedsVars, usageVars, Usage!vars, OfPlatform, OfDirectory, OfBans, OfUsage
<1>2. FeedsInit => Usage!Init
  BY DEF FeedsInit
<1>3. QED BY <1>1, <1>2, PTL DEF FeedsSpec, Usage!Spec

\* A scope is asked for at intervals (hexgate/security/usage_source.py: _throttled_locked):
\* however many threads want it, none asks again before min_refresh has passed, unless
\* for more paths, nor while the platform's refusal stands.
THEOREM UsageIsSpaced == FeedsSpec => SpacedAttempts
<1>1. Usage!Spec => Source!Spec
  BY OneSource, PTL DEF Usage!Spec, Source!Spec
<1>2. Source!SpacedAttempts => Usage!SpacedAttempts
  BY PTL DEF Source!SpacedAttempts, Usage!SpacedAttempts, Source!Procs, Usage!Procs, Source!vars, Usage!vars
<1>3. \A S : Usage!Cardinality(S) = Source!Cardinality(S)
  BY DEF Usage!Cardinality, Source!Cardinality, Usage!IsFiniteSet, Source!IsFiniteSet
<1>4. Source!Spec => Source!SpacedAttempts
  <2>1. Usage!SourceAssumption
    BY FeedsAssumption
  <2>2. Usage!Scopes = Source!Scopes /\ Usage!Procs = Source!Procs
    BY DEF Usage!Scopes, Source!Scopes, Usage!Procs, Source!Procs
  <2>3. QED BY <1>3, <2>1, <2>2, Source!AskingIsSpaced, Zenon DEF Usage!SourceAssumption
<1>5. QED BY <1>1, <1>2, <1>4, UsagePart, PTL DEF SpacedAttempts
=============================================================================
