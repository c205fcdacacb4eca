------------------------- MODULE LocalPolicySource -------------------------
(***************************************************************************)
(* A bundle directory under HEXGATE_LOCAL_POLICY: BundleDirPolicySource    *)
(* (hexgate/security/source.py) reloads it when the manifest's mtime has   *)
(* changed, while `hexgate policy build' rewrites its files one by one     *)
(* (hexgate/cli/policy/main.py).  The mtime is read before the lock is     *)
(* taken and before the files are read.                                    *)
(***************************************************************************)
EXTENDS Naturals

CONSTANTS
  Threads,      \* refreshes sharing the source
  VerifyWith,   \* TRUE: a public key is configured, signatures are checked
  MaxBuilds,    \* bound: rebuilds of the directory
  Nobody        \* nobody holds the lock

\* Of the constants; assumed by the modules that give them values.
LocalAssumption ==
  VerifyWith \in BOOLEAN /\ MaxBuilds \in Nat /\ Nobody \notin Threads

Builds == 0..MaxBuilds

\* Each file holds the number of the build that wrote it; the manifest's
\* number is its mtime too, for every build rewrites it.
Files == [wasm : Builds, manifest : Builds, sig : Builds]

VARIABLES
  dir,          \* the files in the directory
  cache,        \* BundleDirPolicySource: bundle, mtime it is cached under, lock
  thread,       \* a fetch in progress: the mtime it has seen, what it has read
  good          \* builds signed with the trusted key

vars == <<dir, cache, thread, good>>

PCs == {"idle", "stated", "reading", "verifying"}

\* _local_policy_override has fetched once, loudly, before any run.
Init ==
  /\ dir = [wasm |-> 0, manifest |-> 0, sig |-> 0]
  /\ cache = [bundle |-> dir, mtime |-> 0, lock |-> Nobody]
  /\ thread = [t \in Threads |-> [pc |-> "idle", mtime |-> 0, read |-> dir, got |-> dir]]
  /\ good = {0}

-----------------------------------------------------------------------------
(* `hexgate policy build': the wasm, the manifest, the signature, in order.*)

\* Also a build that starts over where another was interrupted.
BuildWasm ==
  /\ dir.wasm < MaxBuilds
  /\ dir' = [dir EXCEPT !.wasm = @ + 1]
  /\ UNCHANGED <<cache, thread, good>>

BuildManifest ==
  /\ dir.manifest < dir.wasm
  /\ dir' = [dir EXCEPT !.manifest = dir.wasm]
  /\ UNCHANGED <<cache, thread, good>>

\* --sign-key with the trusted key, or with another one.
BuildSignature ==
  /\ dir.sig < dir.manifest
  /\ dir' = [dir EXCEPT !.sig = dir.manifest]
  /\ good' \in {good, good \cup {dir.manifest}}
  /\ UNCHANGED <<cache, thread>>

-----------------------------------------------------------------------------
(* fetch().                                                                *)

Stat(t) ==
  /\ thread[t].pc = "idle"
  /\ thread' = [thread EXCEPT ![t].pc = "stated", ![t].mtime = dir.manifest]
  /\ UNCHANGED <<dir, cache, good>>

\* The lock, and the same mtime: the cached bundle.
Hit(t) ==
  /\ thread[t].pc = "stated" /\ cache.lock = Nobody
  /\ thread[t].mtime = cache.mtime
  /\ thread' = [thread EXCEPT ![t].pc = "idle", ![t].got = cache.bundle]
  /\ UNCHANGED <<dir, cache, good>>

\* The lock, and another mtime: from_disk reads the manifest first.
Miss(t) ==
  /\ thread[t].pc = "stated" /\ cache.lock = Nobody
  /\ thread[t].mtime # cache.mtime
  /\ cache' = [cache EXCEPT !.lock = t]
  /\ thread' = [thread EXCEPT ![t].pc = "reading", ![t].read.manifest = dir.manifest]
  /\ UNCHANGED <<dir, good>>

\* ... then the signature and the wasm.
ReadRest(t) ==
  /\ thread[t].pc = "reading"
  /\ thread' = [thread EXCEPT ![t].pc = "verifying",
                              ![t].read.sig = dir.sig, ![t].read.wasm = dir.wasm]
  /\ UNCHANGED <<dir, cache, good>>

\* (Mutant) verify_integrity is skipped on a reload.
VerifiesSignatureOnly(b) == VerifyWith => b.sig = b.manifest /\ b.manifest \in good

\* verify_integrity ties the wasm to the manifest, verify_signature the
\* manifest to its signature and the key.
Verifies(b) ==
  /\ b.wasm = b.manifest
  /\ VerifyWith => b.sig = b.manifest /\ b.manifest \in good

\* (Mutant) The mtime is taken when the bundle is cached.
StoreWithLateStat(t) ==
  /\ thread[t].pc = "verifying" /\ Verifies(thread[t].read)
  /\ cache' = [bundle |-> thread[t].read, mtime |-> dir.manifest, lock |-> Nobody]
  /\ thread' = [thread EXCEPT ![t].pc = "idle", ![t].got = thread[t].read]
  /\ UNCHANGED <<dir, good>>

Store(t) ==
  /\ thread[t].pc = "verifying" /\ Verifies(thread[t].read)
  /\ cache' = [bundle |-> thread[t].read, mtime |-> thread[t].mtime, lock |-> Nobody]
  /\ thread' = [thread EXCEPT ![t].pc = "idle", ![t].got = thread[t].read]
  /\ UNCHANGED <<dir, good>>

\* A file of another build: RuntimeError, refresh keeps the policy it has.
Refuse(t) ==
  /\ thread[t].pc = "verifying" /\ ~Verifies(thread[t].read)
  /\ cache' = [cache EXCEPT !.lock = Nobody]
  /\ thread' = [thread EXCEPT ![t].pc = "idle"]
  /\ UNCHANGED <<dir, good>>

Fetch(t) == Stat(t) \/ Hit(t) \/ Miss(t) \/ ReadRest(t) \/ Store(t) \/ Refuse(t)

Build == BuildWasm \/ BuildManifest \/ BuildSignature

Next == Build \/ \E t \in Threads : Fetch(t)

Spec == Init /\ [][Next]_vars

\* Runs keep coming on every thread, and the lock is handed over; a build may
\* stop half-way for good.
FairSpec == Spec /\ \A t \in Threads : SF_vars(Fetch(t))

-----------------------------------------------------------------------------
(* Properties.                                                             *)

TypeOK ==
  /\ dir \in Files
  /\ cache \in [bundle : Files, mtime : Builds, lock : Threads \cup {Nobody}]
  /\ thread \in [Threads -> [pc : PCs, mtime : Builds, read : Files, got : Files]]
  /\ good \subseteq Builds

\* No run is given a bundle put together from two builds, or, with a key, one
\* the key has not signed, however the reads fall between the writes.
OneBuildAtATime ==
  \A t \in Threads :
    LET b == thread[t].got
    IN  /\ b.wasm = b.manifest
        /\ VerifyWith => b.sig = b.manifest /\ b.manifest \in good

\* A bundle that is not the one on disk is never cached under the mtime the
\* disk has now: the next refresh sees the difference.
CacheHidesNoBuild ==
  cache.lock = Nobody /\ cache.mtime = dir.manifest
    => cache.bundle.manifest = dir.manifest

=============================================================================
