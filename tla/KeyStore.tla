------------------------------ MODULE KeyStore ------------------------------
(* The keypair every token and bundle is signed with (core/keystore.py):      *)
(* generated by whoever starts first, loaded by the others, kept across       *)
(* crashes.  The key of access tokens goes through the same two functions.    *)
EXTENDS Naturals

CONSTANTS
  None, Processes,
  MaxKeys       \* bound: keypairs ever generated

\* Of the constants; assumed by the modules that give them values.
KeysAssumption == None \notin Nat /\ MaxKeys \in Nat

VARIABLES
  priv, pub,    \* the two files; a key is the number of its generation
  generated,
  proc          \* a process: where ensure_keypair is, and the key it holds

vars == <<priv, pub, generated, proc>>

Down == [pc |-> "down", key |-> None]

TypeOK ==
  /\ priv \in 1..MaxKeys \cup {None} /\ pub \in 1..MaxKeys \cup {None}
  /\ generated \in 0..MaxKeys
  /\ proc \in [Processes ->
       [pc : {"down", "checked", "generated", "linked", "adopts", "ready"},
        key : 1..MaxKeys \cup {None}]]

Init ==
  /\ priv = None /\ pub = None /\ generated = 0
  /\ proc = [p \in Processes |-> Down]

Goes(p, pc, key) == proc' = [proc EXCEPT ![p] = [pc |-> pc, key |-> key]]

\* ensure_keypair: is there a private key?
Start(p) ==
  /\ proc[p].pc = "down"
  /\ Goes(p, IF priv = None THEN "checked" ELSE "adopts", None)
  /\ UNCHANGED <<priv, pub, generated>>

\* The file is there whole: the link made it so.
ReadKey(p) ==
  /\ proc[p].pc = "adopts"
  /\ Goes(p, "ready", priv)
  /\ UNCHANGED <<priv, pub, generated>>

\* (Mutant) Both halves are written before the link decides.
GenerateBothHalves(p) ==
  /\ proc[p].pc = "checked" /\ generated < MaxKeys
  /\ generated' = generated + 1
  /\ Goes(p, "generated", generated + 1)
  /\ pub' = generated + 1
  /\ UNCHANGED priv

\* A new key, whole, in a temporary file of its own.
Generate(p) ==
  /\ proc[p].pc = "checked" /\ generated < MaxKeys
  /\ generated' = generated + 1
  /\ Goes(p, "generated", generated + 1)
  /\ UNCHANGED <<priv, pub>>

\* (Mutant) The temporary file is renamed over whatever is there.
LinkReplacing(p) ==
  /\ proc[p].pc = "generated"
  /\ priv' = proc[p].key /\ Goes(p, "linked", proc[p].key)
  /\ UNCHANGED <<pub, generated>>

\* os.link refuses to replace a file: the loser adopts the winner's key.
Link(p) ==
  /\ proc[p].pc = "generated"
  /\ IF priv = None THEN priv' = proc[p].key /\ Goes(p, "linked", proc[p].key)
     ELSE Goes(p, "adopts", None) /\ UNCHANGED priv
  /\ UNCHANGED <<pub, generated>>

WritePublic(p) ==
  /\ proc[p].pc = "linked"
  /\ pub' = proc[p].key /\ Goes(p, "ready", proc[p].key)
  /\ UNCHANGED <<priv, generated>>

\* The process dies, at any point; the files stay.
Crash(p) ==
  /\ proc[p].pc # "down"
  /\ proc' = [proc EXCEPT ![p] = Down]
  /\ UNCHANGED <<priv, pub, generated>>

Next ==
  \E p \in Processes :
    \/ Start(p) \/ ReadKey(p) \/ Generate(p) \/ Link(p) \/ WritePublic(p) \/ Crash(p)

Spec == Init /\ [][Next]_vars

-----------------------------------------------------------------------------

\* One signing key for the life of the platform: every process that is up holds
\* the one in the file, and the public half, where it was written, is of the
\* same key - in whatever order processes start for the first time, and
\* wherever they crash.
OneSigningKey ==
  /\ \A p \in Processes : proc[p].pc = "ready" => proc[p].key = priv
  /\ pub \in {None, priv}
=============================================================================
