------------------------------ MODULE Delivery ------------------------------
(***************************************************************************)
(* What the audit pipeline promises for the events sent to it, whatever it *)
(* is made of: at least once.  An event is settled when it is stored, or   *)
(* parked where an operator finds it, and only a settled event may be      *)
(* acknowledged, for an acknowledged one is not read again.                *)
(***************************************************************************)
CONSTANT Events

VARIABLES sent, settled, acknowledged

vars == <<sent, settled, acknowledged>>

Init == sent = {} /\ settled = {} /\ acknowledged = {}

Send(e) == sent' = sent \cup {e} /\ UNCHANGED <<settled, acknowledged>>

\* A batch settles, some of it perhaps a second time.
Settle(batch) ==
  /\ batch \subseteq sent
  /\ settled' = settled \cup batch
  /\ UNCHANGED <<sent, acknowledged>>

Acknowledge(batch) ==
  /\ batch \subseteq settled
  /\ acknowledged' = acknowledged \cup batch
  /\ UNCHANGED <<sent, settled>>

Next ==
  \/ \E e \in Events : Send(e)
  \/ \E batch \in SUBSET Events : Settle(batch) \/ Acknowledge(batch)

Spec == Init /\ [][Next]_vars

\* Again and again everything that was sent is acknowledged: once nothing more
\* is sent, nothing is left behind.
EverythingAcknowledged == []<>(sent \subseteq acknowledged)
=============================================================================
