---------------------------- MODULE PoolDirectory ----------------------------
(***************************************************************************)
(* What the connection pools promise to the queries: a directory from      *)
(* slots (cluster, host, database) to the connection parameters a pool was *)
(* opened with.  The wanted connections change at any moment.  A call      *)
(* first lets go of what is no longer wanted, and only then may add        *)
(* connections, each of them wanted at the moment it is added and replacing *)
(* whatever the slot held.                                                 *)
(***************************************************************************)
CONSTANTS Slots, Conns

VARIABLES wanted, served

Connection == [slot : Slots, conn : Conns]

OnePerSlot(cs) == \A a, b \in cs : a.slot = b.slot => a = b

Init ==
  /\ wanted \in SUBSET Connection
  /\ OnePerSlot(wanted)
  /\ served = {}

Publish ==
  /\ wanted' \in SUBSET Connection
  /\ OnePerSlot(wanted')
  /\ UNCHANGED served

Reconcile ==
  /\ served' = served \cap wanted
  /\ UNCHANGED wanted

Serve ==
  /\ \E new \in SUBSET wanted :
       served' = {c \in served : \A n \in new : n.slot # c.slot} \cup new
  /\ UNCHANGED wanted

Next == Publish \/ Reconcile \/ Serve

Spec == Init /\ [][Next]_<<wanted, served>>
=============================================================================
