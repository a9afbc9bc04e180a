------------------------------ MODULE RequestQueue -----------------------------
(***************************************************************************)
(* The resolver's request queue (s_resolverQueue of target_platform.cpp),  *)
(* shared by TargetResolver, which models the resolver thread step by      *)
(* step, and InputRouting, where one step answers a request.               *)
(***************************************************************************)
EXTENDS Naturals, Sequences

CONSTANT QueueSize   \* RESOLVER_QUEUE_SIZE

ASSUME QueueAssumption == QueueSize \in Nat \ {0}

\* Fault: a full queue keeps its oldest request.
EnqueueDropNewest(q, id) ==
  IF q # <<>> /\ (q[Len(q)] = id \/ Len(q) = QueueSize) THEN q ELSE Append(q, id)

\* The queue part of ResolveTargetAsync: a repetition of the newest request
\* is dropped, a full queue loses its oldest.
Enqueue(q, id) ==
  IF q # <<>> /\ q[Len(q)] = id THEN q
  ELSE Append(IF Len(q) = QueueSize THEN Tail(q) ELSE q, id)
=============================================================================
