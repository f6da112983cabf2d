--------------------------- MODULE RoutingTopology ---------------------------
(***************************************************************************)
(* The provider topology of scripts/llm_routing/types.py: which provider   *)
(* is primary, in which order the others are tried, and which one stands   *)
(* in for a given target.  A topology is a record with the two fields of   *)
(* RoutingTopologyConfig; a target is "provider.model" in the code and a   *)
(* plain value here; NoTarget is the empty string or None.                 *)
(***************************************************************************)
EXTENDS Integers, Sequences

CONSTANT NoTarget

(* A priority list is a sequence of targets.                               *)
IsPriority(priority) == priority \in Seq({priority[i] : i \in DOMAIN priority})

Listed(priority, target) == \E i \in DOMAIN priority : priority[i] = target

(* tuple.index: the first position that holds the target.                  *)
FirstIndex(priority, target) ==
  CHOOSE i \in DOMAIN priority :
    /\ priority[i] = target
    /\ \A j \in DOMAIN priority : priority[j] = target => i <= j

(***************************************************************************)
(* from_mapping: the primary comes from the mapping, else from the caller, *)
(* else it is the first of the priority list, and it is put in front of    *)
(* the list when the list does not name it.                                *)
(***************************************************************************)
TopologyFromMapping(primary, default, priority) ==
  LET chosen == CASE primary # NoTarget -> primary
                  [] primary = NoTarget /\ default # NoTarget -> default
                  [] OTHER -> IF priority = << >> THEN NoTarget ELSE Head(priority)
  IN [primary_target    |-> chosen,
      provider_priority |-> IF chosen = NoTarget \/ Listed(priority, chosen)
                            THEN priority
                            ELSE <<chosen>> \o priority]

(* Where the search starts: at the current target, else at the primary,    *)
(* else at the head of the list.                                           *)
StartIndex(topology, current) ==
  LET p == topology.provider_priority
  IN IF Listed(p, current) THEN FirstIndex(p, current)
     ELSE IF Listed(p, topology.primary_target) THEN FirstIndex(p, topology.primary_target)
     ELSE 1

(* The target `offset` places after `start`, wrapping around.              *)
Following(priority, start, offset) ==
  priority[((start - 1 + offset) % Len(priority)) + 1]

(* Mutated form: the search starts at the current target and takes it.     *)
FallbackOffsets_FromSelf(topology, current) == 0 .. (Len(topology.provider_priority) - 1)

(* The offsets at which the search finds a target other than the current.  *)
FallbackOffsets(topology, current) ==
  {o \in 1 .. (Len(topology.provider_priority) - 1) :
     Following(topology.provider_priority, StartIndex(topology, current), o) # current}

(***************************************************************************)
(* fallback_target_for: the first following candidate that differs from    *)
(* the current target, or none.                                            *)
(***************************************************************************)
FallbackTargetFor(topology, current) ==
  LET offsets == FallbackOffsets(topology, current)
      first   == CHOOSE o \in offsets : \A q \in offsets : o <= q
  IN IF offsets = {} THEN NoTarget
     ELSE Following(topology.provider_priority, StartIndex(topology, current), first)

(* The targets both policies route between, for the stream of one target.  *)
PrimaryTarget(topology, current) ==
  IF topology.primary_target # NoTarget THEN topology.primary_target ELSE current
=============================================================================
