-------------------------- MODULE ReplayAttribution --------------------------
(***************************************************************************)
(* The arithmetic of a spot replay's report: the events a price series is  *)
(* said to contain (scripts/spotfsm/replay.py), interruption notices moved *)
(* onto its points, and the credit migrations get for events               *)
(* (scripts/telemetry_replay/analysis.py).  A point is [ts, price]; prices *)
(* are integers, the configured multiplier and increment hundredths;       *)
(* indices start at one.                                                   *)
(***************************************************************************)
EXTENDS Integers, Sequences, FiniteSets

Least(S) == CHOOSE i \in S : \A j \in S : i <= j

(* Points within the lookahead of an anchor that reach its target price.   *)
Spikes(points, anchor, cfg) ==
  {i \in anchor + 1 .. anchor + cfg.event_lookahead_points :
     /\ i \in DOMAIN points
     /\ 100 * points[i].price >= cfg.event_spike_multiplier * points[anchor].price
     /\ 100 * points[i].price >= 100 * points[anchor].price + cfg.event_spike_absolute}

PriceEvent(points, anchor, i) ==
  [anchor_index |-> anchor, event_index |-> i, event_ts |-> points[i].ts]

(* Mutated form: the scan goes on from the point after the anchor.         *)
ScanFrom_NextAnchor(points, cfg) ==
  LET From[anchor \in 1 .. Len(points) + 1] ==
        IF anchor >= Len(points) THEN << >>
        ELSE IF Spikes(points, anchor, cfg) = {} THEN From[anchor + 1]
        ELSE <<PriceEvent(points, anchor, Least(Spikes(points, anchor, cfg)))>>
             \o From[anchor + 1]
  IN From

(* The events found when the scan stands at each anchor; after an event it *)
(* goes on from the point behind it.                                       *)
ScanFrom(points, cfg) ==
  LET From[anchor \in 1 .. Len(points) + 1] ==
        IF anchor >= Len(points) THEN << >>
        ELSE IF Spikes(points, anchor, cfg) = {} THEN From[anchor + 1]
        ELSE LET found == Least(Spikes(points, anchor, cfg))
             IN <<PriceEvent(points, anchor, found)>> \o From[found + 1]
  IN From

detect_price_spike_events(points, cfg) == ScanFrom(points, cfg)[1]

-----------------------------------------------------------------------------
Distance(a, b) == IF a >= b THEN a - b ELSE b - a

(* min with a key: the first of the closest points.                        *)
ClosestIndex(points, ts) ==
  Least({i \in DOMAIN points : \A j \in DOMAIN points :
           Distance(points[i].ts, ts) <= Distance(points[j].ts, ts)})

(* The events of a sequence of notice times.                               *)
MappedEvents(points, notices) ==
  [k \in DOMAIN notices |->
     LET i == ClosestIndex(points, notices[k]) IN PriceEvent(points, i, i)]

-----------------------------------------------------------------------------
(* attribute_action_indices_to_events                                      *)

(* Mutated form: an action on the event's own row counts.                  *)
Candidates_Inclusive(event, actions, lookback) ==
  {i \in actions : event.event_index - lookback <= i /\ i <= event.event_index}

Candidates(event, actions, lookback) ==
  {i \in actions : event.event_index - lookback <= i /\ i < event.event_index}

MatchedEvents(events, actions, lookback) ==
  {k \in DOMAIN events : Candidates(events[k], actions, lookback) # {}}

ChosenAction(event, actions, lookback) == Least(Candidates(event, actions, lookback))

AssignedActions(events, actions, lookback) ==
  {ChosenAction(events[k], actions, lookback) : k \in MatchedEvents(events, actions, lookback)}

(* The lead time each matched event is reported with.                      *)
LeadTimes(points, events, actions, lookback) ==
  [k \in MatchedEvents(events, actions, lookback) |->
     events[k].event_ts - points[ChosenAction(events[k], actions, lookback)].ts]

(* _summarize_policy; the rates are quotients of these counts.             *)
PolicySummary(points, events, actions, lookback) ==
  [migration_count      |-> Cardinality(actions),
   event_count          |-> Len(events),
   avoided_event_count  |-> Cardinality(MatchedEvents(events, actions, lookback)),
   false_positive_count |-> Cardinality(actions \ AssignedActions(events, actions, lookback)),
   lead_times           |-> LeadTimes(points, events, actions, lookback)]
=============================================================================
