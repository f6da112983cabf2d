---------------------------- MODULE MCProbeReplay ----------------------------
(***************************************************************************)
(* Small probe files: every interleaving of the samples of two models.     *)
(***************************************************************************)
EXTENDS ProbeReplay

CONSTANTS MaxSamples, Minutes

(* The numbers main sets, and the defaults for the rest; short counts.     *)
MCConfigs ==
  {[history_window |-> 3,
    hazard_weight |-> 10, rupture_weight |-> 10,
    hazard_delta_weight |-> 20, rupture_delta_weight |-> 20,
    hazard_floor |-> 100, rupture_floor |-> 100,
    min_hazard_delta |-> 50, min_rupture_delta |-> 50,
    emergency_hazard |-> 600, emergency_rupture |-> 600,
    recovery_hazard |-> 50, recovery_rupture |-> 50,
    score_observe_threshold |-> 300, score_route_threshold |-> 800,
    min_consecutive_signals |-> counts[1], cooldown_windows |-> counts[2],
    coherence_ceiling |-> 300, low_coherence_bias |-> 200,
    min_entropy_gap |-> 400, entropy_gap_bias |-> 300] : counts \in {<<1, 3>>, <<2, 2>>}}

Late == 4000
Stalled == 9000

Level(h, r, c, e) == [hazard |-> h, rupture |-> r, coherence |-> c, entropy |-> e]

(* The more late samples the last two hold, the worse the window looks;    *)
(* two stalled ones are an emergency.                                      *)
MCEncode(latencies) ==
  LET late == {i \in {Len(latencies) - 1, Len(latencies)} : latencies[i] >= Late}
      stalled == {i \in late : latencies[i] >= Stalled}
  IN CASE late = {}                -> Level(40, 20, 600, 620)
       [] Cardinality(late) = 1    -> Level(300, 200, 400, 600)
       [] Cardinality(stalled) = 2 -> Level(700, 650, 100, 750)
       [] OTHER                    -> Level(500, 450, 250, 700)

MCWindows == {MCEncode(<<100, 100>>), MCEncode(<<100, Late>>), MCEncode(<<Late, Late>>),
              MCEncode(<<Stalled, Stalled>>)}

(* One sample of a or b every Minutes minutes: good, late, or stalled and  *)
(* in the end failed.                                                      *)
MCInputs ==
  UNION {[1 .. n -> {"a", "b"} \X {"good", "late", "stalled"}] : n \in 1 .. MaxSamples}

MCRecords(choice) ==
  [i \in DOMAIN choice |->
     [model   |-> choice[i][1],
      ts      |-> i * Minutes,
      failed  |-> choice[i][2] = "stalled",
      latency |-> CASE choice[i][2] = "good"    -> 100
                    [] choice[i][2] = "late"    -> Late
                    [] choice[i][2] = "stalled" -> Stalled]]

(* A clock that runs backwards.                                            *)
Backwards(records) ==
  [i \in DOMAIN records |-> [records[i] EXCEPT !.ts = records[Len(records) + 1 - i].ts]]

MCFiles ==
  {MCRecords(choice) : choice \in MCInputs}
  \cup {Backwards(MCRecords(choice)) : choice \in {c \in MCInputs : DOMAIN c = 1 .. 3}}
=============================================================================
