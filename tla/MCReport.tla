------------------------------- MODULE MCReport -------------------------------
(***************************************************************************)
(* Reports for TLC: two groups with every combination of cells over up to  *)
(* three seeds, and wide matrices, up to every scenario and policy, whose  *)
(* cells matter less than where their marks are put.                       *)
(***************************************************************************)
EXTENDS Report

Numbers == [x \in {"0", "0.0", "45", "52", "100", "260"} |->
              CASE x = "45" -> 45 [] x = "52" -> 52 [] x = "100" -> 100 [] x = "260" -> 260 [] OTHER -> 0]

Lengths == [p \in {POLICY_ORDER[i] : i \in DOMAIN POLICY_ORDER} |->
              CASE p = "fifo" -> 4 [] p = "fresh" -> 5 [] p = "edf_rr" -> 6 [] p = "fifo_ld" -> 7
                [] p \in {"fresh_ld", "fresh_so"} -> 8 [] p = "edf_rr_ld" -> 9
                [] p = "fresh_nodefer" -> 13 [] p = "fresh_nodefer_ld" -> 16]

At(sc, seed, p) == [scenario |-> sc, seed |-> seed, policy |-> p]

\* Cells a metric may hold: rates up to 1, whole milliseconds, or neither.
Cells(m) ==
  {"NA", "0"} \cup (CASE m = "on_time_rate" -> {"45", "100"}
                      [] m = "aoi_mean_ms" -> {"", "45", "52", "260"}
                      [] m = "over_threshold_ms_sum" -> {"100"})

\* The second group is there for none, one or both of its seeds.
Narrow ==
  UNION {[metric : {m}, cells : UNION {[{At(1, d, "fresh") : d \in 1 .. n} \cup K -> Cells(m)]
            : n \in 1 .. 3, K \in {{}, {At(1, 1, "edf_rr")}, {At(2, 1, "fresh"), At(2, 2, "edf_rr")}}}]
         : m \in PANELS \cup INT_METRICS}

\* The policies of a wide matrix: the first few, or all but the first few.
SomePolicies == {{POLICY_ORDER[i] : i \in a .. b} : a \in {1, 4}, b \in {5, 9}}

Wide ==
  {[metric |-> "aoi_mean_ms",
    cells  |-> [k \in {At(sc, 1, p) : sc \in 1 .. n, p \in ps} |->
                  IF k.policy = "fifo" THEN "NA" ELSE IF k.scenario = 1 THEN "45" ELSE "52"]]
     : n \in {1, 3, 8}, ps \in SomePolicies}

SomeResults == Narrow \cup Wide
=============================================================================
