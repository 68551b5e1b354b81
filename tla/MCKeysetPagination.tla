------------------------- MODULE MCKeysetPagination -------------------------
(* Rows of the three tables; the primary key breaks the ties between e1 and  *)
(* e2 and between a1 and a2; a3 is an anomaly of another user, between those *)
(* two.                                                                      *)
EXTENDS KeysetPagination

CONSTANTS e1, e2, e3, w1, w2, a1, a2, a3

MCRows == {e1, e2, e3, w1, w2, a1, a2, a3}
MCSelected == [e \in Endpoints |->
    CASE e = "transactions" -> {e1, e2, e3}
      [] e = "aggregates" -> {w1, w2}
      [] e = "user_anomalies" -> {a1, a2}
      [] e = "anomalies" -> {a1, a2, a3}]
MCTable == [r \in MCRows |->
    CASE r \in {e1, e2, e3} -> "events"
      [] r \in {w1, w2} -> "window_aggregates"
      [] OTHER -> "anomalies"]
MCTime == [r \in MCRows |-> CASE r \in {e3, w2} -> 2 [] r = w1 -> 0 [] OTHER -> 1]
MCId == [r \in MCRows |->
    CASE r \in {e2, w1, a3} -> 2 [] r = a2 -> 3 [] OTHER -> 1]
=============================================================================
