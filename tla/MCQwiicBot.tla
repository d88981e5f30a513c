----------------------------- MODULE MCQwiicBot -----------------------------
(* The parameters of the QwiicBot that its control reads, and settings that *)
(* are accepted, promoted, out of range, of the wrong type and read-only.  *)
EXTENDS QwiicBot

Number(type, default, min, max) ==
  [type |-> type, default |-> default, min |-> min, max |-> max,
   read_only |-> FALSE, callback |-> FALSE]
MCNames == {"max_speed", "stop_distance", "autonomous", "id"}
MCDeclared == [n \in MCNames |->
  CASE n = "max_speed" -> Number("DOUBLE", 60, 0, 100)
    [] n = "stop_distance" -> Number("DOUBLE", 15, 2, 200)
    [] n = "autonomous" -> [Number("BOOL", 0, Unlimited, Unlimited) EXCEPT !.callback = TRUE]
    [] OTHER -> [Number("INTEGER", 1, Unlimited, Unlimited) EXCEPT !.read_only = TRUE]]

Setting(n, t, v) == [name |-> n, value |-> [type |-> t, data |-> v]]
MCSettings == {Setting("autonomous", "BOOL", 1), Setting("autonomous", "BOOL", 0),
               Setting("max_speed", "INTEGER", 100), Setting("max_speed", "DOUBLE", 101),
               Setting("stop_distance", "DOUBLE", 120), Setting("autonomous", "DOUBLE", 1),
               Setting("id", "INTEGER", 2), Setting("typo", "DOUBLE", 1)}
MCSpeeds == {-100, 100}
=============================================================================
