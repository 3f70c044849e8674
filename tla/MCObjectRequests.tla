--------------------------- MODULE MCObjectRequests ---------------------------
(* A line with a property, below it a pump without one of its own, below   *)
(* that a drive without one, below that a motor with two; a childless      *)
(* asset.                                                                  *)
EXTENDS ObjectRequests

MCNodes == {"line", "pump", "drive", "motor", "shelf", "speed", "temperature", "mode"}
MCProperties == {"speed", "temperature", "mode"}
MCParent ==
  [n \in MCNodes |->
     CASE n \in {"pump", "mode"} -> "line"
       [] n = "drive" -> "pump"
       [] n = "motor" -> "drive"
       [] n \in {"speed", "temperature"} -> "motor"
       [] OTHER -> None]
MCUnknown == {"ghost"}
MCType ==
  [p \in MCProperties |-> CASE p = "speed" -> "Int32" [] p = "mode" -> "Boolean"
                            [] OTHER -> "Other"]
MCFirstData ==
  [n \in MCNodes |->
     CASE n = "speed" -> Datum(Json("number", "0"), "Good")
       [] n = "temperature" -> Datum(Json("number", "1"), "Bad")
       [] n = "mode" -> Datum(Json("boolean", "true"), "Good")
       [] OTHER -> Datum(None, "Bad")]
MCPast ==
  [n \in MCNodes |-> IF n = "speed" THEN {Datum(Json("number", "1"), "Good")} ELSE {}]
MCData ==
  {Datum(Json("number", "1"), "Good"), Datum(None, "Good")}
MCWritten == {Json("string", "true"), Wrapped(Json("number", "1"))}

Ids == {<<n>> : n \in MCNodes} \cup
       {<<a, b>> : a \in {"ghost", "mode", "pump"}, b \in MCNodes}
       \cup {<<"line", "mode">>, <<"ghost", "mode", "speed">>, <<"motor", "speed", "shelf">>}

MCRequests ==
  {[op |-> o, ids |-> i, depth |-> d, values |-> [k \in DOMAIN i |-> None]] :
     o \in {"value", "history"}, i \in Ids, d \in 0 .. 3}
  \cup UNION {{[op |-> "write", ids |-> i, depth |-> 0, values |-> v] :
                 v \in [DOMAIN i -> MCWritten]} : i \in Ids}
=============================================================================
