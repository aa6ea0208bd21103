---------------------------- MODULE MCSppExchange ----------------------------
(* Commands of different kinds, so that one's answer shows if it is taken   *)
(* for another's; two adapters, so that one closes or is refused while the  *)
(* next is opened; two message counters, so that they wrap at once.         *)
EXTENDS SppExchange

MCKindOf == [battery |-> "battery", ports |-> "ports", write |-> "fs:write"]
=============================================================================
