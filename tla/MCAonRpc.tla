------------------------------ MODULE MCAonRpc -------------------------------
(* One request of each kind the dispatcher tells apart.                    *)
EXTENDS AonRpc

Kind(svc, func, size, version, ack) ==
  [svc |-> svc, func |-> func, size |-> size, version |-> version, ack |-> ack]

MCKinds ==
  {Kind("LPM", "CPUHP", 1, 2, "NEED_ACK"),
   Kind("LPM", "CPUHP", 1, 2, "NO_NEED_ACK"),
   Kind("LPM", "UNKNOWN", 1, 2, "NEED_ACK"),
   Kind("WDG", "PING", 1, 2, "NEED_ACK"),
   Kind("AVFS", "ANY", 1, 3, "NEED_ACK"),
   Kind("WDG", "PING", 0, 2, "NEED_ACK"),
   Kind("LPM", "CPUHP", 1, 1, "NEED_ACK")}
=============================================================================
