-------------------------- MODULE MCRemoteControl --------------------------
(***************************************************************************)
(* Two links, two devices on port 0 (addresses 1 and 2) and one on           *)
(* port 1 (address 3), executions for both devices of port 0 and a           *)
(* selection for one of them.                                               *)
(***************************************************************************)
EXTENDS RemoteControl

CONSTANTS on1, on2, sel1

MCAddr == [c \in {on1, on2, sel1} |-> IF c = on2 THEN 2 ELSE 1]
MCKind == [c \in {on1, on2, sel1} |-> IF c = sel1 THEN "select" ELSE "execute"]
MCLinks == {"a", "b"}
MCPorts == {0, 1}
MCDevAddr == [p \in MCPorts |-> IF p = 0 THEN [i \in 0..1 |-> i + 1]
                                        ELSE [i \in {0} |-> 3]]
MCThree == {on1, on2, sel1}
=============================================================================
