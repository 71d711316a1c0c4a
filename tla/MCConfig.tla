------------------------------- MODULE MCConfig -------------------------------
(* Two devices that may want the same line, one of which may be dropped by  *)
(* its line or its speed dials (the first of three is not defined), and a   *)
(* guest device, allowed or not.  One phone is configured, the other a      *)
(* guest.                                                                   *)
EXTENDS Config

CONSTANTS d1, d2, guest, other, l1, l2, s1, s2

MCDevices == {d1, d2, guest}
MCPhones == {d1, other}
MCLines == {l1, l2}
MCSpeedDials == {s1, s2}

File(second, third, guests) ==
  [devices |-> MCDevices, lines |-> {l1, l2}, speeddials |-> {s2},
   line |-> [d \in MCDevices |-> CASE d = d1 -> l1 [] d = d2 -> second [] OTHER -> third],
   dials |-> [d \in MCDevices |-> IF d = d2 THEN << >> ELSE <<s1, s2, s2>>],
   guest |-> guests]

MCFiles ==
  {File(None, l1, FALSE), File(None, l2, TRUE), File(l1, l1, TRUE), File(l1, l2, TRUE),
   File(l1, l2, FALSE)}
=============================================================================
