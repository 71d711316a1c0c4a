----------------------------- MODULE MCRegistry -----------------------------
EXTENDS Registry, TLC

CONSTANTS phoneA, phoneB, line1, line2

(* First A is configured, and B is a guest; then they change roles, keep   *)
(* their lines, and one guest less is accepted.                            *)
MCDeviceLine ==
  [c \in 0 .. 1 |-> [n \in {phoneA, phoneB} |->
     CASE c = 0 /\ n = phoneA -> line1
       [] c = 1 /\ n = phoneB -> line2
       [] OTHER -> None]]
MCGuestLine  == [c \in 0 .. 1 |-> IF c = 0 THEN line2 ELSE line1]
MCMaxGuests  == [c \in 0 .. 1 |-> 2 - c]

Symmetry == Permutations(Sessions) \cup Permutations(Devices)
=============================================================================
