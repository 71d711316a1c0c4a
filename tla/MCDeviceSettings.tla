--------------------------- MODULE MCDeviceSettings ---------------------------
(* A configuration with a mailbox, a speed dial with a lamp and one without *)
(* one; one that can replace it at once (the second speed dial calls        *)
(* another extension); and one that needs a reset: the lamp goes.           *)
EXTENDS DeviceSettings

CONSTANTS x, y

Dial(blf, exten) == [label |-> "dial", blf |-> blf, exten |-> exten]
Config(first, second) ==
  [key |-> "any", voicemail |-> y, dials |-> <<first, second>>, rest |-> "any"]

MCCfgs ==
  {Config(Dial(TRUE, x), Dial(FALSE, x)), Config(Dial(TRUE, x), Dial(FALSE, y)),
   Config(Dial(FALSE, x), Dial(FALSE, x))}
=============================================================================
