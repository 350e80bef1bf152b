---------------------------- MODULE MCSetupWizard ----------------------------
(* Two alliances, three hexes in a row, and a host who opens the wizard on   *)
(* each of its steps.                                                        *)
EXTENDS SetupWizard, TLC

CONSTANTS A, B

Room(step, names, mine, yours) ==
  [phase |-> "Lobby", step |-> step, located |-> step > 0, names |-> names,
   member |-> (Host :> mine) @@ (Guest :> yours), here |-> TRUE,
   tile |-> 2, footprint |-> 6, mode |-> "Centered", area |-> Canvas,
   roles |-> FALSE, beacon |-> FALSE]

MCStarts ==
  {Room(0, <<>>, Nothing, Nothing), Room(1, <<A, B>>, A, B),
   Room(2, <<A, B>>, A, B), Room(3, <<A, B>>, A, B), Room(4, <<A, B>>, A, B)}
=============================================================================
