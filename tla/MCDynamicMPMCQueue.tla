------------------------- MODULE MCDynamicMPMCQueue -------------------------
\* A small instance of DynamicMPMCQueue: see the .cfg file for the numbers.
EXTENDS DynamicMPMCQueue, TLC

RECURSIVE CapacitiesFrom(_)
CapacitiesFrom(cap) ==
  <<cap>> \o IF cap = Capacity THEN <<>>
             ELSE CapacitiesFrom(Smaller(Capacity, cap * Multiplier))

AllCapacities == CapacitiesFrom(Smaller(MinCapacity, Capacity))
=============================================================================
