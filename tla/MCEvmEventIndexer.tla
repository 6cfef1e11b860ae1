------------------------- MODULE MCEvmEventIndexer -------------------------
(* EvmEventIndexer for TLC.                                                *)
EXTENDS EvmEventIndexer

(* Bound: gaps, crashes, exceptions, failures, stops and reorganisations together.
   Any two of them may meet, in any order. *)
CONSTANT MaxFaults

FaultBound ==
    budget.gaps + budget.crashes + budget.throws + budget.failures + budget.stops + chain.forks
        <= MaxFaults
=============================================================================
