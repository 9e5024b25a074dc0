-------------------------- MODULE MCGalaTransaction --------------------------
(***************************************************************************)
(* Instances of GalaTransaction for TLC.  Three operations that compete for*)
(* a slot, one with an external call, are submitted more than once, alone  *)
(* and in batches.                                                         *)
(***************************************************************************)
EXTENDS GalaTransaction

CONSTANTS u1, u2, u3, b1, b2, s1,       \* keys
          inc, clr, ext,                \* operations
          t1, t2, t3, t4                \* transactions

MCKeys   == {u1, u2, u3, b1, b2, s1}
MCValues == 1 .. 2

MCOps       == {inc, clr, ext}
MCUniqueKey == [op \in MCOps |-> CASE op = inc -> u1 [] op = clr -> u2 [] op = ext -> u3]
MCSlot      == [op \in MCOps |-> s1]

(* An operation with an external call, two batches that share operations,  *)
(* and a dry run of one of these.                                          *)
RaceTx         == {t1, t2, t3, t4}
RaceOperations == [t \in RaceTx |-> CASE t = t1 -> <<ext>>
                                     [] t = t2 -> <<inc, clr, ext>>
                                     [] t = t3 -> <<clr, inc>>
                                     [] t = t4 -> <<inc>>]
RaceBatches    == {t2, t3}
RaceBatchKey   == [t \in RaceBatches |-> IF t = t2 THEN b1 ELSE b2]
=============================================================================
