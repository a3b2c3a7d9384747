---------------------------- MODULE MCOrderBook ----------------------------
(* One token: the seller s signs the asks and the collector t the bid.       *)
EXTENDS OrderBook

CONSTANTS s, t

TheOfferer == [o \in Orders |-> IF o \in Asks THEN s ELSE t]
ThePrice == [o \in Orders |-> 1]
=============================================================================
