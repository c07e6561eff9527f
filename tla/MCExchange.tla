----------------------------- MODULE MCExchange -----------------------------
(* A small instance of Exchange: a maker and a second node, one drop of two  *)
(* chunks.                                                                   *)
EXTENDS Exchange, TLC

CONSTANTS maker, other, parcel

MCOrigin == parcel :> maker

MCChunkCount == parcel :> 2

=============================================================================
