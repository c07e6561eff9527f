-------------------------------- MODULE MCP2p --------------------------------
(* A small instance of P2p: one drop with a chunk, a target and a decoy.      *)
EXTENDS P2p, TLC

CONSTANTS d, noise, here, there, away

MCAsk == {Want(d), Want(noise), WantChunk(d, 0), Presence([cell |-> here]), Presence([cell |-> there])}

MCInitial == {EmptyStore, [drops |-> d :> d, chunks |-> <<d, 0>> :> "whole"]}

==============================================================================
