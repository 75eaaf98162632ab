--------------------------- MODULE MCActionReplay ---------------------------
(* A small instance of record and replay: chunk ids are numbers, and a      *)
(* chunk is its own request (request_id is a digest of its identity).       *)
EXTENDS ActionReplay

CONSTANTS p1, p2, p3

MCStateIds == 0 .. 3
MCTicketIds == 1 .. 8
MCRequestOf == [s \in MCStateIds |-> s]
MCNumChunks == [p \in Prompts |-> IF p = p1 THEN 2 ELSE 1]
=============================================================================
