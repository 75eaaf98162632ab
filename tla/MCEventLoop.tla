---------------------------- MODULE MCEventLoop ----------------------------
(* A small instance of the loop: the requests of Long have two chunks of    *)
(* one row, the others one chunk of two rows.                               *)
EXTENDS EventLoop

CONSTANT Long

MCNumChunks == [r \in Requests |-> IF r \in Long THEN 2 ELSE 1]
MCRows == [r \in Requests |-> IF r \in Long THEN 1 ELSE 2]
=============================================================================
