--------------------------- MODULE MCGraphicsJobs ---------------------------
(* Two jobs of two owners, and room for one in the queue.                  *)
EXTENDS GraphicsJobs

CONSTANTS first, other, realvis

JobOwner == [j \in Jobs |-> IF j = other THEN "guest" ELSE "owner"]
=============================================================================
