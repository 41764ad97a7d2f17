--------------------------- MODULE MCRuntimeLoader ---------------------------
(* Two clients of one document, or one in a page and one in a worker.      *)
EXTENDS RuntimeLoader
CONSTANTS a, b, page, worker

MCLayouts == {[l \in Loads |-> page], [l \in Loads |-> IF l = a THEN page ELSE worker]}
=============================================================================
