--------------------------- MODULE MCSafeOutFile ---------------------------
(* Two threads of one process and a second process that must not overwrite, *)
(* all writing to one path; the second also writes to a path of its own.    *)
EXTENDS SafeOutFile, TLC
CONSTANTS w1, w2, w3, w4, p1, p2, result, report
MCProcess == w1 :> p1 @@ w2 :> p1 @@ w3 :> p2 @@ w4 :> p2
MCTarget == w1 :> result @@ w2 :> result @@ w3 :> result @@ w4 :> report
MCOverwrite == w1 :> TRUE @@ w2 :> TRUE @@ w3 :> FALSE @@ w4 :> FALSE
=============================================================================
