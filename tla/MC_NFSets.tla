------------------------------ MODULE MC_NFSets ------------------------------
(* Instantiates NFSets for TLC: goroutines, set names and elements are    *)
(* model values; the kernel behaviours are per-run switches.               *)
EXTENDS NFSets

CONSTANTS t1, t2, sA, sB, e1, zero

\* Messages a connection may hold before a flush (bounds the queue).
CONSTANT MaxQueue

QueueBound == Len(queue) <= MaxQueue

OneThread == {t1}
TwoThreads == {t1, t2}
=============================================================================
