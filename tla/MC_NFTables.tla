----------------------------- MODULE MC_NFTables -----------------------------
(* Instantiates NFTables for TLC: goroutines, families, names and set      *)
(* names are model values; the kernel behaviours are per-run switches.     *)
EXTENDS NFTables, TLC

CONSTANTS t1, t2, ipv4, ipv6, nA, nB, s1

\* Messages a connection may hold before a flush (bounds the queue).
CONSTANT MaxQueue

QueueBound == Len(queue) <= MaxQueue

OneThread == {t1}
TwoThreads == {t1, t2}

\* Goroutines are interchangeable, and so are the two families: no step
\* tests a family or a goroutine by identity.
Symmetry == Permutations(TwoThreads) \cup Permutations({ipv4, ipv6})
=============================================================================
