----------------------------- MODULE Histogram ------------------------------
(***************************************************************************)
(* The latency histogram of the load generator (src/research/loadgen/      *)
(* loadgen.c), which a thread fills and main reads, and the sums over its  *)
(* buckets and over the threads.                                           *)
(***************************************************************************)
EXTENDS Integers

CONSTANT HBUCKETS   \* the last bucket, for the overflow

Buckets == 0..HBUCKETS

\* The prefix sums of f: Upto(f, n)[k] is f[0] + ... + f[k - 1].
Upto(f, n) ==
  LET s[k \in 0..n] == IF k = 0 THEN 0 ELSE s[k - 1] + f[k - 1]
  IN  s

\* f[0] + ... + f[n - 1]
SumTo(f, n) == Upto(f, n)[n]
=============================================================================
