-------------------------- MODULE MCResponseCache --------------------------
(* An instance of ResponseCache on a clock of half seconds: a cache        *)
(* smaller than the set of keys, TTLs that min_ttl raises and max_ttl      *)
(* cuts.  Keys and queries are interchangeable.                            *)
EXTENDS ResponseCache, TLC

MCSymmetry == Permutations(Keys) \cup Permutations(Clients)
=============================================================================
