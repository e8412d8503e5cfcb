---------------------------- MODULE MCUwsgiCache ----------------------------
(****************************************************************************)
(* Instances of UwsgiCache for TLC.  Three of the four keys collide, and    *)
(* there is room for three items.                                           *)
(****************************************************************************)
EXTENDS UwsgiCache, TLC

CONSTANTS k1, k2, k3, k4

MCHash == (k1 :> 0) @@ (k2 :> 0) @@ (k3 :> 0) @@ (k4 :> 1)

\* The keys that collide, and the readers, are interchangeable.
Symmetry == Permutations({k1, k2, k3}) \cup Permutations(Reader)

Basic == [bitmap |-> FALSE, purge_lru |-> FALSE, lazy_expire |-> FALSE,
          sweep_on_full |-> 0, clear_on_full |-> FALSE, udp |-> FALSE, store |-> FALSE,
          lifetimes |-> {0}]
Timed == [Basic EXCEPT !.lifetimes = {0, 2}]

MCCaches == {
    [Timed EXCEPT !.udp = TRUE, !.lifetimes = {1}], [Timed EXCEPT !.store = TRUE],
    [Basic EXCEPT !.bitmap = TRUE, !.clear_on_full = TRUE, !.store = TRUE],
    [Basic EXCEPT !.purge_lru = TRUE, !.store = TRUE],
    [Basic EXCEPT !.purge_lru = TRUE, !.bitmap = TRUE],
    [Timed EXCEPT !.purge_lru = TRUE, !.lazy_expire = TRUE],
    [Timed EXCEPT !.bitmap = TRUE, !.lazy_expire = TRUE, !.lifetimes = {1}],
    [Timed EXCEPT !.lazy_expire = TRUE, !.sweep_on_full = 1],
    [Timed EXCEPT !.sweep_on_full = 2, !.clear_on_full = TRUE]}
==============================================================================
