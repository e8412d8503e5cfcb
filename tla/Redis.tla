-------------------------------- MODULE Redis --------------------------------
(****************************************************************************)
(* The Redis commands the views call through get_redis_connection('default')*)
(* as operators on the value stored under one key.  A hash maps every field *)
(* to its value, and to Nil (Python's None) where it has none.  Redis runs  *)
(* one command at a time: a command is atomic, two commands of a view are   *)
(* not.                                                                     *)
(****************************************************************************)
EXTENDS Integers, FiniteSetsExt

CONSTANT Nil

Fields(h) == {f \in DOMAIN h : h[f] # Nil}

HSet(h, f, v) == [h EXCEPT ![f] = v]

\* hdel takes several fields and ignores those that are absent.
HDel(h, F) == [f \in DOMAIN h |-> IF f \in F THEN Nil ELSE h[f]]

HLen(h) == Cardinality(Fields(h))

\* The sum of f[x] over the x in S.
SumOf(f, S) == MapThenSumSet(LAMBDA x : f[x], S)

\* The sum of int(val) over hvals.
SumVals(h) == SumOf(h, Fields(h))
==============================================================================
