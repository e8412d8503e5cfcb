------------------------------ MODULE MCMaster ------------------------------
(****************************************************************************)
(* Instances of Master for TLC: two workers, with and without cheaper, and  *)
(* for each the kinds of events that may happen, twice at most.             *)
(****************************************************************************)
EXTENDS Master

Plain(events) == [cheaper |-> FALSE, lazy |-> FALSE, others |-> FALSE, events |-> events]
Cheaper(events) == [Plain(events) EXCEPT !.cheaper = TRUE, !.others = TRUE]

MCConfigs == {
    Plain({"signal", "death", "fork"}), Plain({"signal", "lifetime"}),
    Plain({"chain", "death", "harakiri"}), Plain({"chain", "signal"}),
    [Plain({"signal", "fifo"}) EXCEPT !.lazy = TRUE, !.others = TRUE],
    [Plain({"load", "fifo", "death"}) EXCEPT !.lazy = TRUE],
    Plain({"go_cheap", "signal"}), Plain({"idle", "fifo"}),
    Cheaper({"delta", "harakiri"}), Cheaper({"cheap", "chain"}), Cheaper({"signal", "fork"})}

\* For the liveness properties.
LiveConfigs == {
    Plain({"signal", "death"}), Plain({"chain", "death"}), Plain({"harakiri", "lifetime"}),
    Plain({"chain", "signal"}), [Plain({"signal"}) EXCEPT !.lazy = TRUE, !.others = TRUE]}
==============================================================================
