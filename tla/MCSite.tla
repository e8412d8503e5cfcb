------------------------------- MODULE MCSite -------------------------------
(****************************************************************************)
(* Instance of Site and of IndexPage for TLC: a customer with an account,   *)
(* one who has registered or is about to; and page views and admin forms.   *)
(* The two have no state in common, so a behaviour is one of either.        *)
(****************************************************************************)
EXTENDS Site, IndexPage, TLC

CONSTANTS ann, bob, r1, r2, r3

MCTables == {[n \in {ann, bob} |-> IF n = ann THEN "active" ELSE row] :
                row \in {Nil, "inactive"}}

RequestSymmetry == Permutations(Requests)

VARIABLE pages      \* which of the two

PagesInit ==
    /\ pages \in {"site", "index"}
    /\ SiteInit /\ Init
    /\ pages = "index" => users[bob] = Nil

PagesNext ==
    \/ pages = "site" /\ SiteNext /\ UNCHANGED <<pages, indexVars>>
    \/ pages = "index" /\ Next /\ UNCHANGED <<pages, siteVars>>

PagesSpec == PagesInit /\ [][PagesNext]_<<pages, siteVars, indexVars>>
==============================================================================
