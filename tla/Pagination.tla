----------------------------- MODULE Pagination -----------------------------
(****************************************************************************)
(* The page numbers of the order list and of the item list.  Both views     *)
(* have the same code: a page past the end becomes page 1, Django's         *)
(* Paginator refuses what is left outside 1..num_pages, and at most five    *)
(* page links are shown around the current one.                             *)
(****************************************************************************)
EXTENDS Naturals

\* Paginator.num_pages with one object to a page: an empty list has one page.
NumPages(count) == IF count = 0 THEN 1 ELSE count

\* if page > paginator.num_pages: page = 1
CheckedPage(page, num_pages) == IF page > num_pages THEN 1 ELSE page

\* paginator.page(page) raises EmptyPage below 1.
PageExists(page, num_pages) == page \in 1..num_pages

\* Mutant: the last five pages are taken one page too late.
PagesLate(page, num_pages) ==
    IF num_pages < 5 THEN 1..num_pages
    ELSE IF page < 3 THEN 1..5
    ELSE IF page >= num_pages THEN (num_pages - 4)..num_pages
    ELSE (page - 2)..(page + 2)

Pages(page, num_pages) ==
    IF num_pages < 5 THEN 1..num_pages
    ELSE IF page < 3 THEN 1..5
    ELSE IF num_pages - page =< 2 THEN (num_pages - 4)..num_pages
    ELSE (page - 2)..(page + 2)

\* What the links promise: the current page is among them, each of them
\* exists, and there are five of them or all there are.
WindowOf(pages, page, num_pages) ==
    \E first \in 1..num_pages :
        /\ page \in pages
        /\ pages \subseteq 1..num_pages
        /\ pages = first..(IF num_pages < 5 THEN num_pages ELSE first + 4)
        /\ num_pages < 5 => first = 1
==============================================================================
