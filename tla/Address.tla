------------------------------- MODULE Address -------------------------------
(****************************************************************************)
(* Delivery addresses: GET and POST /user/address.  The first address of a  *)
(* customer becomes the default one: get_default_address and the insert are *)
(* two statements outside a transaction.                                    *)
(****************************************************************************)
EXTENDS Account, FiniteSets

AddressRow == [user: Names, is_default: BOOLEAN]

ASSUME AddressAssumption == Nil \notin AddressRow

VARIABLES
    address,        \* df_address: the row a request inserted, Nil before
    dreq            \* local variables of each request

addressVars == <<address, dreq>>

AddressIdle == [pc |-> "idle", user |-> Nil, is_default |-> FALSE, res |-> Nil,
                seen |-> {}]         \* for the properties: the rows at the query

AddressInit ==
    /\ address = [r \in Requests |-> Nil]
    /\ dreq = [r \in Requests |-> AddressIdle]

Rows(u) == {r \in Requests : address[r] # Nil /\ address[r].user = u}
Defaults(u) == {r \in Rows(u) : address[r].is_default}

\* Mutant: is_default does not depend on the query.
GetDefaultAddressIgnored(r, u) ==
    /\ dreq[r].pc = "idle"
    /\ dreq' = [dreq EXCEPT ![r] = [@ EXCEPT !.user = u, !.seen = Rows(u),
                                             !.is_default = TRUE, !.pc = "create"]]
    /\ UNCHANGED address

\* The page, a form that is incomplete or has a bad phone number, and an
\* accepted form.  get_default_address lets MultipleObjectsReturned through.
GetDefaultAddress(r, u) ==
    /\ dreq[r].pc = "idle"
    /\ \E kind \in {"page", "form"} :
          dreq' = [dreq EXCEPT ![r] =
            [@ EXCEPT !.user = u, !.seen = Rows(u),
                      !.is_default = kind = "form" /\ Defaults(u) = {},
                      !.pc = IF Cardinality(Defaults(u)) =< 1 /\ kind = "form"
                             THEN "create" ELSE "done",
                      !.res = IF Cardinality(Defaults(u)) > 1 THEN ServerError
                              ELSE IF kind = "page" THEN "page" ELSE Nil]]
    /\ UNCHANGED address

AddressBadForm(r, u) ==
    /\ dreq[r].pc = "idle"
    /\ dreq' = [dreq EXCEPT ![r] = [@ EXCEPT !.user = u, !.pc = "done", !.res = "page"]]
    /\ UNCHANGED address

\* Address.objects.create and the redirect.
CreateAddress(r) ==
    /\ dreq[r].pc = "create"
    /\ address' = [address EXCEPT ![r] =
                     [user |-> dreq[r].user, is_default |-> dreq[r].is_default]]
    /\ dreq' = [dreq EXCEPT ![r] = [@ EXCEPT !.pc = "done", !.res = "redirect"]]

AddressCrash(r) ==
    /\ dreq[r].pc = "create"
    /\ dreq' = [dreq EXCEPT ![r].pc = "dead"]
    /\ UNCHANGED address

AddressStart(r, u) == GetDefaultAddress(r, u) \/ AddressBadForm(r, u)

AddressView(r) == CreateAddress(r) \/ AddressCrash(r)

------------------------------------------------------------------------------
(* Properties.                                                              *)

AddressRequest == [pc: {"idle", "create", "done", "dead"}, user: Names \cup {Nil},
                   is_default: BOOLEAN, res: {Nil, "page", "redirect", ServerError},
                   seen: SUBSET Requests]

AddressTypeOK ==
    /\ address \in [Requests -> {Nil} \cup AddressRow]
    /\ dreq \in [Requests -> AddressRequest]

\* A row has the fields of the request that inserted it, and a form that is
\* about to be saved saw a default address, or will insert one.
AddressLocal(l, row) ==
    /\ l.pc = "idle" => l = AddressIdle
    /\ l.pc = "create" => l.user \in Names
    /\ row # Nil => l.pc = "done" /\ row.user = l.user /\ row.is_default = l.is_default

\* "when there is a default address the new one is not default": a customer
\* with addresses has a default one, whatever requests crashed or overlapped.
SomeDefault ==
    /\ \A u \in Names : Rows(u) # {} => Defaults(u) # {}
    /\ \A r \in Requests : dreq[r].pc = "create" /\ ~dreq[r].is_default =>
          Defaults(dreq[r].user) # {}

\* Two default addresses, which make every page that asks for the default
\* one fail, come only from requests that overlapped: neither saw the row of
\* the other, as a request that will insert a default one saw none.
TwoDefaultsOnlyByRace ==
    /\ \A u \in Names : \A q, r \in Defaults(u) :
          q # r => q \notin dreq[r].seen /\ r \notin dreq[q].seen
    /\ \A r \in Requests : dreq[r].is_default => dreq[r].seen = {}

\* A customer with addresses has one default address; the only other thing that
\* can happen is two of them, by a race.
OneDefaultAddress ==
    /\ \A r \in Requests : AddressLocal(dreq[r], address[r])
    /\ SomeDefault /\ TwoDefaultsOnlyByRace
==============================================================================
