------------------------------ MODULE MCPages -------------------------------
EXTENDS Pages

MCMonthLengths == <<3, 2, 3, 2, 2>>
MCOwner == [a \in Accounts |-> IF a = "bobs" THEN "bob" ELSE "ann"]
MCOpening == [a \in Accounts |-> IF a \in CreditCards THEN 10 ELSE 4]
MCBank == [c \in CreditCards |-> CASE c = "sber" -> "Sberbank"
            [] c = "raif" -> "Raiffeisenbank" [] OTHER -> "other"]
MCCreditLimit == [c \in CreditCards |-> 10]

RowOf(kind, account, to, at, amount, category) ==
    [kind |-> kind, account |-> account, to |-> to, at |-> at,
     amount |-> amount, category |-> category]
Own(kind, at, amount) == RowOf(kind, "anns", "anns", at, amount, "food")

Anns(page) == [page |-> page, user |-> "ann", family |-> FALSE]

(* Small histories, of which every page is followed.                         *)
MCChanges == {Own("expense", 13, 1), Own("plan", 12, 1),
              RowOf("income", "bobs", "bobs", 13, 1, "food")}
Followed ==
    /\ rows = {} /\ loans = {} /\ now = 14
    /\ asked \in {Anns(p) : p \in PageNames}
                    \cup {[Anns("statistics") EXCEPT !.family = TRUE]}

(* Larger ones, in which the figures are compared: two rows of any kind and  *)
(* moment, purchases and payments of a card, a loan.                         *)
Money == {Own(k, at, 1) : k \in {"income", "purchase", "return", "interest"},
                          at \in 6 .. 17}
    \cup {RowOf("expense", "anns", "anns", at, 2, c) :
            c \in {"food", "fun"}, at \in 6 .. 17}
    \cup {RowOf("transfer", "anns", "card", at, 1, "food") : at \in {10, 13}}
Bought(c) == {RowOf(k, c, c, at, 4, "food") : k \in {"expense", "purchase"},
                                              at \in {7, 9, 11, 12, 13, 15, 17}}
Paid(c) == {RowOf(k, c, c, at, n, "food") : k \in {"income", "return"},
                at \in {7, 9, 11, 13, 15, 17}, n \in {1, 5}}
    \cup {RowOf("transfer", "anns", c, at, 2, "food") : at \in {9, 13, 17}}
    \cup {RowOf("transfer", c, "anns", at, 2, "food") : at \in {9, 13}}
Compared ==
    /\ asked = Anns("profile")
    /\ \/ /\ loans = {} /\ now \in {12, 13, 15}
          /\ \E r, o \in Money : r.at <= o.at /\ rows = {r, o}
       \/ /\ loans = {} /\ now \in {13, 15}
          /\ \E c \in CreditCards : \E r \in Bought(c) : \E o, p \in Paid(c) :
                o.at <= p.at /\ rows = {r, o, p}
       \/ /\ rows = {} /\ now = 13
          /\ \E l \in [user : {"ann"}, day : {3}, amount : 1 .. 40,
                        months : 1 .. 4, kind : LoanKinds,
                        status : {"scheduled"}] : loans = {l}

MCInit == (Followed \/ Compared) /\ Quiet

MCSpec == MCInit /\ [][Next]_vars

MCNewLoans == {[user |-> "ann", day |-> 6, amount |-> 2, months |-> 1,
                kind |-> "Annuity", status |-> "created"]}

WorkersAlike == Permutations(Workers)
OwnKeysOnly == version["bob"] = 0
SmallOnly == rows \subseteq MCChanges /\ loans \subseteq
    MCNewLoans \cup {[l EXCEPT !.status = s] : l \in MCNewLoans,
                        s \in {"scheduled", "deleted"}}
=============================================================================
