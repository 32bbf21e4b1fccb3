------------------------------ MODULE ListFilter ------------------------------
(***************************************************************************)
(* Lists with some of their elements left out, as the pages and the        *)
(* gateway filter them (web/app/streams/page.tsx, web/app/decisions/       *)
(* page.tsx, internal/gateway/gateway.go), and lists that are sorted: by   *)
(* time, as an indexer has it (internal/httpapi/service.go), or by the     *)
(* text of the time, which is all that the gateway has.  SelectSeq and     *)
(* SortSeq would say the same, but take operators, of which nothing can be *)
(* proved.                                                                 *)
(*                                                                         *)
(* Times are the fraction of one second: its digits are two here and nine  *)
(* in the code.  All processes write the times of one zone.                *)
(***************************************************************************)
EXTENDS Naturals, Sequences, FiniteSets

\* What a list has at the positions of a set, in its order.
Picked(l, I) ==
    [n \in 1..Cardinality(I) |-> l[CHOOSE i \in I : Cardinality({j \in I : j < i}) = n - 1]]

\* The fraction as it is written: RFC 3339 without zeros at the end.
Written(t) ==
    IF t = 0 THEN <<>> ELSE IF t % 10 = 0 THEN <<t \div 10>> ELSE <<t \div 10, t % 10>>

\* The text goes on with a "Z", which is above the digits and the point.
TextBefore(t, u) ==
    LET a == Written(t) b == Written(u) IN
    \E i \in 1..(Len(a) + 1) :
        /\ \A j \in 1..(i - 1) : j \in DOMAIN b /\ a[j] = b[j]
        /\ i <= Len(a) /\ (i > Len(b) \/ a[i] < b[i])

Fractions == 0..99
ByTime == {p \in Fractions \X Fractions : p[1] < p[2]}
ByText == {p \in Fractions \X Fractions : TextBefore(p[1], p[2])}

\* sort.SliceStable, by an order of the times.
SliceStable(list, Less) ==
    LET Before(l, i, j) ==
            \/ <<l[i].time, l[j].time>> \in Less
            \/ <<l[j].time, l[i].time>> \notin Less /\ i < j
        sorted[l \in {list}] ==
            [k \in DOMAIN l |->
                l[CHOOSE i \in DOMAIN l : Cardinality({j \in DOMAIN l : Before(l, j, i)}) = k - 1]]
    IN  sorted[list]

=============================================================================
