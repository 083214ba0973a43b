---------------------------- MODULE MCCarriedCosts ----------------------------
(* Ledgers to start from, as imports leave them. *)
EXTENDS CarriedCosts, Sequences

P(a, i) == [asset |-> a, inst |-> i]
R(pos, type, day, qty, price, est, own, grp) ==
    [pos |-> pos, type |-> type, day |-> day, qty |-> qty, price |-> price,
     est |-> est, own |-> own, grp |-> grp]
Buy(pos, day, qty, price, est) == R(pos, "buy", day, qty, price, est, "import", NoGroup)
Out(pos, day, qty) == R(pos, "transfer_out", day, qty, 0, FALSE, "import", NoGroup)
In(pos, day, qty, price) == R(pos, "transfer_in", day, qty, price, FALSE, "carry", NoGroup)
From(pos, day, qty, cost, g) == R(pos, "conversion_out", day, qty, cost, FALSE, "import", g)
To(pos, day, qty, cost, g) == R(pos, "conversion_in", day, qty, cost, FALSE, "import", g)

\* A chain on one day: an estimated subscription at A goes on to B, is converted
\* there the next day.
Chain == <<Buy(P("x", "A"), 1, 2, 1, FALSE), Buy(P("x", "A"), 1, 1, 2, TRUE),
               Out(P("x", "A"), 2, 2), In(P("x", "B"), 2, 2, 1),
               From(P("x", "B"), 3, 2, 1, 1), To(P("y", "B"), 3, 1, 1, 1)>>

\* A spin-off: two assets share the cost of one.
Split == <<Buy(P("x", "A"), 1, 3, 1, FALSE), From(P("x", "A"), 2, 2, 2, 1),
               To(P("y", "A"), 2, 1, 1, 1), To(P("y", "B"), 2, 2, 1, 1)>>

\* Shares sent both ways on one day, as two files brought them: the second
\* credit carried what B held with the first.
Swap == <<Buy(P("x", "A"), 1, 3, 1, FALSE), Buy(P("x", "B"), 1, 2, 2, FALSE),
              Out(P("x", "A"), 2, 2), In(P("x", "B"), 2, 2, 1),
              Out(P("x", "B"), 2, 1), In(P("x", "A"), 2, 1, 2)>>

\* The same, and a share more the next day.
Onward == Swap \o <<Out(P("x", "B"), 3, 1), In(P("x", "A"), 3, 1, 2)>>

\* A round trip within one broker.
Trip == <<Buy(P("x", "A"), 1, 3, 1, FALSE), Out(P("x", "A"), 2, 1), Out(P("x", "A"), 2, 1),
              In(P("x", "A"), 2, 1, 1), In(P("x", "A"), 2, 1, 1)>>

\* A purchase at an estimated price, the last row of its position.
Late == <<Buy(P("x", "A"), 1, 2, 1, FALSE), Buy(P("x", "A"), 3, 1, 2, TRUE)>>

\* A loop within one day: shares go to B, become another asset, come back as that
\* and become the first again, before the debit they left by.
Loop == <<Buy(P("x", "A"), 1, 1, 1, FALSE), Out(P("x", "A"), 2, 1), In(P("x", "B"), 2, 1, 1),
          From(P("x", "B"), 2, 1, 1, 1), To(P("y", "B"), 2, 1, 1, 1),
          Out(P("y", "B"), 2, 1), In(P("y", "A"), 2, 1, 1),
          From(P("y", "A"), 2, 1, 1, 2), To(P("x", "A"), 2, 1, 1, 2)>>

AllStarts == {Chain, Split, Onward, Trip}
SwapOnly == {Swap}
LateOnly == {Late}
LoopOnly == {Loop}
===============================================================================
