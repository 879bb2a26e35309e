----------------------------- MODULE MCSourcing -----------------------------
EXTENDS Sourcing, TLC

CONSTANTS o1, o2

Case(w, g, n) == [who |-> w, goods |-> g, most |-> n]
Pair(a, b) == (o1 :> a) @@ (o2 :> b)

MCCreated == o1 :> 1 @@ o2 :> 2

\* Orders that share the source's stock and the buyer's money run once; an order whose job
\* runs twice is alone or next to one that does not interfere; orders that take each other's
\* place on a reconciler's page run once.
MCCases == {
    Pair(Case("key", "manual", 1), Case("shop", "manual", 1)),
    Pair(Case("key", "manual", 1), Case("bound", "manual", 1)),
    Pair(Case("bound", "manual", 1), Case("shop", "none", 2)),
    Pair(Case("bound", "keyed", 1), Case("shop", "blind", 1)),
    Pair(Case("key", "manual", 0), Case("shop", "blind", 2)),
    Pair(Case("key", "blind", 1), Case("shop", "manual", 0)),
    Pair(Case("key", "manual", 0), Case("shop", "manual", 2)),
    Pair(Case("key", "manual", 0), Case("direct", "keyed", 2)),
    Pair(Case("key", "manual", 0), Case("direct", "blind", 2)),
    Pair(Case("direct", "blind", 1), Case("direct", "blind", 1)),
    Pair(Case("direct", "keyed", 1), Case("direct", "blind", 1)),
    Pair(Case("shop", "manual", 1), Case("shop", "manual", 1)) }

\* What the source and the buyer have at the start: nothing where the orders go to a provider
\* directly, or wait for the source one behind the other (and all is calm), and one unit of money for one order.
Means ==
    (\A o \in Orders : runs[o] = 0) =>
        /\ (\A o \in Orders : Who(o) = "direct" \/ case[o].most = 0) => stock = 0 /\ balance = 0
        /\ (\A o \in Orders : Who(o) = "shop") => stock = 0 /\ balance = 0 /\ calm
        /\ (\E o \in Orders : case[o].most = 0) => balance <= 1
=============================================================================
