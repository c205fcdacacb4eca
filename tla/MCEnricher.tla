----------------------------- MODULE MCEnricher -----------------------------
(* Two tenants whose spans share an id, a second table, a rejected span.    *)
EXTENDS Enricher, TLC

CONSTANTS p1, p2

MCSinks == <<"decision", "llm">>

MCSpan(p, i, t) == [project |-> p, id |-> i, sink |-> t]

MCTenants == {MCSpan(p1, 1, "decision"), MCSpan(p2, 1, "llm"), MCSpan(p1, 3, "reject")}

\* For the window: two spans of one table, one of them from a fast clock.
MCClocks == {MCSpan(p1, 1, "decision"), MCSpan(p1, 2, "decision")}
MCFastTenant == {MCSpan(p2, 1, "llm")}
MCFast == {MCSpan(p1, 2, "decision")}
=============================================================================
