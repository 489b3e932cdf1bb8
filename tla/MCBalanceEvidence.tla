------------------------ MODULE MCBalanceEvidence ------------------------
(* Two positions on two days of two instants each: instants 2 and 4 are    *)
(* the midnights.  Quantities are single digits, so that they sort as      *)
(* numbers and as text alike.                                              *)
EXTENDS BalanceEvidence

Target(p, at, prec) == [pos |-> p, bal |-> "available", at |-> at, prec |-> prec]
Leg(id, p, at, q) == [id |-> id, pos |-> p, at |-> at, qty |-> q]
Ref(t, kind, support, q) == [t |-> t, kind |-> kind, support |-> support, qty |-> q]
Statement(p, at, prec, q) == Ref(Target(p, at, prec), "source_document", "pdf", q)
Said(p, at, prec, q) == Ref(Target(p, at, prec), "operator_assertion", "", q)
Explicit(p, at, prec, q) == [t |-> Target(p, at, prec), qty |-> q]

Legs == {Leg(1, "p1", 2, 1), Leg(2, "p1", 4, 1)}
Data(f, x, r) == [facts |-> f, snaps |-> x, refs |-> r, issues |-> FALSE]

(* Agreeing statements on both days; conflicting rows of one statement; a  *)
(* statement that drifts and one nothing covers; facts alone, of two       *)
(* positions and of one a provider may know; one instant in two            *)
(* precisions; explicit snapshots, all or some of them with a reference; a *)
(* capture without balances.                                               *)
Agreeing == Data(Legs, {}, {Statement("p1", 2, "date", 1), Statement("p1", 4, "timestamp", 2)})
Conflicting == Data(Legs, {}, {Statement("p1", 2, "date", 1), Statement("p1", 4, "timestamp", 1),
                               Statement("p1", 4, "timestamp", 2)})
Drifting == Data(Legs, {}, {Statement("p1", 3, "timestamp", 2), Statement("p2", 4, "date", 0)})
Unreferenced == Data({Leg(1, "p1", 2, 1), Leg(3, "p2", 3, 2)}, {}, {})
OnePosition == Data({Leg(1, "p1", 3, 1)}, {}, {})
TwoPrecisions == Data(Legs, {}, {Statement("p1", 4, "date", 2), Statement("p1", 4, "timestamp", 2)})
ExplicitOnly == Data({}, {Explicit("p1", 2, "date", 1), Explicit("p1", 5, "timestamp", 3)},
                     {Statement("p1", 2, "timestamp", 1), Statement("p1", 5, "timestamp", 3)})
ExplicitPartly == Data({}, {Explicit("p1", 2, "date", 1), Explicit("p1", 5, "timestamp", 3)},
                       {Statement("p1", 2, "date", 1)})
Bare == [Data({}, {}, {}) EXCEPT !.issues = TRUE]

MCDatasets == {Agreeing, Conflicting, Drifting, Unreferenced, OnePosition, TwoPrecisions,
               ExplicitOnly, ExplicitPartly, Bare}
MCFewDatasets == {Agreeing, Conflicting, Unreferenced, ExplicitOnly}

Package(x, r) == [wellFormed |-> TRUE, snaps |-> x, refs |-> r]
MCPackages == {Package({Explicit("p1", 2, "date", 1)}, {Said("p1", 2, "date", 1)}),
               Package({Explicit("p1", 4, "date", 2), Explicit("p1", 4, "timestamp", 2)},
                       {Said("p1", 4, "date", 2), Said("p1", 4, "timestamp", 2)}),
               Package({Explicit("p1", 4, "date", 2)}, {Said("p1", 4, "date", 1)}),
               [Package({}, {}) EXCEPT !.wellFormed = FALSE]}

MCAsOfs == {[date |-> TRUE, at |-> 2], [date |-> FALSE, at |-> 4]}

Known(q) == [what |-> "reference", qty |-> q]
MCProviderAnswers == {Known(0), Known(1), [what |-> "balance_provider_unavailable"],
                      [what |-> "unsupported_balance_provider"]}

(* One position has a provider, which knows nothing before the first leg.  *)
MCMayAnswer(t, a) ==
  IF t.pos = "p1"
  THEN a \in {Known(IF t.at < 3 THEN 0 ELSE 1), [what |-> "balance_provider_unavailable"]}
  ELSE a = [what |-> "unsupported_balance_provider"]
=============================================================================
