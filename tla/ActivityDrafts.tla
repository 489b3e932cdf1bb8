--------------------------- MODULE ActivityDrafts ---------------------------
(***************************************************************************)
(* What every source adapter produces: activity drafts, each a list of     *)
(* economic legs under a leg policy, validated when they are built as the  *)
(* transaction facts they are to become.                                   *)
(*                                                                         *)
(* A leg is [id, kind, qty, asset, sub, attr]: attr names the primary leg  *)
(* a charge or rebate belongs to, "none" if none.  A value that may be     *)
(* missing is a sequence of at most one element.                           *)
(***************************************************************************)
EXTENDS Integers, Sequences, FiniteSets, FiniteSetsExt, SequencesExt

None == <<>>
Magnitude(n) == IF n < 0 THEN - n ELSE n

Limit(total, pos, neg) == [total |-> total, pos |-> pos, neg |-> neg]

SINGLE_PRIMARY_ACTIVITY_POLICY == [primary |-> Limit({1}, 0..1, 0..1)]
TWO_SIDED_PRIMARY_EXCHANGE_POLICY == [primary |-> Limit({2}, {1}, {1})]
TWO_SIDED_WITH_CHARGE_POLICY ==
    [primary |-> Limit({2}, {1}, {1}), charge |-> Limit(0..1, {0}, 0..1)]

fact_leg_counts(legs, kind) ==
    LET I == { i \in DOMAIN legs : legs[i].kind = kind }
    IN  [total |-> Cardinality(I), pos |-> Cardinality({ i \in I : legs[i].qty > 0 }),
         neg |-> Cardinality({ i \in I : legs[i].qty < 0 })]

validate_fact_counts(legs, policy) ==
    /\ \A i \in DOMAIN legs : legs[i].kind \in DOMAIN policy
    /\ \A i, j \in DOMAIN legs : legs[i].id = legs[j].id => i = j
    /\ \A k \in DOMAIN policy :
        LET n == fact_leg_counts(legs, k)
        IN  n.total \in policy[k].total /\ n.pos \in policy[k].pos /\ n.neg \in policy[k].neg

validate_fact_leg_attribution(legs) ==
    \A i \in DOMAIN legs : legs[i].attr # "none" =>
        \E j \in DOMAIN legs : legs[j].kind = "primary" /\ legs[j].id = legs[i].attr

\* what EconomicLeg checks of a leg
ValidLeg(l) == l.qty # 0 /\ (l.kind = "primary" => l.attr = "none")

\* what TransactionFact checks, and so every draft
ValidFact(legs, policy) ==
    /\ legs # <<>> /\ \A i \in DOMAIN legs : ValidLeg(legs[i])
    /\ validate_fact_counts(legs, policy) /\ validate_fact_leg_attribution(legs)

\* a draft is validated as the fact it would become
ValidDraft(legs, policy) == ValidFact(legs, policy)

economic_leg(id, kind, qty, asset) ==
    [id |-> id, kind |-> kind, qty |-> qty, asset |-> asset, sub |-> "", attr |-> "none"]

\* a leg that belongs to the primary leg `to`
AttributedLeg(id, kind, qty, asset, sub, to) ==
    [economic_leg(id, kind, qty, asset) EXCEPT !.sub = sub, !.attr = to]

-----------------------------------------------------------------------------
(* What translating a row, a group of rows or a file yields.  The rows a   *)
(* draft or an issue stands for are <<file, line>> pairs.                  *)

ActivityDraft(id, rows, ts, class, legs, policy) ==
    [id |-> id, rows |-> rows, ts |-> ts, class |-> class, legs |-> legs, policy |-> policy]

Nothing == [drafts |-> {}, issues |-> {}, reviews |-> {}, raised |-> ""]
Raises(exception) == [Nothing EXCEPT !.raised = exception]
Issued(kind, rows) == [Nothing EXCEPT !.issues = {[kind |-> kind, rows |-> rows]}]

\* building an invalid draft, or an identity claim without a symbol, raises ValueError
Drafted(d) ==
    IF ValidDraft(d.legs, d.policy) /\ \A i \in DOMAIN d.legs : d.legs[i].asset # ""
    THEN [Nothing EXCEPT !.drafts = {d}] ELSE Raises("ValueError")

\* outcomes one after the other: the first exception is the one that is seen
InOrder(outcomes) ==
    LET raising == { i \in DOMAIN outcomes : outcomes[i].raised # "" }
    IN  [drafts |-> UNION { o.drafts : o \in Range(outcomes) },
         issues |-> UNION { o.issues : o \in Range(outcomes) },
         reviews |-> UNION { o.reviews : o \in Range(outcomes) },
         raised |-> IF raising = {} THEN "" ELSE outcomes[Min(raising)].raised]
=============================================================================
