------------------------ MODULE BalanceCheckProofs ------------------------
(***************************************************************************)
(* Proofs about BalanceEvidence.  First, that the reports in               *)
(* analysis/reconciliation belong together: whatever the sources,          *)
(* datasets, packages and provider answers, and however often a command    *)
(* dies.  Then the verdicts: what inspect and check say of a source is     *)
(* true of its files as long as nothing rewrites them, although the check  *)
(* itself rewrites the references it has judged.                           *)
(***************************************************************************)
EXTENDS BalanceEvidence, FiniteSetTheorems, WellFoundedInduction, TLAPS

-----------------------------------------------------------------------------
(* The reports belong together.                                            *)

(* The fields of the running command that its steps read. *)
CommandShape ==
  /\ "op" \in DOMAIN cmd
  /\ cmd.op = "check" => {"left", "step", "answers", "records"} \subseteq DOMAIN cmd
  /\ cmd.op = "check" =>
       /\ cmd.left \subseteq Sources /\ DOMAIN cmd.records \subseteq Sources
       /\ cmd.step = "clear" \/ cmd.left # {}
  /\ cmd.op \in {"assemble", "submit", "summarize"} => "step" \in DOMAIN cmd
  /\ DOMAIN outputs = Sources

(* While a check runs, neither a summary nor an answer is on file; while   *)
(* summarize runs, no blockers are.                                        *)
Cleared ==
  /\ cmd.op = "check" => checkSummary = NoFile /\ portfolio = NoFile
  /\ cmd.op = "summarize" => blockers = NoFile

(* The file of source s is what record rec of check number n reports. *)
ReportedAs(file, rec, n) ==
  IF rec.status = "failed" THEN file = NoFile ELSE file = [run |-> n, kinds |-> rec.kinds]

(* Sources a running check has finished are reported as recorded. *)
FinishedReported ==
  cmd.op = "check" =>
    \A s \in DOMAIN cmd.records : s \in cmd.left \/ ReportedAs(outputs[s], cmd.records[s], checks)

SummaryReported ==
  checkSummary # NoFile =>
    \A s \in DOMAIN checkSummary.records :
      ReportedAs(outputs[s], checkSummary.records[s], checkSummary.run)

ReportsTogether ==
  CommandShape /\ Cleared /\ FinishedReported /\ SummaryReported /\ PortfolioOfThisCheck

-----------------------------------------------------------------------------

(* An empty workspace has no report to disagree with.                     *)
LEMMA ReportsTogetherInit == Init => ReportsTogether
  BY DEF Init, ReportsTogether, CommandShape, Cleared, FinishedReported, SummaryReported,
         PortfolioOfThisCheck, Idle

(* The source being checked is one that is left.                           *)
LEMMA CheckedIsLeft == cmd.left # {} => Checked \in cmd.left
  BY DEF Checked

(* Steps of the commands that write the evidence, and their crashes.       *)
LEMMA WritersKeepReports ==
  ASSUME ReportsTogether, \/ \E s \in Sources : StartAssemble(s) \/ StartSubmit(s)
                          \/ AssembleFacts \/ WriteSnapshots \/ WriteReferences \/ EndCommand
                          \/ CrashBetweenSteps \/ CrashWritingFacts \/ CrashWritingSnapshots
                          \/ CrashWritingReferences \/ CrashWritingInspection
  PROVE  ReportsTogether'
<1>. USE DEF ReportsTogether, CommandShape, Cleared, FinishedReported, SummaryReported,
             PortfolioOfThisCheck, dataset, reports, Idle, ReportedAs
<1>1. ASSUME NEW s \in Sources, StartAssemble(s) PROVE ReportsTogether'
  BY <1>1 DEF StartAssemble
<1>2. ASSUME NEW s \in Sources, StartSubmit(s) PROVE ReportsTogether'
  BY <1>2 DEF StartSubmit
<1>3. CASE AssembleFacts
  BY <1>3 DEF AssembleFacts
<1>4. CASE WriteSnapshots
  BY <1>4 DEF WriteSnapshots
<1>5. CASE WriteReferences
  BY <1>5 DEF WriteReferences
<1>6. CASE EndCommand
  BY <1>6 DEF EndCommand
<1>7. CASE CrashBetweenSteps
  BY <1>7 DEF CrashBetweenSteps, Crash
<1>8. CASE CrashWritingFacts
  BY <1>8 DEF CrashWritingFacts, Crash
<1>9. CASE CrashWritingSnapshots
  BY <1>9 DEF CrashWritingSnapshots, Crash
<1>10. CASE CrashWritingReferences
  BY <1>10 DEF CrashWritingReferences, Crash
<1>11. CASE CrashWritingInspection
  BY <1>11 DEF CrashWritingInspection, Crash
<1>. QED
  BY <1>1, <1>2, <1>3, <1>4, <1>5, <1>6, <1>7, <1>8, <1>9, <1>10, <1>11

(* Steps of inspect and summarize.                                         *)
LEMMA JudgesKeepReports ==
  ASSUME ReportsTogether, \/ StartInspect \/ WriteInspection
                          \/ StartSummarize \/ WritePortfolio \/ WriteBlockers
  PROVE  ReportsTogether'
<1>. USE DEF ReportsTogether, CommandShape, Cleared, FinishedReported, SummaryReported,
             PortfolioOfThisCheck, dataset, Idle, ReportedAs
<1>1. CASE StartInspect
  BY <1>1 DEF StartInspect
<1>2. CASE WriteInspection
  BY <1>2 DEF WriteInspection
<1>3. CASE StartSummarize
  BY <1>3 DEF StartSummarize, ClearPortfolio
<1>4. CASE WritePortfolio
  BY <1>4 DEF WritePortfolio
<1>5. CASE WriteBlockers
  BY <1>5 DEF WriteBlockers
<1>. QED
  BY <1>1, <1>2, <1>3, <1>4, <1>5

(* A step of a check that may add a record of the source at hand, and may   *)
(* change the file of that source only.                                    *)
LEMMA SourceStepKeepsReports ==
  ASSUME ReportsTogether, NEW rec,
         cmd.op = "check", Checked \in cmd.left,
         CommandShape', cmd'.op = "check", cmd'.left = cmd.left,
         \/ cmd'.records = cmd.records
         \/ cmd'.records = WithRecord(cmd.records, Checked, rec),
         \A s \in Sources \ {Checked} : outputs'[s] = outputs[s],
         UNCHANGED << checkSummary, portfolio, blockers, checks >>
  PROVE  ReportsTogether'
<1>. USE DEF ReportsTogether, Cleared
<1>1. Cleared' /\ SummaryReported' /\ PortfolioOfThisCheck'
  BY DEF SummaryReported, PortfolioOfThisCheck
<1>2. ASSUME NEW s \in DOMAIN cmd'.records, s \notin cmd.left
      PROVE  s \in DOMAIN cmd.records /\ cmd'.records[s] = cmd.records[s] /\ outputs'[s] = outputs[s]
  <2>1. s # Checked /\ s \in DOMAIN cmd.records /\ cmd'.records[s] = cmd.records[s]
    BY <1>2 DEF WithRecord
  <2>2. s \in Sources
    BY <2>1 DEF CommandShape
  <2>. QED
    BY <2>1, <2>2
<1>3. FinishedReported'
  BY <1>2 DEF FinishedReported, ReportedAs
<1>. QED
  BY <1>1, <1>3

(* Steps of a check.  Only the file of the source at hand changes, and that *)
(* source is left until its file is written.                               *)
LEMMA CheckKeepsReports ==
  ASSUME ReportsTogether, \/ StartCheck \/ ClearSource \/ Resolve \/ PersistReferences
                          \/ WriteOutputs \/ WriteCheckSummary \/ CrashWritingCheckSummary
  PROVE  ReportsTogether'
<1>. USE DEF ReportsTogether, dataset, reports, Idle
<1>1. CASE StartCheck
  BY <1>1 DEF StartCheck, ClearCheckOutputs, Discovered, CommandShape, Cleared, FinishedReported,
              SummaryReported, PortfolioOfThisCheck
<1>2. CASE ClearSource
  <2>. DEFINE plan == CheckPlan(Inputs(Checked), cmd.req)
              rec == Record(plan, {}, << >>, cmd.req.hydrate)
  <2>1. Checked \in cmd.left /\ cmd.op = "check"
    BY <1>2, CheckedIsLeft DEF ClearSource
  <2>2. /\ \/ cmd' = [cmd EXCEPT !.step = "resolve"]
           \/ cmd' = [cmd EXCEPT !.step = "outputs",
                                 !.records = WithRecord(cmd.records, Checked, rec)]
        /\ outputs' = [outputs EXCEPT ![Checked] = NoFile]
        /\ UNCHANGED << checkSummary, portfolio, blockers, checks >>
    BY <1>2 DEF ClearSource
  <2>. HIDE DEF rec
  <2>3. CommandShape' /\ cmd'.op = "check" /\ cmd'.left = cmd.left
    <3>1. DOMAIN outputs' = Sources
      BY <2>2 DEF CommandShape
    <3>2. CASE cmd' = [cmd EXCEPT !.step = "resolve"]
      BY <2>1, <3>1, <3>2 DEF CommandShape
    <3>3. CASE cmd' = [cmd EXCEPT !.step = "outputs",
                                  !.records = WithRecord(cmd.records, Checked, rec)]
      BY <2>1, <3>1, <3>3 DEF CommandShape, WithRecord
    <3>. QED
      BY <2>2, <3>2, <3>3
  <2>4. cmd'.records = cmd.records \/ cmd'.records = WithRecord(cmd.records, Checked, rec)
    BY <2>1, <2>2 DEF CommandShape
  <2>5. \A s \in Sources \ {Checked} : outputs'[s] = outputs[s]
    BY <2>2 DEF CommandShape
  <2>. QED
    BY <2>1, <2>2, <2>3, <2>4, <2>5, SourceStepKeepsReports
<1>3. CASE Resolve
  <2>. DEFINE i == Inputs(Checked)
              plan == CheckPlan(i, cmd.req)
              rec(a) == Record(plan, i.refs, a, cmd.req.hydrate)
  <2>1. Checked \in cmd.left /\ cmd.op = "check"
    BY <1>3, CheckedIsLeft DEF Resolve, CommandShape
  <2>2. PICK a : cmd' = [cmd EXCEPT !.step = "persist", !.answers = a,
                                    !.records = WithRecord(cmd.records, Checked, rec(a))]
    BY <1>3 DEF Resolve
  <2>3. UNCHANGED << outputs, checkSummary, portfolio, blockers, checks >>
    BY <1>3 DEF Resolve
  <2>. HIDE DEF rec
  <2>4. CommandShape' /\ cmd'.op = "check" /\ cmd'.left = cmd.left
    BY <2>1, <2>2, <2>3 DEF CommandShape, WithRecord
  <2>5. cmd'.records = WithRecord(cmd.records, Checked, rec(a))
    BY <2>1, <2>2 DEF CommandShape
  <2>. QED
    BY <2>1, <2>3, <2>4, <2>5, SourceStepKeepsReports
<1>4. CASE PersistReferences
  BY <1>4 DEF PersistReferences, CommandShape, Cleared, FinishedReported, SummaryReported,
              PortfolioOfThisCheck, ReportedAs
<1>5. CASE WriteOutputs
  BY <1>5, CheckedIsLeft DEF WriteOutputs, CommandShape, Cleared, FinishedReported, SummaryReported,
              PortfolioOfThisCheck, ReportedAs
<1>6. CASE WriteCheckSummary
  BY <1>6 DEF WriteCheckSummary, CommandShape, Cleared, FinishedReported, SummaryReported,
              PortfolioOfThisCheck, ReportedAs
<1>7. CASE CrashWritingCheckSummary
  BY <1>7 DEF CrashWritingCheckSummary, Crash, CommandShape, Cleared, FinishedReported, SummaryReported,
              PortfolioOfThisCheck, ReportedAs
<1>. QED
  BY <1>1, <1>2, <1>3, <1>4, <1>5, <1>6, <1>7

(* No step of any command, and no crash, separates a report from its run.  *)
LEMMA ReportsTogetherInductive == ReportsTogether /\ [Next]_vars => ReportsTogether'
<1>. SUFFICES ASSUME ReportsTogether, [Next]_vars PROVE ReportsTogether'
  OBVIOUS
<1>1. CASE UNCHANGED vars
  BY <1>1 DEF vars, reports, ReportsTogether, CommandShape, Cleared, FinishedReported,
              SummaryReported, PortfolioOfThisCheck, ReportedAs
<1>2. CASE Next
  BY <1>2, WritersKeepReports, JudgesKeepReports, CheckKeepsReports DEF Next
<1>. QED
  BY <1>1, <1>2

(* For all sources, evidence, answers and crashes, the portfolio answer on *)
(* file is that of the check summary on file, and the blockers beside it    *)
(* are its blockers (clear_generated_balance_check_outputs,                *)
(* _clear_generated_balance_summary_outputs).                              *)
THEOREM AnswersBelongToTheirCheck == Spec => []PortfolioOfThisCheck
<1>1. ReportsTogether => PortfolioOfThisCheck
  BY DEF ReportsTogether
<1>. QED
  BY <1>1, ReportsTogetherInit, ReportsTogetherInductive, PTL DEF Spec

(* For all sources, evidence, answers and crashes, a check summary reports *)
(* the per-source files of its own run (BalanceCheckWorkflow.execute).     *)
THEOREM SummariesBelongToTheirOutputs == Spec => []OutputsOfOneCheck
<1>1. ReportsTogether => OutputsOfOneCheck
  BY DEF ReportsTogether, SummaryReported, OutputsOfOneCheck, ReportedAs
<1>. QED
  BY <1>1, ReportsTogetherInit, ReportsTogetherInductive, PTL DEF Spec

-----------------------------------------------------------------------------
(* The verdicts.                                                           *)

Kinds == {"source_document", "network_api", "operator_assertion"}

(* The files: finitely many rows, of integer instants and quantities.      *)
Legs(F) == IsFiniteSet(F) /\ \A l \in F : l.at \in Int
Snapshots(X) == IsFiniteSet(X) /\ \A x \in X : x.t.at \in Int

(* A reference file: finitely many rows; those of one instant are of one   *)
(* kind, since a provider is asked only where there is no reference, and   *)
(* assemble and submit rewrite the file.                                   *)
References(R) ==
  /\ IsFiniteSet(R)
  /\ \A r \in R : r.qty \in Int /\ r.kind \in Kinds /\ r.t.at \in Int
  /\ \A r, q \in R : MatchKey(r.t) = MatchKey(q.t) => r.kind = q.kind

-----------------------------------------------------------------------------
(* Sets of rows.                                                           *)

LEMMA PrecedenceOfKinds ==
  /\ DOMAIN Precedence = 1 .. 3
  /\ \A kind \in Kinds : \E k \in DOMAIN Precedence : Precedence[k] = kind
  /\ \A j, k \in DOMAIN Precedence : Precedence[j] = Precedence[k] => j = k
BY DEF Precedence, Kinds

LEMMA MinOfOne == ASSUME NEW k \in Int PROVE Min({k}) = k
BY DEF Min

(* Finitely many rows, at least one: one of them has the largest quantity. *)
LEMMA LargestRow ==
  ASSUME NEW S, IsFiniteSet(S), S # {}, \A r \in S : r.qty \in Int
  PROVE  \E r \in S : \A q \in S : q.qty <= r.qty
<1> DEFINE Above(r) == {q \in S : q.qty > r.qty}
           T == {Cardinality(Above(r)) : r \in S}
           Less == OpToRel(<, Nat)
<1>1. \A r \in S : IsFiniteSet(Above(r)) /\ Cardinality(Above(r)) \in Nat
  <2>1. \A r \in S : Above(r) \in SUBSET S
    OBVIOUS
  <2> HIDE DEF Above
  <2> QED
    BY <2>1, FS_Subset, FS_CardinalityType
<1>2. T \subseteq Nat /\ T # {}
  BY <1>1
<1>3. IsWellFoundedOn(Less, Nat)
  BY NatLessThanWellFounded
<1>4. Less = {ss \in Nat \X Nat : ss[1] < ss[2]}
  BY DEF OpToRel
<1> HIDE DEF Less
<1>5. PICK n \in T : \A m \in T : ~(<< m, n >> \in Less)
  BY <1>2, <1>3, WFMin
<1>6. PICK r \in S : n = Cardinality(Above(r))
  BY <1>5
<1>7. SUFFICES ASSUME NEW q \in S, q.qty > r.qty PROVE FALSE
  <2>1. \A q \in S : ~(q.qty > r.qty) => q.qty <= r.qty
    BY <1>6
  <2> QED
    BY <1>6, <2>1
<1>8. Above(q) \in SUBSET Above(r) /\ q \in Above(r) /\ q \notin Above(q)
  BY <1>6, <1>7
<1>9. Cardinality(Above(q)) < Cardinality(Above(r))
  <2> HIDE DEF Above
  <2>1. /\ Cardinality(Above(q)) <= Cardinality(Above(r))
        /\ Cardinality(Above(r)) = Cardinality(Above(q)) => Above(r) = Above(q)
    BY <1>1, <1>6, <1>8, FS_Subset
  <2> QED
    BY <1>1, <1>6, <1>8, <2>1
<1>10. << Cardinality(Above(q)), n >> \in Less
  BY <1>1, <1>2, <1>4, <1>6, <1>9
<1> QED
  BY <1>5, <1>10

LEMMA ImageIsFinite ==
  ASSUME NEW S, IsFiniteSet(S), NEW f
  PROVE  IsFiniteSet({f[x] : x \in S})
<1> DEFINE T == {f[x] : x \in S}
           g == [x \in S |-> f[x]]
<1>1. g \in Surjection(S, T)
  BY DEF Surjection
<1> HIDE DEF g, T
<1>2. IsFiniteSet(T)
  BY <1>1, FS_Surjection
<1> QED
  BY <1>2 DEF T

(* The rows of one instant are a subset of the rows.                       *)
LEMMA RowsAtSubset ==
  ASSUME NEW S, NEW m
  PROVE  /\ RowsAt(S, m) \in SUBSET S
         /\ \A x \in S : x \in RowsAt(S, m) <=> MatchKey(x.t) = m
BY DEF RowsAt

LEMMA RowsAtFinite ==
  ASSUME NEW S, IsFiniteSet(S), NEW m
  PROVE  IsFiniteSet(RowsAt(S, m)) /\ Cardinality(RowsAt(S, m)) \in Nat
BY RowsAtSubset, FS_Subset, FS_CardinalityType

LEMMA OneRow ==
  ASSUME NEW S, IsFiniteSet(S), S # {}, Cardinality(S) <= 1
  PROVE  \E x \in S : S = {x}
<1>1. Cardinality(S) \in Nat /\ Cardinality(S) # 0
  BY FS_CardinalityType, FS_EmptySet
<1>2. Cardinality(S) = 1
  BY <1>1
<1> QED
  BY <1>2, FS_Singleton

-----------------------------------------------------------------------------
(* What a check says of one instant.                                       *)

(* The references of one instant all count as one kind.                    *)
LEMMA CountOfKind ==
  ASSUME NEW plan, NEW R, NEW a, NEW m, NEW kind, RowsAt(R, m) # {},
         \A r \in RowsAt(R, m) : r.kind = kind
  PROVE  Count(plan, R, a, m, kind)
           = Cardinality(RowsAt(plan.snaps, m)) * Cardinality(RowsAt(R, m))
<1>1. {r \in RowsAt(R, m) : r.kind = kind} = RowsAt(R, m)
  OBVIOUS
<1> QED
  BY <1>1 DEF Count

LEMMA CountOfOtherKind ==
  ASSUME NEW plan, NEW R, NEW a, NEW m, NEW kind, RowsAt(R, m) # {},
         \A r \in RowsAt(R, m) : r.kind # kind,
         Cardinality(RowsAt(plan.snaps, m)) \in Nat
  PROVE  Count(plan, R, a, m, kind) = 0
<1>1. {r \in RowsAt(R, m) : r.kind = kind} = {}
  OBVIOUS
<1>2. Count(plan, R, a, m, kind) = Cardinality(RowsAt(plan.snaps, m)) * 0
  BY <1>1, FS_EmptySet DEF Count
<1> QED
  BY <1>2

(* The status when only one kind was found, and how often.                 *)
LEMMA StatusOfOneKind ==
  ASSUME NEW plan, NEW R, NEW a, NEW m, NEW j \in DOMAIN Precedence,
         Count(plan, R, a, m, Precedence[j]) \in Nat,
         Count(plan, R, a, m, Precedence[j]) > 0,
         \A k \in DOMAIN Precedence : k # j => Count(plan, R, a, m, Precedence[k]) = 0
  PROVE  AssertionStatus(plan, R, a, m) =
           IF Count(plan, R, a, m, Precedence[j]) > 1 THEN "reference_conflict"
           ELSE IF FirstRow(RowsAt(plan.snaps, m)).qty
                     # (CHOOSE r \in RowsAt(R \cup Hydrated(a), m) : r.kind = Precedence[j]).qty
           THEN "drift" ELSE "matched"
<1> DEFINE n(k) == Count(plan, R, a, m, Precedence[k])
           found == {k \in DOMAIN Precedence : n(k) > 0}
<1>1. \A k \in DOMAIN Precedence : k # j => ~(n(k) > 0)
  OBVIOUS
<1>2. found = {j}
  BY <1>1
<1>3. Min(found) = j
  BY <1>2, PrecedenceOfKinds, MinOfOne
<1>4. found # {}
  BY <1>2
<1>5. AssertionStatus(plan, R, a, m) =
        IF found = {} THEN "missing_reference"
        ELSE IF n(Min(found)) > 1 THEN "reference_conflict"
        ELSE IF FirstRow(RowsAt(plan.snaps, m)).qty
                  # (CHOOSE r \in RowsAt(R \cup Hydrated(a), m) : r.kind = Precedence[Min(found)]).qty
        THEN "drift" ELSE "matched"
  BY DEF AssertionStatus
<1> HIDE DEF found
<1> QED
  BY <1>3, <1>4, <1>5

LEMMA FirstOfOne ==
  ASSUME NEW x PROVE FirstRow({x}) = x
BY DEF FirstRow

(* Where references stand and do not conflict, there is one of them and one *)
(* snapshot, and the two are compared.                                      *)
LEMMA StatusOfReferenced ==
  ASSUME NEW plan, NEW R, NEW a, NEW m, References(R), IsFiniteSet(plan.snaps),
         m \in MatchKeys(plan.snaps), RowsAt(R, m) # {}, RowsAt(Hydrated(a), m) = {}
  PROVE  \/ AssertionStatus(plan, R, a, m) = "reference_conflict"
         \/ \E r \in R, x \in plan.snaps :
              /\ RowsAt(R, m) = {r} /\ RowsAt(plan.snaps, m) = {x}
              /\ AssertionStatus(plan, R, a, m) = IF x.qty # r.qty THEN "drift" ELSE "matched"
<1> DEFINE X == RowsAt(plan.snaps, m)
           Rm == RowsAt(R, m)
<1>1. IsFiniteSet(X) /\ Cardinality(X) \in Nat /\ IsFiniteSet(Rm) /\ Cardinality(Rm) \in Nat
  BY RowsAtFinite DEF References
<1>2. X # {}
  BY DEF MatchKeys, RowsAt
<1>3. Cardinality(X) > 0 /\ Cardinality(Rm) > 0
  <2>1. Cardinality(X) # 0 /\ Cardinality(Rm) # 0
    BY <1>1, <1>2, FS_EmptySet
  <2> QED
    BY <1>1, <2>1
<1>4. PICK first \in Rm : TRUE
  OBVIOUS
<1>5. Rm \subseteq R /\ X \subseteq plan.snaps /\ (\A r \in Rm : MatchKey(r.t) = m)
  BY RowsAtSubset
<1>6. \A r \in Rm : r.kind = first.kind
  BY <1>4, <1>5 DEF References
<1>7. first.kind \in Kinds
  BY <1>4, <1>5 DEF References
<1>8. PICK j \in DOMAIN Precedence : Precedence[j] = first.kind
  BY <1>7, PrecedenceOfKinds
<1> DEFINE n(k) == Count(plan, R, a, m, Precedence[k])
<1>9. n(j) = Cardinality(X) * Cardinality(Rm)
  BY <1>6, <1>8, CountOfKind
<1>10. \A k \in DOMAIN Precedence : k # j => n(k) = 0
  <2> SUFFICES ASSUME NEW k \in DOMAIN Precedence, k # j PROVE n(k) = 0
    OBVIOUS
  <2>1. Precedence[k] # first.kind
    BY <1>8, PrecedenceOfKinds
  <2>2. \A r \in RowsAt(R, m) : r.kind # Precedence[k]
    BY <1>6, <2>1
  <2> QED
    BY <1>1, <2>2, CountOfOtherKind
<1>11. n(j) \in Nat /\ n(j) > 0
  <2>1. \A u, v \in Nat : u > 0 /\ v > 0 => u * v \in Nat /\ u * v > 0
    OBVIOUS
  <2> HIDE DEF n
  <2> QED
    BY <1>1, <1>3, <1>9, <2>1
<1>12. AssertionStatus(plan, R, a, m) =
           IF n(j) > 1 THEN "reference_conflict"
           ELSE IF FirstRow(X).qty
                     # (CHOOSE r \in RowsAt(R \cup Hydrated(a), m) : r.kind = Precedence[j]).qty
           THEN "drift" ELSE "matched"
  BY <1>10, <1>11, StatusOfOneKind
<1>13. RowsAt(R \cup Hydrated(a), m) = Rm
  BY DEF RowsAt
<1>14. CASE n(j) > 1
  BY <1>12, <1>14
<1>15. CASE ~(n(j) > 1)
  <2>1. \A u, v \in Nat : u > 0 /\ v > 0 /\ ~(u * v > 1) => u <= 1 /\ v <= 1
    <3> SUFFICES ASSUME NEW u \in Nat, NEW v \in Nat, u > 0, v > 0, u > 1 \/ v > 1
                 PROVE  u * v > 1
      OBVIOUS
    <3>1. CASE u > 1
      BY <3>1
    <3>2. CASE v > 1
      BY <3>2
    <3> QED
      BY <3>1, <3>2
  <2>2. Cardinality(X) <= 1 /\ Cardinality(Rm) <= 1
    <3> HIDE DEF n
    <3> QED
      BY <1>1, <1>3, <1>9, <1>15, <2>1
  <2>3. PICK x \in X : X = {x}
    BY <1>1, <1>2, <2>2, OneRow
  <2>4. PICK r \in Rm : Rm = {r}
    BY <1>1, <2>2, OneRow
  <2>5. FirstRow(X) = x
    BY <2>3, FirstOfOne
  <2>6. (CHOOSE q \in RowsAt(R \cup Hydrated(a), m) : q.kind = Precedence[j]) = r
    <3>1. \A K : r.kind = K => (CHOOSE q \in {r} : q.kind = K) = r
      OBVIOUS
    <3>2. RowsAt(R \cup Hydrated(a), m) = {r} /\ r.kind = Precedence[j]
      BY <1>6, <1>8, <1>13, <2>4
    <3> QED
      BY <3>1, <3>2
  <2>7. AssertionStatus(plan, R, a, m) = IF x.qty # r.qty THEN "drift" ELSE "matched"
    <3> HIDE DEF n, X, Rm
    <3> QED
      BY <1>12, <1>15, <2>5, <2>6
  <2> QED
    BY <1>5, <2>3, <2>4, <2>7
<1> QED
  BY <1>14, <1>15

LEMMA StatusOfPair ==
  ASSUME NEW plan, NEW R, NEW a, NEW m, NEW ref, NEW x, ref.kind \in Kinds,
         RowsAt(R, m) = {ref}, RowsAt(plan.snaps, m) = {x}, RowsAt(Hydrated(a), m) = {}
  PROVE  AssertionStatus(plan, R, a, m) = IF x.qty # ref.qty THEN "drift" ELSE "matched"
<1>1. PICK j \in DOMAIN Precedence : Precedence[j] = ref.kind
  BY PrecedenceOfKinds
<1> DEFINE n(k) == Count(plan, R, a, m, Precedence[k])
<1>2. Cardinality(RowsAt(R, m)) = 1 /\ Cardinality(RowsAt(plan.snaps, m)) = 1
  BY FS_Singleton
<1>3. n(j) = 1
  <2>1. n(j) = Cardinality(RowsAt(plan.snaps, m)) * Cardinality(RowsAt(R, m))
    <3>1. RowsAt(R, m) # {} /\ \A r \in RowsAt(R, m) : r.kind = Precedence[j]
      BY <1>1
    <3> QED
      BY <3>1, CountOfKind
  <2> QED
    BY <1>2, <2>1
<1>4. \A k \in DOMAIN Precedence : k # j => n(k) = 0
  <2> SUFFICES ASSUME NEW k \in DOMAIN Precedence, k # j PROVE n(k) = 0
    OBVIOUS
  <2>1. \A q \in RowsAt(R, m) : q.kind # Precedence[k]
    BY <1>1, PrecedenceOfKinds
  <2> QED
    BY <1>2, <2>1, CountOfOtherKind
<1>5. FirstRow(RowsAt(plan.snaps, m)) = x
  BY FirstOfOne
<1>6. (CHOOSE r \in RowsAt(R \cup Hydrated(a), m) : r.kind = Precedence[j]) = ref
  <2>1. \A K : ref.kind = K => (CHOOSE r \in {ref} : r.kind = K) = ref
    OBVIOUS
  <2>2. RowsAt(R \cup Hydrated(a), m) = {ref}
    BY DEF RowsAt
  <2> QED
    BY <1>1, <2>1, <2>2
<1>7. n(j) \in Nat /\ n(j) > 0 /\ ~(n(j) > 1)
  BY <1>3
<1>8. AssertionStatus(plan, R, a, m) =
           IF n(j) > 1 THEN "reference_conflict"
           ELSE IF FirstRow(RowsAt(plan.snaps, m)).qty
                     # (CHOOSE r \in RowsAt(R \cup Hydrated(a), m) : r.kind = Precedence[j]).qty
           THEN "drift" ELSE "matched"
  BY ONLY <1>4, <1>7, j \in DOMAIN Precedence, StatusOfOneKind
<1> HIDE DEF n
<1> QED
  BY <1>5, <1>6, <1>7, <1>8

(* Where there is no reference, only what a provider said counts.          *)
LEMMA CountOfAnswers ==
  ASSUME NEW plan, NEW R, NEW a, NEW m, NEW kind, RowsAt(R, m) = {}
  PROVE  Count(plan, R, a, m, kind)
           = Cardinality({x \in RowsAt(plan.snaps, m) :
                            \E h \in Hydrated(a) : h.t = x.t /\ h.kind = kind})
BY DEF Count

LEMMA StatusOfMissing ==
  ASSUME NEW plan, NEW R, NEW a, NEW m, RowsAt(R, m) = {}, RowsAt(Hydrated(a), m) = {}
  PROVE  AssertionStatus(plan, R, a, m) = "missing_reference"
<1> DEFINE n(k) == Count(plan, R, a, m, Precedence[k])
           found == {k \in DOMAIN Precedence : n(k) > 0}
<1>1. ASSUME NEW k \in DOMAIN Precedence PROVE n(k) = 0
  <2>1. {x \in RowsAt(plan.snaps, m) :
           \E h \in Hydrated(a) : h.t = x.t /\ h.kind = Precedence[k]} = {}
    BY DEF RowsAt
  <2> QED
    BY <2>1, CountOfAnswers, FS_EmptySet
<1>2. \A k \in DOMAIN Precedence : ~(n(k) > 0)
  BY <1>1
<1>3. found = {}
  BY <1>2
<1>4. AssertionStatus(plan, R, a, m) =
        IF found = {} THEN "missing_reference"
        ELSE IF n(Min(found)) > 1 THEN "reference_conflict"
        ELSE IF FirstRow(RowsAt(plan.snaps, m)).qty
                  # (CHOOSE r \in RowsAt(R \cup Hydrated(a), m) : r.kind = Precedence[Min(found)]).qty
        THEN "drift" ELSE "matched"
  BY DEF AssertionStatus
<1> HIDE DEF found
<1> QED
  BY <1>3, <1>4

LEMMA StatusOfAnswered ==
  ASSUME NEW plan, NEW R, NEW a, NEW m, NEW h, NEW x, RowsAt(R, m) = {},
         RowsAt(plan.snaps, m) = {x}, RowsAt(Hydrated(a), m) = {h}, h.t = x.t
  PROVE  AssertionStatus(plan, R, a, m) = IF x.qty # h.qty THEN "drift" ELSE "matched"
<1>0. h \in Hydrated(a) /\ h.kind = "network_api"
  <2>1. h \in Hydrated(a)
    BY DEF RowsAt
  <2> QED
    BY <2>1 DEF Hydrated
<1>1. PICK j \in DOMAIN Precedence : Precedence[j] = h.kind
  BY <1>0, PrecedenceOfKinds DEF Kinds
<1> DEFINE n(k) == Count(plan, R, a, m, Precedence[k])
<1>2. \A q \in Hydrated(a) : q.t = x.t => q = h
  <2>1. MatchKey(x.t) = m
    BY DEF RowsAt
  <2>2. \A q \in Hydrated(a) : q.t = x.t => q \in RowsAt(Hydrated(a), m)
    BY <2>1 DEF RowsAt
  <2> QED
    BY <2>2
<1>3. n(j) = 1
  <2>1. {y \in RowsAt(plan.snaps, m) :
           \E q \in Hydrated(a) : q.t = y.t /\ q.kind = Precedence[j]} = {x}
    BY <1>0, <1>1
  <2> QED
    <3>1. n(j) = Cardinality({x})
      BY <2>1, CountOfAnswers
    <3> QED
      BY <3>1, FS_Singleton
<1>4. \A k \in DOMAIN Precedence : k # j => n(k) = 0
  <2> SUFFICES ASSUME NEW k \in DOMAIN Precedence, k # j PROVE n(k) = 0
    OBVIOUS
  <2>1. {y \in RowsAt(plan.snaps, m) :
           \E q \in Hydrated(a) : q.t = y.t /\ q.kind = Precedence[k]} = {}
    BY <1>1, <1>2, PrecedenceOfKinds
  <2> QED
    BY <2>1, CountOfAnswers, FS_EmptySet
<1>5. FirstRow(RowsAt(plan.snaps, m)) = x
  BY FirstOfOne
<1>6. (CHOOSE r \in RowsAt(R \cup Hydrated(a), m) : r.kind = Precedence[j]) = h
  <2>1. \A K : h.kind = K => (CHOOSE r \in {h} : r.kind = K) = h
    OBVIOUS
  <2>2. RowsAt(R \cup Hydrated(a), m) = {h}
    BY DEF RowsAt
  <2> QED
    BY <1>1, <2>1, <2>2
<1>7. n(j) \in Nat /\ n(j) > 0 /\ ~(n(j) > 1)
  BY <1>3
<1>8. AssertionStatus(plan, R, a, m) =
           IF n(j) > 1 THEN "reference_conflict"
           ELSE IF FirstRow(RowsAt(plan.snaps, m)).qty
                     # (CHOOSE r \in RowsAt(R \cup Hydrated(a), m) : r.kind = Precedence[j]).qty
           THEN "drift" ELSE "matched"
  BY ONLY <1>4, <1>7, j \in DOMAIN Precedence, StatusOfOneKind
<1> HIDE DEF n
<1> QED
  BY <1>5, <1>6, <1>7, <1>8

-----------------------------------------------------------------------------
(* The references a check leaves.                                          *)

Kept(R) == {r \in R : \A q \in R : CacheKey(q) = CacheKey(r) => q.qty <= r.qty}
After(R, a) == Kept(R) \cup Hydrated(a)

(* Every row that was read gives way to one of its target, if any.         *)
LEMMA KeptRows ==
  ASSUME NEW R, References(R)
  PROVE  /\ Kept(R) \subseteq R
         /\ \A r \in R : \E q \in Kept(R) : q.t = r.t
         /\ \A m : RowsAt(Kept(R), m) = {} <=> RowsAt(R, m) = {}
<1>1. Kept(R) \subseteq R
  BY DEF Kept
<1>2. ASSUME NEW r \in R PROVE \E q \in Kept(R) : q.t = r.t
  <2> DEFINE S == {q \in R : CacheKey(q) = CacheKey(r)}
  <2>1. S \in SUBSET R /\ r \in S
    OBVIOUS
  <2>2. IsFiniteSet(S) /\ S # {} /\ \A q \in S : q.qty \in Int
    <3>1. IsFiniteSet(S)
      BY <2>1, FS_Subset DEF References
    <3> QED
      BY <2>1, <3>1 DEF References
  <2> HIDE DEF S
  <2>3. PICK q \in S : \A p \in S : p.qty <= q.qty
    BY <2>2, LargestRow
  <2>4. q \in R /\ CacheKey(q) = CacheKey(r)
    BY DEF S
  <2>5. \A p \in R : CacheKey(p) = CacheKey(q) => p.qty <= q.qty
    BY <2>3, <2>4 DEF S
  <2>6. q.t = r.t
    BY <2>4 DEF CacheKey
  <2> QED
    BY <2>4, <2>5, <2>6 DEF Kept
<1>3. ASSUME NEW m PROVE RowsAt(Kept(R), m) = {} <=> RowsAt(R, m) = {}
  BY <1>1, <1>2 DEF RowsAt
<1> QED
  BY <1>1, <1>2, <1>3

(* A row alone at its instant stays.                                       *)
LEMMA LoneRowKept ==
  ASSUME NEW R, References(R), NEW m, NEW r, RowsAt(R, m) = {r}
  PROVE  RowsAt(Kept(R), m) = {r}
<1>1. Kept(R) \subseteq R /\ (RowsAt(Kept(R), m) = {} <=> RowsAt(R, m) = {})
  BY KeptRows
<1>2. RowsAt(Kept(R), m) \subseteq {r}
  BY <1>1 DEF RowsAt
<1> QED
  BY <1>1, <1>2

LEMMA PersistedAfter ==
  ASSUME NEW R, NEW matched \in SUBSET R, NEW a
  PROVE  PersistedReferences(R, matched, Hydrated(a)) = After(R, a)
<1>1. R \cup matched = R
  OBVIOUS
<1> QED
  BY <1>1 DEF PersistedReferences, After, Kept

(* A provider is asked for the planned targets without a reference.        *)
LEMMA MissingTargets ==
  ASSUME NEW plan, NEW R, NEW t
  PROVE  t \in Missing(plan, R) <=>
           \E x \in plan.snaps : x.t = t /\ RowsAt(R, MatchKey(t)) = {}
BY DEF Missing

LEMMA AnswersGiven ==
  ASSUME NEW plan, NEW R, NEW a, DOMAIN a = Missing(plan, R)
  PROVE  /\ \A h \in Hydrated(a) :
              /\ h.t \in DOMAIN a /\ a[h.t].what = "reference"
              /\ h.kind = "network_api" /\ h.qty = a[h.t].qty
              /\ RowsAt(R, MatchKey(h.t)) = {}
         /\ \A h, g \in Hydrated(a) : h.t = g.t => h = g
         /\ \A t \in DOMAIN a : a[t].what = "reference" => \E h \in Hydrated(a) : h.t = t
         /\ \A m : RowsAt(R, m) # {} => RowsAt(Hydrated(a), m) = {}
<1>1. ASSUME NEW h \in Hydrated(a)
      PROVE  /\ h.t \in DOMAIN a /\ a[h.t].what = "reference"
             /\ h = [t |-> h.t, kind |-> "network_api", support |-> "provider", qty |-> a[h.t].qty]
  BY DEF Hydrated
<1>2. ASSUME NEW h \in Hydrated(a) PROVE RowsAt(R, MatchKey(h.t)) = {}
  BY <1>1, MissingTargets
<1>3. \A h \in Hydrated(a) : h.kind = "network_api" /\ h.qty = a[h.t].qty
  BY <1>1
<1>4. \A h, g \in Hydrated(a) : h.t = g.t => h = g
  BY <1>1
<1>5. ASSUME NEW t \in DOMAIN a, a[t].what = "reference" PROVE \E h \in Hydrated(a) : h.t = t
  <2>1. [t |-> t, kind |-> "network_api", support |-> "provider", qty |-> a[t].qty] \in Hydrated(a)
    BY <1>5 DEF Hydrated
  <2> QED
    BY <2>1
<1>6. ASSUME NEW m, RowsAt(R, m) # {} PROVE RowsAt(Hydrated(a), m) = {}
  BY <1>2, <1>6 DEF RowsAt
<1> QED
  BY <1>1, <1>2, <1>3, <1>4, <1>5, <1>6

(* A check leaves a reference file as it found one.                        *)
LEMMA ReferencesStay ==
  ASSUME NEW plan, NEW R, NEW a, References(R), Snapshots(plan.snaps),
         DOMAIN a = Missing(plan, R), \A t \in DOMAIN a : a[t].what = "reference" => a[t].qty \in Int
  PROVE  References(After(R, a))
<1>1. IsFiniteSet(Hydrated(a))
  <2> DEFINE D == {t \in DOMAIN a : a[t].what = "reference"}
             U == {y \in plan.snaps : RowsAt(R, MatchKey(y.t)) = {}}
             f == [x \in U |-> x.t]
             g == [t \in D |-> [t |-> t, kind |-> "network_api", support |-> "provider",
                                qty |-> a[t].qty]]
  <2>1. U \in SUBSET plan.snaps
    OBVIOUS
  <2>2. IsFiniteSet(U)
    <3> HIDE DEF U
    <3> QED
      BY <2>1, FS_Subset DEF Snapshots
  <2>3. {f[x] : x \in U} = Missing(plan, R)
    BY DEF Missing
  <2>4. IsFiniteSet(Missing(plan, R))
    <3> HIDE DEF f, U
    <3> QED
      BY <2>2, <2>3, ImageIsFinite
  <2>5. D \in SUBSET Missing(plan, R)
    OBVIOUS
  <2>6. IsFiniteSet(D)
    <3> HIDE DEF D
    <3> QED
      BY <2>4, <2>5, FS_Subset
  <2>7. {g[t] : t \in D} = Hydrated(a)
    BY DEF Hydrated
  <2> HIDE DEF g, D
  <2> QED
    BY <2>6, <2>7, ImageIsFinite
<1>2. IsFiniteSet(Kept(R))
  <2>1. Kept(R) \in SUBSET R
    BY KeptRows
  <2> QED
    BY <2>1, FS_Subset DEF References
<1>3. IsFiniteSet(After(R, a))
  BY <1>1, <1>2, FS_Union DEF After
<1>4. \A h \in Hydrated(a) : h.qty \in Int /\ h.kind = "network_api" /\ RowsAt(R, MatchKey(h.t)) = {}
  <2>1. \A h \in Hydrated(a) :
          /\ h.t \in DOMAIN a /\ a[h.t].what = "reference" /\ h.qty = a[h.t].qty
          /\ h.kind = "network_api" /\ RowsAt(R, MatchKey(h.t)) = {}
    BY ONLY DOMAIN a = Missing(plan, R), AnswersGiven
  <2> QED
    BY <2>1
<1>5. \A r \in After(R, a) : r \in R \/ r \in Hydrated(a)
  BY KeptRows DEF After
<1>6. \A r \in After(R, a) : r.qty \in Int /\ r.kind \in Kinds /\ r.t.at \in Int
  <2>1. \A h \in Hydrated(a) : h.t \in Missing(plan, R)
    BY AnswersGiven
  <2>2. \A h \in Hydrated(a) : h.t.at \in Int
    BY <2>1, MissingTargets DEF Snapshots
  <2> QED
    BY <1>4, <1>5, <2>2 DEF References, Kinds
<1>7. \A r \in R, h \in Hydrated(a) : MatchKey(r.t) # MatchKey(h.t)
  BY <1>4 DEF RowsAt
<1>8. \A r, q \in After(R, a) : MatchKey(r.t) = MatchKey(q.t) => r.kind = q.kind
  BY <1>4, <1>5, <1>7 DEF References
<1> QED
  BY <1>3, <1>6, <1>8 DEF References

-----------------------------------------------------------------------------
(* What a check compares, and how the references it leaves change that.    *)

IsFlag(e) == e \in BOOLEAN
Set(e) == e = TRUE
Request(req) ==
  /\ req.valid \in BOOLEAN /\ req.hydrate \in BOOLEAN
  /\ req.asOf = NoAsOf \/ req.asOf.at \in Int
Valid(req) == req.valid = TRUE
Evidence(F, e, X, R) == [facts |-> F, explicit |-> e, snaps |-> X, refs |-> R]
Referenced(R, req) == InScope({r.t : r \in R}, req.asOf)
Targets(F, R, req) ==
  IF Referenced(R, req) # {} THEN Referenced(R, req) ELSE FactTargets(F, req.asOf)
FactsPlan(F, R, req) ==
  [status |-> "runs",
   snaps  |-> {[t |-> t, qty |-> Balance(F, t)] : t \in Targets(F, R, req)},
   gaps   |-> {t \in Referenced(R, req) : ~Covered(F, t)}]

(* Without facts: the explicit snapshots of the requested instant.         *)
Explicit(X, req) == {x \in X : req.asOf = NoAsOf \/ x.t.at = req.asOf.at}
SnapshotsPlan(X, req) == [status |-> "runs", snaps |-> Explicit(X, req), gaps |-> {}]

LEMMA PlanOfFacts ==
  ASSUME NEW F, F # {}, NEW e, NEW X, NEW R, NEW req, Valid(req)
  PROVE  CheckPlan(Evidence(F, e, X, R), req) = FactsPlan(F, R, req)
<1> DEFINE i == Evidence(F, e, X, R)
<1>1. i.facts = F /\ i.refs = R /\ i.snaps = X /\ i.explicit = e
  BY DEF Evidence
<1>2. InputMode(i) = "fact_backed"
  BY <1>1 DEF InputMode
<1> HIDE DEF i
<1>3. InputMode(i) # "empty" /\ InputMode(i) # "manual_only"
  BY <1>2
<1>4. CheckPlan(i, req) =
        [status |-> "runs",
         snaps  |-> {[t |-> t, qty |-> Balance(i.facts, t)] :
                       t \in IF InScope({r.t : r \in i.refs}, req.asOf) # {}
                             THEN InScope({r.t : r \in i.refs}, req.asOf)
                             ELSE FactTargets(i.facts, req.asOf)},
         gaps   |-> {t \in InScope({r.t : r \in i.refs}, req.asOf) : ~Covered(i.facts, t)}]
  BY <1>2, <1>3 DEF CheckPlan, Valid
<1>5. QED
  BY <1>1, <1>4 DEF FactsPlan, Targets, Referenced, i

LEMMA PlanOfSnapshots ==
  ASSUME NEW e, NEW X, NEW R, NEW req, Valid(req), Set(e),
         CheckPlan(Evidence({}, e, X, R), req).status = "runs"
  PROVE  CheckPlan(Evidence({}, e, X, R), req) = SnapshotsPlan(X, req)
<1> DEFINE i == Evidence({}, e, X, R)
<1>1. i.facts = {} /\ i.refs = R /\ i.snaps = X /\ i.explicit = TRUE
  BY DEF Evidence, Set
<1>2. InputMode(i) = "manual_only"
  BY <1>1 DEF InputMode
<1> HIDE DEF i
<1>3. InputMode(i) # "empty" /\ InputMode(i) # "fact_backed"
  BY <1>2
<1>4. CheckPlan(i, req) =
        IF {x \in i.snaps : req.asOf = NoAsOf \/ x.t.at = req.asOf.at} = {} /\ req.asOf # NoAsOf
        THEN Stop("no_balance_targets")
        ELSE [status |-> "runs",
              snaps |-> {x \in i.snaps : req.asOf = NoAsOf \/ x.t.at = req.asOf.at}, gaps |-> {}]
  BY <1>2, <1>3 DEF CheckPlan, Valid
<1>5. Stop("no_balance_targets").status # "runs"
  BY DEF Stop
<1>6. CheckPlan(i, req).status = "runs"
  BY DEF i
<1> QED
  BY <1>1, <1>4, <1>5, <1>6 DEF SnapshotsPlan, Explicit, i

(* A plan runs for valid requests over facts or explicit snapshots.        *)
LEMMA PlanRuns ==
  ASSUME NEW F, NEW e, IsFlag(e), NEW X, NEW R, NEW req, Request(req),
         CheckPlan(Evidence(F, e, X, R), req).status = "runs"
  PROVE  Valid(req) /\ (F # {} \/ Set(e))
<1> DEFINE i == Evidence(F, e, X, R)
<1>1. i.facts = F /\ i.explicit = e
  BY DEF Evidence
<1>2. CheckPlan(i, req).status = "runs"
  OBVIOUS
<1>3. Stop("failed").status # "runs" /\ Stop("not_runnable").status # "runs"
  BY DEF Stop
<1> HIDE DEF i
<1>4. CASE ~Valid(req)
  <2>1. CheckPlan(i, req) = Stop("failed")
    BY <1>4 DEF CheckPlan, Valid, Request
  <2> QED
    BY <1>2, <1>3, <2>1
<1>5. CASE Valid(req) /\ F = {} /\ ~Set(e)
  <2>1. InputMode(i) = "empty"
    BY <1>1, <1>5 DEF InputMode, Set, IsFlag
  <2>2. CheckPlan(i, req) = Stop("not_runnable")
    BY <1>5, <2>1 DEF CheckPlan, Valid
  <2> QED
    BY <1>2, <1>3, <2>2
<1> QED
  BY <1>4, <1>5

(* Whether a plan runs does not depend on the references, nor, without      *)
(* facts, does what it compares.                                            *)
LEMMA PlanStillRuns ==
  ASSUME NEW F, NEW e, IsFlag(e), NEW X, NEW R, NEW R2, NEW req, Request(req),
         CheckPlan(Evidence(F, e, X, R), req).status = "runs"
  PROVE  /\ CheckPlan(Evidence(F, e, X, R2), req).status = "runs"
         /\ F = {} => CheckPlan(Evidence(F, e, X, R2), req) = CheckPlan(Evidence(F, e, X, R), req)
<1>1. Valid(req) /\ (F # {} \/ Set(e))
  BY PlanRuns
<1>2. CASE F # {}
  <2>1. CheckPlan(Evidence(F, e, X, R2), req) = FactsPlan(F, R2, req)
    BY <1>1, <1>2, PlanOfFacts
  <2> QED
    BY <1>2, <2>1 DEF FactsPlan
<1>3. CASE F = {}
  <2> DEFINE i(S) == Evidence({}, e, X, S)
  <2>1. ASSUME NEW S PROVE i(S).facts = {} /\ i(S).snaps = X /\ i(S).explicit = TRUE
    BY <1>1, <1>3 DEF Evidence, Set
  <2> HIDE DEF i
  <2>2. ASSUME NEW S
        PROVE  CheckPlan(i(S), req) =
                 IF {x \in X : req.asOf = NoAsOf \/ x.t.at = req.asOf.at} = {} /\ req.asOf # NoAsOf
                 THEN Stop("no_balance_targets")
                 ELSE [status |-> "runs",
                       snaps |-> {x \in X : req.asOf = NoAsOf \/ x.t.at = req.asOf.at}, gaps |-> {}]
    <3>1. InputMode(i(S)) = "manual_only"
      BY <2>1 DEF InputMode
    <3>2. InputMode(i(S)) # "empty" /\ InputMode(i(S)) # "fact_backed"
      BY <3>1
    <3> QED
      BY <1>1, <2>1, <3>1, <3>2 DEF CheckPlan, Valid
  <2>3. CheckPlan(i(R2), req) = CheckPlan(i(R), req)
    BY <2>2
  <2> QED
    BY <1>3, <2>3 DEF i
<1> QED
  BY <1>2, <1>3

(* Finitely many rows make finitely many snapshots to compare.             *)
LEMMA PlanIsFinite ==
  ASSUME NEW F, IsFiniteSet(F), NEW e, IsFlag(e), NEW X, IsFiniteSet(X), NEW R, IsFiniteSet(R),
         NEW req, Request(req), CheckPlan(Evidence(F, e, X, R), req).status = "runs"
  PROVE  IsFiniteSet(CheckPlan(Evidence(F, e, X, R), req).snaps)
<1>1. Valid(req) /\ (F # {} \/ Set(e))
  BY PlanRuns
<1>2. CASE F # {}
  <2>1. IsFiniteSet(Referenced(R, req))
    <3> DEFINE f == [r \in R |-> r.t]
    <3>1. {f[r] : r \in R} = {r.t : r \in R}
      OBVIOUS
    <3>2. IsFiniteSet({r.t : r \in R})
      <4> HIDE DEF f
      <4> QED
        BY <3>1, ImageIsFinite
    <3>3. Referenced(R, req) \in SUBSET {r.t : r \in R}
      BY DEF Referenced, InScope
    <3> QED
      BY <3>2, <3>3, FS_Subset
  <2>2. IsFiniteSet(FactTargets(F, req.asOf))
    <3> DEFINE P == {l.pos : l \in F}
               f == [l \in F |-> l.pos]
               at(p) == IF req.asOf = NoAsOf THEN Max({l.at : l \in {k \in F : k.pos = p}})
                        ELSE req.asOf.at
               g == [p \in P |-> [pos |-> p, bal |-> "available", prec |-> "timestamp", at |-> at(p)]]
    <3>1. {f[l] : l \in F} = P
      OBVIOUS
    <3>2. IsFiniteSet(P)
      <4> HIDE DEF f, P
      <4> QED
        BY <3>1, ImageIsFinite
    <3>3. {g[p] : p \in P} = FactTargets(F, req.asOf)
      <4> HIDE DEF P
      <4>1. {g[p] : p \in P} = {[pos |-> p, bal |-> "available", prec |-> "timestamp",
                                  at |-> at(p)] : p \in P}
        OBVIOUS
      <4> QED
        BY <4>1 DEF FactTargets, P
    <3> HIDE DEF g, P
    <3> QED
      BY <3>2, <3>3, ImageIsFinite
  <2>3. IsFiniteSet(Targets(F, R, req))
    BY <2>1, <2>2 DEF Targets
  <2> DEFINE T == Targets(F, R, req)
             f == [t \in T |-> [t |-> t, qty |-> Balance(F, t)]]
  <2>4. FactsPlan(F, R, req).snaps = {f[t] : t \in T}
    BY DEF FactsPlan
  <2>5. IsFiniteSet({f[t] : t \in T})
    <3> HIDE DEF f, T
    <3> QED
      BY <2>3, ImageIsFinite DEF T
  <2>6. CheckPlan(Evidence(F, e, X, R), req) = FactsPlan(F, R, req)
    BY <1>1, <1>2, PlanOfFacts
  <2> QED
    BY <2>4, <2>5, <2>6
<1>3. CASE F = {}
  <2>1. CheckPlan(Evidence(F, e, X, R), req) = SnapshotsPlan(X, req)
    BY <1>1, <1>3, PlanOfSnapshots
  <2>2. Explicit(X, req) \in SUBSET X
    BY DEF Explicit
  <2> QED
    BY <2>1, <2>2, FS_Subset DEF SnapshotsPlan
<1> QED
  BY <1>2, <1>3

(* The largest of finitely many integers, and the smallest of naturals.    *)
LEMMA LargestIsMax ==
  ASSUME NEW S \in SUBSET Int, IsFiniteSet(S), S # {}
  PROVE  Max(S) \in S /\ \A y \in S : y <= Max(S)
<1> DEFINE f == [y \in S |-> [qty |-> y]]
           T == {f[y] : y \in S}
<1>1. IsFiniteSet(T)
  <2> HIDE DEF f
  <2>1. IsFiniteSet({f[y] : y \in S})
    BY ONLY IsFiniteSet(S), ImageIsFinite
  <2> QED
    BY <2>1
<1>2. \A y \in S : [qty |-> y] \in T
  OBVIOUS
<1>3. \A r \in T : r.qty \in S
  OBVIOUS
<1> HIDE DEF T, f
<1>4. T # {} /\ \A r \in T : r.qty \in Int
  BY <1>2, <1>3
<1>5. PICK r \in T : \A q \in T : q.qty <= r.qty
  BY <1>1, <1>4, LargestRow
<1>6. r.qty \in S /\ \A y \in S : r.qty >= y
  BY <1>2, <1>3, <1>4, <1>5
<1> QED
  BY <1>6 DEF Max

LEMMA SmallestIsMin ==
  ASSUME NEW S \in SUBSET Nat, S # {}
  PROVE  Min(S) \in S /\ \A y \in S : Min(S) <= y
<1> DEFINE Less == OpToRel(<, Nat)
<1>1. IsWellFoundedOn(Less, Nat)
  BY NatLessThanWellFounded
<1>2. Less = {pair \in Nat \X Nat : pair[1] < pair[2]}
  BY DEF OpToRel
<1> HIDE DEF Less
<1>3. PICK x \in S : \A y \in S : ~(<< y, x >> \in Less)
  BY <1>1, WFMin
<1>4. ASSUME NEW y \in S PROVE x <= y
  <2>1. x \in Nat /\ y \in Nat
    OBVIOUS
  <2>2. y < x => << y, x >> \in Less
    BY <1>2, <2>1
  <2> QED
    BY <1>3, <2>1, <2>2
<1> QED
  BY <1>4 DEF Min

(* What a check compares has the shape of a snapshot file.                 *)
LEMMA PlanIsShaped ==
  ASSUME NEW F, Legs(F), NEW e, IsFlag(e), NEW X, Snapshots(X), NEW R, References(R),
         NEW req, Request(req), CheckPlan(Evidence(F, e, X, R), req).status = "runs"
  PROVE  Snapshots(CheckPlan(Evidence(F, e, X, R), req).snaps)
<1>1. Valid(req) /\ (F # {} \/ Set(e))
  BY PlanRuns
<1>2. IsFiniteSet(CheckPlan(Evidence(F, e, X, R), req).snaps)
  <2>1. IsFiniteSet(F) /\ IsFiniteSet(X) /\ IsFiniteSet(R)
    BY DEF Legs, Snapshots, References
  <2> QED
    BY <2>1, PlanIsFinite
<1>3. CASE F # {}
  <2>1. CheckPlan(Evidence(F, e, X, R), req) = FactsPlan(F, R, req)
    BY <1>1, <1>3, PlanOfFacts
  <2>2. \A t \in Referenced(R, req) : t.at \in Int
    BY DEF Referenced, InScope, References
  <2>3. ASSUME NEW t \in FactTargets(F, req.asOf) PROVE t.at \in Int
    <3>1. CASE req.asOf # NoAsOf
      BY <3>1 DEF FactTargets, Request
    <3>2. CASE req.asOf = NoAsOf
      <4>1. PICK p \in {l.pos : l \in F} : t.at = Max({l.at : l \in {k \in F : k.pos = p}})
        BY <3>2 DEF FactTargets
      <4> DEFINE G == {k \in F : k.pos = p}
                 f == [l \in G |-> l.at]
                 S == {l.at : l \in G}
      <4>2. G \in SUBSET F /\ G # {}
        OBVIOUS
      <4>3. IsFiniteSet(G)
        <5> HIDE DEF G
        <5> QED
          BY <4>2, FS_Subset DEF Legs
      <4>4. S = {f[l] : l \in G}
        OBVIOUS
      <4>5. S \in SUBSET Int /\ S # {}
        BY <4>2 DEF Legs
      <4>6. IsFiniteSet(S)
        <5> HIDE DEF f, S, G
        <5> QED
          BY <4>3, <4>4, ImageIsFinite
      <4>7. Max(S) \in Int
        <5> HIDE DEF S
        <5> QED
          BY <4>5, <4>6, LargestIsMax
      <4> QED
        BY <4>1, <4>7
    <3> QED
      BY <3>1, <3>2
  <2>4. \A t \in Targets(F, R, req) : t.at \in Int
    BY <2>2, <2>3 DEF Targets
  <2>5. \A x \in FactsPlan(F, R, req).snaps : x.t.at \in Int
    BY <2>4 DEF FactsPlan
  <2> QED
    BY <1>2, <2>1, <2>5 DEF Snapshots
<1>4. CASE F = {}
  <2>1. CheckPlan(Evidence(F, e, X, R), req) = SnapshotsPlan(X, req)
    BY <1>1, <1>4, PlanOfSnapshots
  <2> QED
    BY <1>2, <2>1 DEF SnapshotsPlan, Explicit, Snapshots
<1> QED
  BY <1>3, <1>4

LEMMA KeptTargets ==
  ASSUME NEW R, References(R)
  PROVE  {r.t : r \in Kept(R)} = {r.t : r \in R}
BY KeptRows

(* Dropping rows of a target that keeps another one changes no plan.       *)
LEMMA SamePlanOfKept ==
  ASSUME NEW F, NEW e, IsFlag(e), NEW X, NEW R, References(R), NEW req, Request(req),
         CheckPlan(Evidence(F, e, X, R), req).status = "runs"
  PROVE  CheckPlan(Evidence(F, e, X, Kept(R)), req) = CheckPlan(Evidence(F, e, X, R), req)
<1>1. Valid(req) /\ (F # {} \/ Set(e))
  BY PlanRuns
<1>2. CASE F # {}
  <2>1. Referenced(Kept(R), req) = Referenced(R, req)
    BY KeptTargets DEF Referenced
  <2>2. FactsPlan(F, Kept(R), req) = FactsPlan(F, R, req)
    BY <2>1 DEF FactsPlan, Targets
  <2>3. CheckPlan(Evidence(F, e, X, Kept(R)), req) = FactsPlan(F, Kept(R), req)
    BY <1>1, <1>2, PlanOfFacts
  <2>4. CheckPlan(Evidence(F, e, X, R), req) = FactsPlan(F, R, req)
    BY <1>1, <1>2, PlanOfFacts
  <2> QED
    BY <2>2, <2>3, <2>4
<1>3. CASE F = {}
  BY <1>3, PlanStillRuns
<1> QED
  BY <1>2, <1>3

(* A target is planned from the references only if it has one.             *)
LEMMA MissingOfFacts ==
  ASSUME NEW F, NEW R, NEW req, Missing(FactsPlan(F, R, req), R) # {}
  PROVE  Referenced(R, req) = {} /\ Missing(FactsPlan(F, R, req), R) = FactTargets(F, req.asOf)
<1> DEFINE plan == FactsPlan(F, R, req)
           T == FactTargets(F, req.asOf)
<1>1. \A t : t \in Missing(plan, R) <=> t \in Targets(F, R, req) /\ RowsAt(R, MatchKey(t)) = {}
  <2> TAKE t
  <2>1. plan.snaps = {[t |-> u, qty |-> Balance(F, u)] : u \in Targets(F, R, req)}
    BY DEF FactsPlan
  <2>2. (\E x \in plan.snaps : x.t = t) <=> t \in Targets(F, R, req)
    <3> HIDE DEF plan
    <3>1. ASSUME NEW x \in plan.snaps PROVE x.t \in Targets(F, R, req)
      BY <2>1
    <3>2. ASSUME t \in Targets(F, R, req) PROVE \E x \in plan.snaps : x.t = t
      <4>1. [t |-> t, qty |-> Balance(F, t)] \in plan.snaps
        BY <2>1, <3>2
      <4> QED
        BY <4>1
    <3> QED
      BY <3>1, <3>2
  <2> QED
    BY <2>2, MissingTargets
<1>2. Referenced(R, req) = {}
  <2> SUFFICES ASSUME Referenced(R, req) # {} PROVE FALSE
    OBVIOUS
  <2>1. PICK t \in Missing(plan, R) : TRUE
    OBVIOUS
  <2>2. t \in Referenced(R, req) /\ RowsAt(R, MatchKey(t)) = {}
    BY <1>1, <2>1 DEF Targets
  <2>3. PICK r \in R : r.t = t
    BY <2>2 DEF Referenced, InScope
  <2> QED
    BY <2>2, <2>3 DEF RowsAt
<1>3. ASSUME NEW t \in T PROVE RowsAt(R, MatchKey(t)) = {}
  <2> SUFFICES ASSUME NEW r \in R, MatchKey(r.t) = MatchKey(t) PROVE FALSE
    BY DEF RowsAt
  <2>1. r.t.at = t.at
    <3>1. << r.t.pos, r.t.bal, r.t.at >> = << t.pos, t.bal, t.at >>
      BY DEF MatchKey
    <3>2. << r.t.pos, r.t.bal, r.t.at >>[3] = << t.pos, t.bal, t.at >>[3]
      BY <3>1
    <3> QED
      BY <3>2
  <2>2. req.asOf # NoAsOf => t.at = req.asOf.at
    BY DEF FactTargets
  <2>3. r.t \in Referenced(R, req)
    BY <2>1, <2>2 DEF Referenced, InScope
  <2> QED
    BY <1>2, <2>3
<1>4. Targets(F, R, req) = T
  BY <1>2 DEF Targets
<1> QED
  BY <1>1, <1>2, <1>3, <1>4

(* If every missing reference was answered, the next check compares the     *)
(* same, with the answers as its references.                                *)
LEMMA SamePlanOfAnswered ==
  ASSUME NEW F, NEW e, IsFlag(e), NEW X, NEW R, References(R), NEW req, Request(req),
         NEW plan, plan = CheckPlan(Evidence(F, e, X, R), req), plan.status = "runs",
         NEW a, DOMAIN a = Missing(plan, R), Missing(plan, R) # {},
         \A t \in DOMAIN a : a[t].what = "reference",
         NEW next, next = CheckPlan(Evidence(F, e, X, After(R, a)), req),
         plan.gaps = {}, next.gaps = {}
  PROVE  next = plan
<1>1. Valid(req) /\ (F # {} \/ Set(e))
  BY PlanRuns
<1>2. CASE F # {}
  <2> DEFINE T == FactTargets(F, req.asOf)
             R2 == After(R, a)
  <2>0. Valid(req) /\ F # {}
    BY <1>1, <1>2
  <2>1. plan = FactsPlan(F, R, req) /\ next = FactsPlan(F, R2, req)
    <3> HIDE DEF R2, T
    <3>1. CheckPlan(Evidence(F, e, X, R), req) = FactsPlan(F, R, req)
      BY ONLY <2>0, PlanOfFacts
    <3>2. CheckPlan(Evidence(F, e, X, R2), req) = FactsPlan(F, R2, req)
      BY ONLY <2>0, PlanOfFacts
    <3> USE DEF R2
    <3> QED
      BY <3>1, <3>2
  <2>2. Referenced(R, req) = {} /\ DOMAIN a = T /\ T # {}
    BY <2>1, MissingOfFacts
  <2>3. \A t : (\E r \in R2 : r.t = t) <=> (\E r \in Kept(R) : r.t = t) \/ t \in T
    <3>0. /\ \A h \in Hydrated(a) : h.t \in DOMAIN a
          /\ \A t \in DOMAIN a : a[t].what = "reference" => \E h \in Hydrated(a) : h.t = t
      BY AnswersGiven
    <3>1. \A h \in Hydrated(a) : h.t \in T
      BY <2>2, <3>0
    <3>2. \A t \in T : \E h \in Hydrated(a) : h.t = t
      BY <2>2, <3>0
    <3> QED
      BY <3>1, <3>2 DEF After
  <2>4. \A t \in Referenced(R2, req) : t \in T
    <3> SUFFICES ASSUME NEW t \in Referenced(R2, req), t \notin T PROVE FALSE
      OBVIOUS
    <3>1. t \in {r.t : r \in R2}
      BY DEF Referenced, InScope
    <3>2. PICK r \in Kept(R) : r.t = t
      BY <2>3, <3>1
    <3>3. r \in R
      BY <3>2, KeptRows
    <3>4. t \in Referenced(R, req)
      BY <3>2, <3>3 DEF Referenced, InScope
    <3> QED
      BY <2>2, <3>4
  <2>5. \A t \in T : t \in Referenced(R2, req)
    <3> SUFFICES ASSUME NEW t \in T PROVE t \in Referenced(R2, req)
      OBVIOUS
    <3>1. t \in {r.t : r \in R2}
      BY <2>3
    <3>2. req.asOf # NoAsOf => t.at = req.asOf.at
      BY DEF FactTargets
    <3> QED
      BY <3>1, <3>2 DEF Referenced, InScope
  <2>6. Referenced(R2, req) = T
    BY <2>4, <2>5
  <2>7. Targets(F, R2, req) = T /\ Targets(F, R, req) = T
    BY <2>2, <2>6 DEF Targets
  <2>8. next.snaps = plan.snaps /\ next.status = plan.status
    BY <2>1, <2>7 DEF FactsPlan
  <2>9. /\ plan = [status |-> plan.status, snaps |-> plan.snaps, gaps |-> plan.gaps]
        /\ next = [status |-> next.status, snaps |-> next.snaps, gaps |-> next.gaps]
    BY <2>1 DEF FactsPlan
  <2> QED
    BY <2>8, <2>9
<1>3. CASE F = {}
  <2>1. CheckPlan(Evidence(F, e, X, After(R, a)), req) = CheckPlan(Evidence(F, e, X, R), req)
    BY <1>3, PlanStillRuns
  <2> QED
    BY <2>1
<1> QED
  BY <1>2, <1>3

-----------------------------------------------------------------------------
(* The verdict of a check on what it leaves.                               *)

(* The references of one instant after a check.                            *)
LEMMA RowsAfter ==
  ASSUME NEW plan, NEW R, References(R), NEW a, DOMAIN a = Missing(plan, R), NEW m
  PROVE  /\ RowsAt(R, m) # {} =>
              RowsAt(After(R, a), m) = RowsAt(Kept(R), m) /\ RowsAt(After(R, a), m) # {}
         /\ RowsAt(R, m) = {} => RowsAt(After(R, a), m) = RowsAt(Hydrated(a), m)
<1>1. RowsAt(After(R, a), m) = RowsAt(Kept(R), m) \cup RowsAt(Hydrated(a), m)
  BY DEF After, RowsAt
<1>2. RowsAt(Kept(R), m) = {} <=> RowsAt(R, m) = {}
  BY KeptRows
<1>3. RowsAt(R, m) # {} => RowsAt(Hydrated(a), m) = {}
  BY AnswersGiven
<1> QED
  BY <1>1, <1>2, <1>3

NoAnswers(plan, R) == [t \in Missing(plan, R) |-> Offline]

LEMMA NothingHydrated ==
  ASSUME NEW plan, NEW R
  PROVE  /\ DOMAIN NoAnswers(plan, R) = Missing(plan, R)
         /\ \A t \in DOMAIN NoAnswers(plan, R) : NoAnswers(plan, R)[t] = Offline
         /\ Hydrated(NoAnswers(plan, R)) = {}
<1>1. \A t \in Missing(plan, R) : NoAnswers(plan, R)[t] = Offline
  BY DEF NoAnswers
<1>2. Offline.what # "reference"
  BY DEF Offline
<1> QED
  BY <1>1, <1>2 DEF NoAnswers, Hydrated

(* Where a check met one reference or none, the next one says the same.    *)
LEMMA SameStatus ==
  ASSUME NEW plan, NEW R, References(R), IsFiniteSet(plan.snaps),
         NEW a, DOMAIN a = Missing(plan, R), NEW m \in MatchKeys(plan.snaps),
         AssertionStatus(plan, R, a, m) # "reference_conflict",
         NEW b, Hydrated(b) = {},
         RowsAt(R, m) = {} /\ RowsAt(Hydrated(a), m) # {} =>
           \E x, h : RowsAt(plan.snaps, m) = {x} /\ RowsAt(Hydrated(a), m) = {h} /\ h.t = x.t
  PROVE  AssertionStatus(plan, After(R, a), b, m) = AssertionStatus(plan, R, a, m)
<1>0. RowsAt(Hydrated(b), m) = {}
  BY DEF RowsAt
<1>1. CASE RowsAt(R, m) # {}
  <2>1. RowsAt(Hydrated(a), m) = {}
    BY <1>1, AnswersGiven
  <2>2. PICK r \in R, x \in plan.snaps :
              /\ RowsAt(R, m) = {r} /\ RowsAt(plan.snaps, m) = {x}
              /\ AssertionStatus(plan, R, a, m) = IF x.qty # r.qty THEN "drift" ELSE "matched"
    BY <1>1, <2>1, StatusOfReferenced
  <2>3. RowsAt(After(R, a), m) = {r}
    <3>1. RowsAt(Kept(R), m) = {r}
      BY ONLY References(R), <2>2, LoneRowKept
    <3> QED
      BY <1>1, <3>1, RowsAfter
  <2>4. r.kind \in Kinds
    BY <2>2 DEF References
  <2>5. AssertionStatus(plan, After(R, a), b, m) = IF x.qty # r.qty THEN "drift" ELSE "matched"
    BY <1>0, <2>2, <2>3, <2>4, StatusOfPair
  <2> QED
    BY <2>2, <2>5
<1>2. CASE RowsAt(R, m) = {} /\ RowsAt(Hydrated(a), m) = {}
  <2>1. RowsAt(After(R, a), m) = {}
    BY <1>2, RowsAfter
  <2> QED
    BY <1>0, <1>2, <2>1, StatusOfMissing
<1>3. CASE RowsAt(R, m) = {} /\ RowsAt(Hydrated(a), m) # {}
  <2>1. PICK x, h : RowsAt(plan.snaps, m) = {x} /\ RowsAt(Hydrated(a), m) = {h} /\ h.t = x.t
    BY <1>3
  <2>2. RowsAt(After(R, a), m) = {h}
    BY <1>3, <2>1, RowsAfter
  <2>3. h.kind \in Kinds
    <3>1. h \in Hydrated(a)
      BY <2>1 DEF RowsAt
    <3> QED
      BY <3>1, AnswersGiven DEF Kinds
  <2>4. AssertionStatus(plan, R, a, m) = IF x.qty # h.qty THEN "drift" ELSE "matched"
    BY <1>3, <2>1, StatusOfAnswered
  <2>5. AssertionStatus(plan, After(R, a), b, m) = IF x.qty # h.qty THEN "drift" ELSE "matched"
    BY <1>0, <2>1, <2>2, <2>3, StatusOfPair
  <2> QED
    BY <2>4, <2>5
<1> QED
  BY <1>1, <1>2, <1>3

LEMMA KindsOfRecord ==
  ASSUME NEW plan, plan.status = "runs", NEW R, NEW a, NEW hydrate
  PROVE  /\ Record(plan, R, a, hydrate).kinds = IssueKinds(plan, R, a)
         /\ Record(plan, R, a, hydrate).status = "clean" <=> IssueKinds(plan, R, a) = {}
BY DEF Record

LEMMA ConflictReported ==
  ASSUME NEW plan, plan.status = "runs", NEW R, NEW a, NEW hydrate,
         "reference_conflict" \notin Record(plan, R, a, hydrate).kinds
  PROVE  \A m \in MatchKeys(plan.snaps) : AssertionStatus(plan, R, a, m) # "reference_conflict"
<1> SUFFICES ASSUME NEW m \in MatchKeys(plan.snaps),
                    AssertionStatus(plan, R, a, m) = "reference_conflict"
             PROVE  FALSE
  OBVIOUS
<1> DEFINE rows == Assertions(plan, R, a)
<1>1. m \in DOMAIN rows /\ rows[m] = "reference_conflict"
  BY DEF Assertions
<1> HIDE DEF rows
<1>2. "reference_conflict" \in {rows[k] : k \in DOMAIN rows} \ {"matched", "missing_reference"}
  BY <1>1
<1>3. "reference_conflict" \in IssueKinds(plan, R, a)
  BY <1>2 DEF IssueKinds, rows
<1> QED
  BY <1>3, KindsOfRecord

(* A clean check: everything was answered and covered, and each instant has *)
(* one snapshot, which equals its reference.                                *)
LEMMA CleanRecord ==
  ASSUME NEW plan, plan.status = "runs", IsFiniteSet(plan.snaps), NEW R, NEW a,
         DOMAIN a = Missing(plan, R), NEW hydrate,
         Record(plan, R, a, hydrate).status = "clean"
  PROVE  /\ \A t \in DOMAIN a : a[t].what = "reference"
         /\ plan.gaps = {}
         /\ \A m \in MatchKeys(plan.snaps) :
              /\ AssertionStatus(plan, R, a, m) \in {"matched", "missing_reference"}
              /\ \E x \in plan.snaps : RowsAt(plan.snaps, m) = {x}
<1> DEFINE rows == Assertions(plan, R, a)
<1>0. /\ DOMAIN rows = MatchKeys(plan.snaps)
      /\ \A m \in MatchKeys(plan.snaps) : rows[m] = AssertionStatus(plan, R, a, m)
  BY DEF Assertions
<1>1. IssueKinds(plan, R, a) = {}
  BY KindsOfRecord
<1>2. IssueKinds(plan, R, a)
        = ({a[t].what : t \in DOMAIN a} \ {"reference"})
          \cup {"missing_fact_coverage" : t \in plan.gaps}
          \cup {"duplicate_balance_snapshot" :
                  m \in {k \in DOMAIN rows : Cardinality(RowsAt(plan.snaps, k)) > 1}}
          \cup ({rows[m] : m \in DOMAIN rows} \ {"matched", "missing_reference"})
  BY DEF IssueKinds
<1> HIDE DEF rows
<1>3. \A t \in DOMAIN a : a[t].what = "reference"
  BY <1>1, <1>2
<1>4. plan.gaps = {}
  BY <1>1, <1>2
<1>5. \A m \in DOMAIN rows : rows[m] \in {"matched", "missing_reference"}
  BY <1>1, <1>2
<1>6. {k \in DOMAIN rows : Cardinality(RowsAt(plan.snaps, k)) > 1} = {}
  BY <1>1, <1>2
<1>7. ASSUME NEW m \in MatchKeys(plan.snaps)
      PROVE  \E x \in plan.snaps : RowsAt(plan.snaps, m) = {x}
  <2>1. ~(Cardinality(RowsAt(plan.snaps, m)) > 1)
    BY <1>0, <1>6
  <2>2. IsFiniteSet(RowsAt(plan.snaps, m)) /\ Cardinality(RowsAt(plan.snaps, m)) \in Nat
    BY RowsAtFinite
  <2>3. RowsAt(plan.snaps, m) # {}
    BY DEF MatchKeys, RowsAt
  <2>4. Cardinality(RowsAt(plan.snaps, m)) <= 1
    BY <2>1, <2>2
  <2>5. PICK x \in RowsAt(plan.snaps, m) : RowsAt(plan.snaps, m) = {x}
    BY <2>2, <2>3, <2>4, OneRow
  <2> QED
    BY <2>5, RowsAtSubset
<1> QED
  BY <1>0, <1>3, <1>4, <1>5, <1>7

(* In a clean check an instant without a reference has one answer, for its  *)
(* one snapshot.                                                            *)
LEMMA CleanAnswer ==
  ASSUME NEW plan, NEW R, NEW a, DOMAIN a = Missing(plan, R),
         \A t \in DOMAIN a : a[t].what = "reference",
         NEW m, NEW x \in plan.snaps, RowsAt(plan.snaps, m) = {x}, RowsAt(R, m) = {}
  PROVE  \E h \in Hydrated(a) : RowsAt(Hydrated(a), m) = {h} /\ h.t = x.t
<1>1. MatchKey(x.t) = m
  BY DEF RowsAt
<1>2. x.t \in DOMAIN a
  BY <1>1, MissingTargets
<1>3. /\ \A h \in Hydrated(a) : h.t \in DOMAIN a
      /\ \A h, g \in Hydrated(a) : h.t = g.t => h = g
      /\ \A t \in DOMAIN a : a[t].what = "reference" => \E h \in Hydrated(a) : h.t = t
  BY AnswersGiven
<1>4. PICK h \in Hydrated(a) : h.t = x.t
  BY <1>2, <1>3
<1>5. ASSUME NEW g \in Hydrated(a), MatchKey(g.t) = m PROVE g = h
  <2>1. g.t \in Missing(plan, R)
    BY <1>3
  <2>2. PICK y \in plan.snaps : y.t = g.t
    BY <2>1, MissingTargets
  <2>3. y \in RowsAt(plan.snaps, m)
    BY <1>5, <2>2 DEF RowsAt
  <2>4. g.t = h.t
    BY <1>4, <2>2, <2>3
  <2> QED
    BY <1>3, <2>4
<1>6. RowsAt(Hydrated(a), m) = {h}
  BY <1>1, <1>4, <1>5 DEF RowsAt
<1> QED
  BY <1>4, <1>6

(* The record depends on the plan, the statuses and the resolver's issues. *)
LEMMA SameRecord ==
  ASSUME NEW plan, NEW R, NEW a, NEW R2, NEW b, NEW hydrate,
         \A m \in MatchKeys(plan.snaps) :
           AssertionStatus(plan, R2, b, m) = AssertionStatus(plan, R, a, m),
         {b[t].what : t \in DOMAIN b} \ {"reference"} = {a[t].what : t \in DOMAIN a} \ {"reference"}
  PROVE  Record(plan, R2, b, hydrate) = Record(plan, R, a, hydrate)
<1>1. Assertions(plan, R2, b) = Assertions(plan, R, a)
  BY DEF Assertions
<1>2. IssueKinds(plan, R2, b) = IssueKinds(plan, R, a)
  BY <1>1 DEF IssueKinds
<1> QED
  BY <1>1, <1>2 DEF Record

(* What a check says of evidence i stands if a check of i, offline, says    *)
(* the same, and a clean verdict is true of i.                              *)
SaidAgain(i, rec, req) ==
  LET plan == CheckPlan(i, req)
  IN  "reference_conflict" \notin rec.kinds
      /\ (req.hydrate => rec.status = "clean" /\ plan.gaps = {})
      => Record(plan, i.refs, NoAnswers(plan, i.refs), req.hydrate) = rec

CleanIsTrue(i, rec, req) ==
  rec.status = "clean" =>
    IF i.facts # {}
    THEN \A r \in i.refs : r.t \in InScope({r.t}, req.asOf) => r.qty = Balance(i.facts, r.t)
    ELSE \A x \in i.snaps : req.asOf = NoAsOf \/ x.t.at = req.asOf.at =>
           \E r \in i.refs : RowsAt(i.refs, MatchKey(x.t)) = {r} /\ r.qty = x.qty

(* A reference alone at its instant that equals the balance of the facts,  *)
(* or an explicit snapshot; and a clean date is the day of one.            *)
AgreesWith(r, i) ==
  /\ RowsAt(i.refs, MatchKey(r.t)) = {r}
  /\ \/ i.facts # {} /\ Balance(i.facts, r.t) = r.qty
     \/ \E x \in i.snaps : MatchKey(x.t) = MatchKey(r.t) /\ x.qty = r.qty

CleanIsDated(i, rec) ==
  rec.status = "clean" =>
    /\ rec.cleanDate \in Int
    /\ rec.cleanDate > 0 =>
         \E r \in i.refs : DayOf(r.t.at) = rec.cleanDate /\ AgreesWith(r, i)

(* A resolved source: the plan runs, and every missing target is answered, *)
(* offline by an issue.                                                     *)
Resolved(i, req, plan, a) ==
  /\ Legs(i.facts) /\ IsFlag(i.explicit) /\ Snapshots(i.snaps) /\ References(i.refs)
  /\ Request(req)
  /\ i = Evidence(i.facts, i.explicit, i.snaps, i.refs)
  /\ plan = CheckPlan(i, req) /\ plan.status = "runs"
  /\ DOMAIN a = Missing(plan, i.refs)
  /\ req.hydrate = FALSE => \A t \in DOMAIN a : a[t] = Offline

LEMMA ResolvedIsShaped ==
  ASSUME NEW i, NEW req, NEW plan, NEW a, Resolved(i, req, plan, a)
  PROVE  Snapshots(plan.snaps) /\ IsFiniteSet(plan.snaps)
<1>1. CheckPlan(Evidence(i.facts, i.explicit, i.snaps, i.refs), req) = plan
  BY DEF Resolved
<1>2. /\ Legs(i.facts) /\ IsFlag(i.explicit) /\ Snapshots(i.snaps) /\ References(i.refs)
      /\ Request(req)
      /\ CheckPlan(Evidence(i.facts, i.explicit, i.snaps, i.refs), req).status = "runs"
  BY <1>1 DEF Resolved
<1>3. Snapshots(CheckPlan(Evidence(i.facts, i.explicit, i.snaps, i.refs), req).snaps)
  BY ONLY <1>2, PlanIsShaped
<1> QED
  BY <1>1, <1>3 DEF Snapshots

(* The verdict on the references a check has read is said again of those it *)
(* leaves.                                                                  *)
LEMMA VerdictSaidAgain ==
  ASSUME NEW i, NEW req, NEW plan, NEW a, Resolved(i, req, plan, a),
         NEW j, j = Evidence(i.facts, i.explicit, i.snaps, After(i.refs, a))
  PROVE  SaidAgain(j, Record(plan, i.refs, a, req.hydrate), req)
<1> DEFINE R == i.refs
           rec == Record(plan, R, a, req.hydrate)
           next == CheckPlan(j, req)
           b == NoAnswers(next, After(R, a))
<1>0. /\ References(R) /\ plan.status = "runs" /\ DOMAIN a = Missing(plan, R)
      /\ plan = CheckPlan(Evidence(i.facts, i.explicit, i.snaps, R), req)
      /\ IsFlag(i.explicit) /\ Request(req) /\ j.refs = After(R, a)
      /\ req.hydrate \in BOOLEAN
  BY DEF Resolved, Evidence, Request
<1>1. SUFFICES ASSUME "reference_conflict" \notin rec.kinds,
                      req.hydrate => rec.status = "clean" /\ next.gaps = {}
               PROVE  Record(next, After(R, a), b, req.hydrate) = rec
  BY <1>0 DEF SaidAgain
<1>2. IsFiniteSet(plan.snaps)
  BY ResolvedIsShaped
<1>3. \A m \in MatchKeys(plan.snaps) : AssertionStatus(plan, R, a, m) # "reference_conflict"
  BY <1>0, <1>1, ConflictReported
<1>4. Hydrated(b) = {} /\ DOMAIN b = Missing(next, After(R, a)) /\ \A t \in DOMAIN b : b[t] = Offline
  BY NothingHydrated
<1>5. CASE Hydrated(a) = {} /\ \A t \in DOMAIN a : a[t] = Offline
  <2>1. After(R, a) = Kept(R)
    BY <1>5 DEF After
  <2>2. next = plan
    <3>1. CheckPlan(Evidence(i.facts, i.explicit, i.snaps, Kept(R)), req)
            = CheckPlan(Evidence(i.facts, i.explicit, i.snaps, R), req)
      BY <1>0, SamePlanOfKept
    <3> QED
      BY <1>0, <2>1, <3>1
  <2>3. Missing(plan, After(R, a)) = Missing(plan, R)
    BY <1>0, <2>1, KeptRows DEF Missing
  <2>4. {b[t].what : t \in DOMAIN b} \ {"reference"} = {a[t].what : t \in DOMAIN a} \ {"reference"}
    <3>1. DOMAIN b = DOMAIN a
      BY <1>0, <1>4, <2>2, <2>3
    <3> HIDE DEF b
    <3> QED
      BY <1>4, <1>5, <3>1
  <2>5. \A m \in MatchKeys(plan.snaps) :
          AssertionStatus(plan, After(R, a), b, m) = AssertionStatus(plan, R, a, m)
    <3> SUFFICES ASSUME NEW m \in MatchKeys(plan.snaps)
                 PROVE  AssertionStatus(plan, After(R, a), b, m) = AssertionStatus(plan, R, a, m)
      OBVIOUS
    <3>1. RowsAt(Hydrated(a), m) = {}
      BY <1>5 DEF RowsAt
    <3> HIDE DEF b, R
    <3> QED
      BY <1>0, <1>2, <1>3, <1>4, <3>1, SameStatus
  <2> HIDE DEF b, R
  <2> QED
    BY <2>2, <2>4, <2>5, SameRecord DEF rec
<1>6. CASE req.hydrate = TRUE /\ Missing(plan, R) # {}
  <2>1. /\ \A t \in DOMAIN a : a[t].what = "reference"
        /\ plan.gaps = {} /\ next.gaps = {}
        /\ \A m \in MatchKeys(plan.snaps) :
             \E x \in plan.snaps : RowsAt(plan.snaps, m) = {x}
    BY <1>0, <1>1, <1>2, <1>6, CleanRecord
  <2>2. next = plan
    BY <1>0, <1>6, <2>1, SamePlanOfAnswered
  <2>3. Missing(plan, After(R, a)) = {}
    <3> SUFFICES ASSUME NEW t \in Missing(plan, After(R, a)) PROVE FALSE
      OBVIOUS
    <3>1. PICK x \in plan.snaps : x.t = t /\ RowsAt(After(R, a), MatchKey(t)) = {}
      BY MissingTargets
    <3>2. RowsAt(R, MatchKey(t)) = {}
      BY <1>0, <3>1, RowsAfter
    <3>3. t \in DOMAIN a
      BY <1>0, <3>1, <3>2, MissingTargets
    <3>4. \A u \in DOMAIN a : a[u].what = "reference" => \E h \in Hydrated(a) : h.t = u
      BY <1>0, AnswersGiven
    <3>5. PICK h \in Hydrated(a) : h.t = t
      BY <2>1, <3>3, <3>4
    <3> QED
      BY <3>1, <3>5 DEF RowsAt, After
  <2>4. {b[t].what : t \in DOMAIN b} \ {"reference"} = {a[t].what : t \in DOMAIN a} \ {"reference"}
    <3>1. DOMAIN b = {}
      BY <1>4, <2>2, <2>3
    <3> HIDE DEF b
    <3> QED
      BY <2>1, <3>1
  <2>5. \A m \in MatchKeys(plan.snaps) :
          AssertionStatus(plan, After(R, a), b, m) = AssertionStatus(plan, R, a, m)
    <3> SUFFICES ASSUME NEW m \in MatchKeys(plan.snaps)
                 PROVE  AssertionStatus(plan, After(R, a), b, m) = AssertionStatus(plan, R, a, m)
      OBVIOUS
    <3>1. PICK x \in plan.snaps : RowsAt(plan.snaps, m) = {x}
      BY <2>1
    <3>2. ASSUME RowsAt(R, m) = {}
          PROVE  \E h : RowsAt(Hydrated(a), m) = {h} /\ h.t = x.t
      BY <1>0, <2>1, <3>1, <3>2, CleanAnswer
    <3>3. RowsAt(R, m) = {} /\ RowsAt(Hydrated(a), m) # {} =>
            \E y, h : RowsAt(plan.snaps, m) = {y} /\ RowsAt(Hydrated(a), m) = {h} /\ h.t = y.t
      BY <3>1, <3>2
    <3> HIDE DEF b, R
    <3> QED
      BY <1>0, <1>2, <1>3, <1>4, <3>3, SameStatus
  <2> HIDE DEF b, R
  <2> QED
    BY <2>2, <2>4, <2>5, SameRecord DEF rec
<1>7. CASE req.hydrate = FALSE \/ Missing(plan, R) = {}
  <2>1. \A t \in DOMAIN a : a[t] = Offline
    BY <1>0, <1>7 DEF Resolved
  <2>2. Hydrated(a) = {}
    BY <2>1 DEF Hydrated, Offline
  <2> QED
    BY <1>5, <2>1, <2>2
<1> QED
  BY <1>0, <1>6, <1>7

(* Snapshot x has one reference, and equals it. *)
AgreesAlone(x, R) == \E r \in R : RowsAt(R, MatchKey(x.t)) = {r} /\ r.qty = x.qty

(* Each snapshot of a clean check has one reference afterwards, and equals  *)
(* it.                                                                      *)
LEMMA CleanSnapshot ==
  ASSUME NEW plan, plan.status = "runs", IsFiniteSet(plan.snaps), NEW R, References(R),
         NEW a, DOMAIN a = Missing(plan, R), NEW hydrate,
         Record(plan, R, a, hydrate).status = "clean", NEW x \in plan.snaps
  PROVE  AgreesAlone(x, After(R, a))
<1> DEFINE m == MatchKey(x.t)
<1>1. m \in MatchKeys(plan.snaps)
  BY DEF MatchKeys
<1>2. /\ \A t \in DOMAIN a : a[t].what = "reference"
      /\ AssertionStatus(plan, R, a, m) \in {"matched", "missing_reference"}
      /\ \E y \in plan.snaps : RowsAt(plan.snaps, m) = {y}
  BY <1>1, CleanRecord
<1>3. RowsAt(plan.snaps, m) = {x}
  <2>1. x \in RowsAt(plan.snaps, m)
    BY DEF RowsAt
  <2> QED
    BY <1>2, <2>1
<1> HIDE DEF m
<1>4. CASE RowsAt(R, m) # {}
  <2>1. RowsAt(Hydrated(a), m) = {}
    BY <1>4, AnswersGiven
  <2>2. PICK r \in R, y \in plan.snaps :
              /\ RowsAt(R, m) = {r} /\ RowsAt(plan.snaps, m) = {y}
              /\ AssertionStatus(plan, R, a, m) = IF y.qty # r.qty THEN "drift" ELSE "matched"
    <3>1. AssertionStatus(plan, R, a, m) # "reference_conflict"
      BY <1>2
    <3>2. References(R) /\ IsFiniteSet(plan.snaps)
      OBVIOUS
    <3> QED
      BY ONLY <1>1, <1>4, <2>1, <3>1, <3>2, StatusOfReferenced
  <2>3. y = x /\ r.qty = x.qty
    BY <1>2, <1>3, <2>2
  <2>4. RowsAt(Kept(R), m) = {r}
    BY <2>2, LoneRowKept
  <2>5. RowsAt(After(R, a), m) = {r}
    BY <1>4, <2>4, RowsAfter
  <2>6. r \in After(R, a)
    BY <2>5 DEF RowsAt
  <2> QED
    BY <2>3, <2>5, <2>6 DEF AgreesAlone, m
<1>5. CASE RowsAt(R, m) = {}
  <2>1. PICK h \in Hydrated(a) : RowsAt(Hydrated(a), m) = {h} /\ h.t = x.t
    BY <1>2, <1>3, <1>5, CleanAnswer
  <2>2. AssertionStatus(plan, R, a, m) = IF x.qty # h.qty THEN "drift" ELSE "matched"
    BY <1>3, <1>5, <2>1, StatusOfAnswered
  <2>3. h.qty = x.qty
    BY <1>2, <2>2
  <2>4. RowsAt(After(R, a), m) = {h}
    BY <1>5, <2>1, RowsAfter
  <2>5. h \in After(R, a)
    BY DEF After
  <2> QED
    BY <2>3, <2>4, <2>5 DEF AgreesAlone, m
<1> QED
  BY <1>4, <1>5

(* A clean verdict is true of what the check leaves.                       *)
LEMMA CleanVerdictTrue ==
  ASSUME NEW i, NEW req, NEW plan, NEW a, Resolved(i, req, plan, a),
         NEW j, j = Evidence(i.facts, i.explicit, i.snaps, After(i.refs, a))
  PROVE  CleanIsTrue(j, Record(plan, i.refs, a, req.hydrate), req)
<1> DEFINE R == i.refs
           F == i.facts
           rec == Record(plan, R, a, req.hydrate)
<1>0. /\ References(R) /\ plan.status = "runs" /\ DOMAIN a = Missing(plan, R)
      /\ plan = CheckPlan(Evidence(F, i.explicit, i.snaps, R), req)
      /\ IsFlag(i.explicit) /\ Request(req)
      /\ j.refs = After(R, a) /\ j.facts = F /\ j.snaps = i.snaps
  BY DEF Resolved, Evidence
<1>1. IsFiniteSet(plan.snaps)
  BY ResolvedIsShaped
<1>01. \A said : said.status # "clean" => CleanIsTrue(j, said, req)
  BY DEF CleanIsTrue
<1> SUFFICES ASSUME rec.status = "clean"
             PROVE  CleanIsTrue(j, rec, req)
  BY <1>01
<1>2. Valid(req) /\ (F # {} \/ Set(i.explicit))
  <2>1. CheckPlan(Evidence(F, i.explicit, i.snaps, R), req).status = "runs"
    BY <1>0
  <2> QED
    BY ONLY <1>0, <2>1, PlanRuns
<1>3. \A x \in plan.snaps : AgreesAlone(x, After(R, a))
  <2> SUFFICES ASSUME NEW x \in plan.snaps PROVE AgreesAlone(x, After(R, a))
    OBVIOUS
  <2>1. Record(plan, R, a, req.hydrate).status = "clean" /\ x \in plan.snaps
    OBVIOUS
  <2> HIDE DEF R, rec
  <2> QED
    BY ONLY <1>0, <1>1, <2>1, CleanSnapshot
<1>4. CASE F # {}
  <2>1. plan = FactsPlan(F, R, req)
    BY <1>0, <1>2, <1>4, PlanOfFacts
  <2>2. plan.snaps = {[t |-> t, qty |-> Balance(F, t)] : t \in Targets(F, R, req)}
    BY <2>1 DEF FactsPlan
  <2> HIDE DEF R, F, rec
  <2>3. \A x \in plan.snaps : x.qty = Balance(F, x.t)
    BY <2>2
  <2>4. ASSUME NEW r \in After(R, a), r.t \in InScope({r.t}, req.asOf)
        PROVE  \E x \in plan.snaps : x.t = r.t
    <3>1. CASE r \in Kept(R)
      <4>1. r \in R
        BY <1>0, <3>1, KeptRows
      <4>2. r.t \in Referenced(R, req)
        BY <2>4, <4>1 DEF Referenced, InScope
      <4>3. r.t \in Targets(F, R, req)
        BY <4>2 DEF Targets
      <4>4. [t |-> r.t, qty |-> Balance(F, r.t)] \in plan.snaps
        BY <2>2, <4>3
      <4> QED
        BY <4>4
    <3>2. CASE r \in Hydrated(a)
      <4>1. \A h \in Hydrated(a) : h.t \in DOMAIN a
        BY <1>0, AnswersGiven
      <4>2. r.t \in Missing(plan, R)
        BY <1>0, <3>2, <4>1
      <4> QED
        BY <4>2, MissingTargets
    <3> QED
      BY <2>4, <3>1, <3>2 DEF After
  <2>5. ASSUME NEW r \in After(R, a), r.t \in InScope({r.t}, req.asOf)
        PROVE  r.qty = Balance(F, r.t)
    <3>1. PICK x \in plan.snaps : x.t = r.t
      BY <2>4, <2>5
    <3>2. PICK q \in After(R, a) :
              RowsAt(After(R, a), MatchKey(x.t)) = {q} /\ q.qty = x.qty
      BY <1>3 DEF AgreesAlone
    <3>3. r \in RowsAt(After(R, a), MatchKey(x.t))
      BY <3>1 DEF RowsAt
    <3> QED
      BY <2>3, <3>1, <3>2, <3>3
  <2> QED
    BY <1>0, <1>4, <2>5 DEF CleanIsTrue
<1>5. CASE F = {}
  <2>1. CheckPlan(Evidence({}, i.explicit, i.snaps, R), req).status = "runs"
    BY <1>0, <1>5
  <2>2. Valid(req) /\ Set(i.explicit)
    BY <1>2, <1>5
  <2>3. CheckPlan(Evidence({}, i.explicit, i.snaps, R), req) = SnapshotsPlan(i.snaps, req)
    BY ONLY <2>1, <2>2, PlanOfSnapshots
  <2>4. plan.snaps = Explicit(i.snaps, req)
    BY <1>0, <1>5, <2>3 DEF SnapshotsPlan
  <2>5. \A x \in i.snaps : (req.asOf = NoAsOf \/ x.t.at = req.asOf.at) => x \in plan.snaps
    BY <2>4 DEF Explicit
  <2> HIDE DEF R, F, rec
  <2> QED
    BY <1>0, <1>3, <1>5, <2>5 DEF CleanIsTrue, AgreesAlone
<1> QED
  BY <1>4, <1>5

(* Targets that match are one for a balance.                               *)
LEMMA MatchingTargets ==
  ASSUME NEW t, NEW u, MatchKey(t) = MatchKey(u), NEW F
  PROVE  t.at = u.at /\ Balance(F, t) = Balance(F, u)
<1>1. t.pos = u.pos /\ t.at = u.at
  BY DEF MatchKey
<1>2. {l \in F : l.pos = t.pos /\ l.at <= t.at} = {l \in F : l.pos = u.pos /\ l.at <= u.at}
  BY <1>1
<1> QED
  BY <1>1, <1>2 DEF Balance

(* The date of a record is the day of a snapshot that was compared.        *)
LEMMA DateOfRecord ==
  ASSUME NEW plan, plan.status = "runs", Snapshots(plan.snaps), NEW R, NEW a, NEW hydrate
  PROVE  LET date == Record(plan, R, a, hydrate).cleanDate
         IN  date \in Int /\ (date > 0 => \E x \in plan.snaps : DayOf(x.t.at) = date)
<1> DEFINE rows == Assertions(plan, R, a)
           K == {k \in DOMAIN rows : rows[k] = "matched"}
           days == {DayOf(m[3]) : m \in K}
           g == [x \in plan.snaps |-> MatchKey(x.t)]
           f == [m \in K |-> DayOf(m[3])]
<1>1. K \in SUBSET MatchKeys(plan.snaps)
  BY DEF Assertions
<1>2. IsFiniteSet(MatchKeys(plan.snaps))
  <2>1. MatchKeys(plan.snaps) = {g[x] : x \in plan.snaps}
    BY DEF MatchKeys
  <2> HIDE DEF g
  <2> QED
    BY <2>1, ImageIsFinite DEF Snapshots
<1>3. \A m \in K : \E x \in plan.snaps : m[3] = x.t.at
  <2> HIDE DEF K
  <2>1. \A m \in K : \E x \in plan.snaps : m = MatchKey(x.t)
    BY <1>1 DEF MatchKeys
  <2> QED
    BY <2>1 DEF MatchKey
<1>4. \A at \in Int : DayOf(at) \in Int
  BY DayIsPositive DEF DayOf
<1>5. \A d \in days : \E x \in plan.snaps : d = DayOf(x.t.at)
  BY <1>3
<1>6. days = {f[m] : m \in K}
  OBVIOUS
<1> HIDE DEF K, f
<1>7. IsFiniteSet(days)
  <2>1. IsFiniteSet(K)
    BY <1>1, <1>2, FS_Subset
  <2> HIDE DEF days
  <2> QED
    BY <1>6, <2>1, ImageIsFinite
<1> HIDE DEF days
<1>8. days \in SUBSET Int
  BY <1>4, <1>5 DEF Snapshots
<1>9. LatestDay(rows) = IF days = {} THEN 0 ELSE Max(days)
  BY DEF LatestDay, days, K
<1>10. LatestDay(rows) = 0 \/ LatestDay(rows) \in days
  BY <1>7, <1>8, <1>9, LargestIsMax
<1> DEFINE date == Record(plan, R, a, hydrate).cleanDate
<1>11. date = 0 \/ date = LatestDay(rows)
  BY DEF Record
<1> HIDE DEF rows, date
<1>12. date = 0 \/ date \in days
  BY <1>10, <1>11
<1>13. date \in Int
  <2>1. \A d \in days : d \in Int
    BY <1>8
  <2>2. CASE date = 0
    BY <2>2
  <2>3. CASE date \in days
    BY <2>1, <2>3
  <2> QED
    BY <1>12, <2>2, <2>3
<1>14. date > 0 => \E x \in plan.snaps : DayOf(x.t.at) = date
  BY <1>5, <1>12
<1> QED
  BY <1>13, <1>14 DEF date

(* The date of a clean verdict has a reference in what the check leaves.   *)
LEMMA CleanDateProved ==
  ASSUME NEW i, NEW req, NEW plan, NEW a, Resolved(i, req, plan, a),
         NEW j, j = Evidence(i.facts, i.explicit, i.snaps, After(i.refs, a))
  PROVE  CleanIsDated(j, Record(plan, i.refs, a, req.hydrate))
<1> DEFINE R == i.refs
           F == i.facts
           rec == Record(plan, R, a, req.hydrate)
<1>0. /\ References(R) /\ plan.status = "runs" /\ DOMAIN a = Missing(plan, R)
      /\ plan = CheckPlan(Evidence(F, i.explicit, i.snaps, R), req)
      /\ IsFlag(i.explicit) /\ Request(req)
      /\ j.refs = After(R, a) /\ j.facts = F /\ j.snaps = i.snaps
  BY DEF Resolved, Evidence
<1>1. Snapshots(plan.snaps) /\ IsFiniteSet(plan.snaps)
  BY ResolvedIsShaped
<1>2. rec.cleanDate \in Int
      /\ (rec.cleanDate > 0 => \E x \in plan.snaps : DayOf(x.t.at) = rec.cleanDate)
  BY <1>0, <1>1, DateOfRecord
<1>3. Valid(req) /\ (F # {} \/ Set(i.explicit))
  <2>1. CheckPlan(Evidence(F, i.explicit, i.snaps, R), req).status = "runs"
    BY <1>0
  <2> QED
    BY ONLY <1>0, <2>1, PlanRuns
<1>4. \A x \in plan.snaps : IF F # {} THEN x.qty = Balance(F, x.t) ELSE x \in i.snaps
  <2>1. CASE F # {}
    <3>1. plan = FactsPlan(F, R, req)
      BY <1>0, <1>3, <2>1, PlanOfFacts
    <3>2. plan.snaps = {[t |-> t, qty |-> Balance(F, t)] : t \in Targets(F, R, req)}
      BY <3>1 DEF FactsPlan
    <3> HIDE DEF F, R
    <3> QED
      BY <2>1, <3>2
  <2>2. CASE F = {}
    <3>1. CheckPlan(Evidence({}, i.explicit, i.snaps, R), req).status = "runs"
      BY <1>0, <2>2
    <3>2. Valid(req) /\ Set(i.explicit)
      BY <1>3, <2>2
    <3>3. CheckPlan(Evidence({}, i.explicit, i.snaps, R), req) = SnapshotsPlan(i.snaps, req)
      BY ONLY <3>1, <3>2, PlanOfSnapshots
    <3> QED
      BY <1>0, <2>2, <3>3 DEF SnapshotsPlan, Explicit
  <2> QED
    BY <2>1, <2>2
<1>5. SUFFICES ASSUME rec.status = "clean", rec.cleanDate > 0
               PROVE  \E r \in j.refs : DayOf(r.t.at) = rec.cleanDate /\ AgreesWith(r, j)
  <2> HIDE DEF rec
  <2> QED
    BY <1>2 DEF CleanIsDated, rec
<1>6. PICK x \in plan.snaps : DayOf(x.t.at) = rec.cleanDate
  BY <1>2, <1>5
<1>7. AgreesAlone(x, After(R, a))
  <2>1. Record(plan, R, a, req.hydrate).status = "clean" /\ x \in plan.snaps
    BY <1>5
  <2> HIDE DEF R, rec
  <2> QED
    BY ONLY <1>0, <1>1, <2>1, CleanSnapshot
<1>8. PICK r \in After(R, a) : RowsAt(After(R, a), MatchKey(x.t)) = {r} /\ r.qty = x.qty
  BY <1>7 DEF AgreesAlone
<1>9. MatchKey(r.t) = MatchKey(x.t)
  BY <1>8 DEF RowsAt
<1>10. r.t.at = x.t.at /\ Balance(F, r.t) = Balance(F, x.t)
  BY <1>9, MatchingTargets
<1> HIDE DEF R, F, rec
<1>11. AgreesWith(r, j)
  <2>1. RowsAt(j.refs, MatchKey(r.t)) = {r}
    BY <1>0, <1>8, <1>9
  <2>2. CASE F # {}
    BY <1>0, <1>4, <1>8, <1>10, <2>1, <2>2 DEF AgreesWith
  <2>3. CASE F = {}
    BY <1>0, <1>4, <1>8, <1>9, <2>1, <2>3 DEF AgreesWith
  <2> QED
    BY <2>2, <2>3
<1> QED
  BY <1>0, <1>6, <1>8, <1>10, <1>11

(* A plan that does not run says the same of any references.               *)
LEMMA StoppedVerdict ==
  ASSUME NEW i, NEW req, Request(req), NEW plan, plan = CheckPlan(i, req), plan.status # "runs"
  PROVE  /\ SaidAgain(i, Record(plan, {}, << >>, req.hydrate), req)
         /\ CleanIsTrue(i, Record(plan, {}, << >>, req.hydrate), req)
         /\ CleanIsDated(i, Record(plan, {}, << >>, req.hydrate))
<1>1. \A R, a : Record(plan, R, a, req.hydrate) = Record(plan, {}, << >>, req.hydrate)
  BY DEF Record
<1>2. Record(plan, {}, << >>, req.hydrate).status = plan.status
  BY DEF Record
<1>3. plan.status # "clean"
  <2>1. \A status : Stop(status).status = status
    BY DEF Stop
  <2>2. CASE req.valid = FALSE
    BY <2>1, <2>2 DEF CheckPlan
  <2>3. CASE req.valid = TRUE
    <3>1. InputMode(i) \in {"empty", "fact_backed", "manual_only"}
      BY DEF InputMode
    <3>2. CASE InputMode(i) = "empty"
      <4>1. plan = Stop("not_runnable")
        BY <2>3, <3>2 DEF CheckPlan
      <4> QED
        BY <2>1, <4>1
    <3>3. CASE InputMode(i) = "fact_backed"
      BY <2>3, <3>3 DEF CheckPlan
    <3>4. CASE InputMode(i) = "manual_only"
      BY <2>1, <2>3, <3>4 DEF CheckPlan
    <3> QED
      BY <3>1, <3>2, <3>3, <3>4
  <2> QED
    BY <2>2, <2>3 DEF Request
<1> QED
  BY <1>1, <1>2, <1>3 DEF SaidAgain, CleanIsTrue, CleanIsDated

-----------------------------------------------------------------------------
(* What inspect says of a source.                                          *)

InspectRequest == [asOf |-> NoAsOf, valid |-> TRUE]

(* A source inspect calls ready has a reference of each target.            *)
LEMMA ReadyResolves ==
  ASSUME NEW i, OfflineReady(i) = "ready"
  PROVE  Missing(CheckPlan(i, InspectRequest), i.refs) = {}
<1> DEFINE plan == CheckPlan(i, InspectRequest)
<1>1. \A t \in {x.t : x \in plan.snaps} : \E r \in i.refs : r.t = t
  BY DEF OfflineReady, InspectRequest
<1> HIDE DEF plan
<1> SUFFICES ASSUME NEW t \in Missing(plan, i.refs) PROVE FALSE
  BY DEF plan
<1>2. PICK x \in plan.snaps : x.t = t /\ RowsAt(i.refs, MatchKey(t)) = {}
  BY MissingTargets
<1>3. PICK r \in i.refs : r.t = t
  BY <1>1, <1>2
<1> QED
  BY <1>2, <1>3 DEF RowsAt

(* It stays ready when a check has rewritten its references.               *)
LEMMA ReadyStays ==
  ASSUME NEW F, NEW e, IsFlag(e), NEW X, NEW R, References(R), NEW a,
         OfflineReady(Evidence(F, e, X, R)) = "ready"
  PROVE  OfflineReady(Evidence(F, e, X, After(R, a))) = "ready"
<1> DEFINE i(S) == Evidence(F, e, X, S)
           targets(S) == {x.t : x \in CheckPlan(i(S), InspectRequest).snaps}
<1>1. \A S : i(S).facts = F /\ i(S).explicit = e /\ i(S).refs = S /\ i(S).snaps = X
  BY DEF Evidence
<1>2. ASSUME NEW S
      PROVE  OfflineReady(i(S)) = "ready" <=>
               InputMode(i(R)) # "empty" /\ targets(S) # {}
               /\ \A t \in targets(S) : \E r \in S : r.t = t
  <2>1. InputMode(i(S)) = InputMode(i(R))
    BY <1>1 DEF InputMode
  <2> QED
    BY <1>1, <2>1 DEF OfflineReady, InspectRequest
<1>3. /\ InputMode(i(R)) # "empty" /\ targets(R) # {}
      /\ \A t \in targets(R) : \E r \in R : r.t = t
  BY <1>2
<1>4. \A r \in R : \E q \in After(R, a) : q.t = r.t
  BY KeptRows DEF After
<1>5. Valid(InspectRequest) /\ \A S : Referenced(S, InspectRequest) = {r.t : r \in S}
  BY DEF InspectRequest, Valid, Referenced, InScope
<1>6. CASE F # {}
  <2>1. ASSUME NEW S, S # {} PROVE targets(S) = {r.t : r \in S}
    <3>1. CheckPlan(i(S), InspectRequest) = FactsPlan(F, S, InspectRequest)
      BY <1>5, <1>6, PlanOfFacts
    <3>2. Referenced(S, InspectRequest) = {r.t : r \in S}
      BY <1>5
    <3>3. {r.t : r \in S} # {}
      BY <2>1
    <3> DEFINE T == {r.t : r \in S}
    <3> HIDE DEF T
    <3>4. Targets(F, S, InspectRequest) = T
      BY <3>2, <3>3 DEF Targets, T
    <3>5. CheckPlan(i(S), InspectRequest).snaps = {[t |-> t, qty |-> Balance(F, t)] : t \in T}
      BY <3>1, <3>4 DEF FactsPlan
    <3> HIDE DEF i
    <3>6. ASSUME NEW t PROVE t \in targets(S) <=> t \in T
      <4> DEFINE P == CheckPlan(i(S), InspectRequest).snaps
      <4>1. t \in T => [t |-> t, qty |-> Balance(F, t)] \in P
        BY <3>5
      <4>2. \A x \in P : x.t \in T
        BY <3>5
      <4> HIDE DEF P
      <4>3. t \in {x.t : x \in P} <=> t \in T
        BY <4>1, <4>2
      <4> QED
        BY <4>3 DEF P
    <3> QED
      BY <3>6 DEF T
  <2>2. R # {}
    BY <1>3
  <2>3. After(R, a) # {}
    BY <1>4, <2>2
  <2>4. targets(After(R, a)) = {r.t : r \in After(R, a)}
    BY <2>1, <2>3
  <2>5. targets(After(R, a)) # {} /\ \A t \in targets(After(R, a)) : \E r \in After(R, a) : r.t = t
    BY <2>3, <2>4
  <2> HIDE DEF i, targets
  <2>6. OfflineReady(i(After(R, a))) = "ready"
    BY <1>2, <1>3, <2>5
  <2> QED
    BY <2>6 DEF i
<1>7. CASE F = {}
  <2>1. targets(After(R, a)) = targets(R)
    <3>1. ASSUME NEW S
          PROVE  CheckPlan(i(S), InspectRequest) =
                   IF InputMode(i(R)) = "empty" THEN Stop("not_runnable")
                   ELSE SnapshotsPlan(X, InspectRequest)
      <4>1. InputMode(i(S)) = InputMode(i(R)) /\ InputMode(i(R)) \in {"empty", "manual_only"}
        BY <1>1, <1>7 DEF InputMode
      <4>2. i(S).snaps = X /\ InspectRequest.valid = TRUE /\ InspectRequest.asOf = NoAsOf
        BY <1>1 DEF InspectRequest
      <4>3. Explicit(X, InspectRequest) = X
        BY <4>2 DEF Explicit
      <4> HIDE DEF i
      <4>4. CASE InputMode(i(R)) = "empty"
        BY <4>1, <4>2, <4>4 DEF CheckPlan
      <4>5. CASE InputMode(i(R)) = "manual_only"
        BY <4>1, <4>2, <4>3, <4>5 DEF CheckPlan, SnapshotsPlan
      <4> QED
        BY <4>1, <4>4, <4>5
    <3> HIDE DEF i
    <3> QED
      BY <3>1
  <2> HIDE DEF i, targets
  <2>2. OfflineReady(i(After(R, a))) = "ready"
    BY <1>2, <1>3, <1>4, <2>1
  <2> QED
    BY <2>2 DEF i
<1> QED
  BY <1>6, <1>7


-----------------------------------------------------------------------------
(* The invariant: the files and commands have their shape, and what was    *)
(* said of a source holds of its files, before the summary is written and  *)
(* after.                                                                  *)

FilesShaped ==
  /\ DOMAIN facts = Sources /\ DOMAIN snaps = Sources /\ DOMAIN refs = Sources
  /\ \A s \in Sources :
       Legs(Rows(facts[s])) /\ Snapshots(Rows(snaps[s])) /\ References(Rows(refs[s]))

(* While a source is written, every report is older than it. *)
WriterShape ==
  cmd.op \in {"assemble", "submit"} =>
    /\ {"src", "data"} \subseteq DOMAIN cmd /\ cmd.src \in Sources
    /\ stale = {"inspection", "check"}
    /\ cmd.op = "assemble" => Legs(cmd.data.facts)
    /\ cmd.step # "end" => Snapshots(cmd.data.snaps) /\ References(cmd.data.refs)

CheckShape ==
  cmd.op = "check" =>
    /\ "req" \in DOMAIN cmd /\ Request(cmd.req)
    /\ "check" \notin stale
    /\ cmd.step = "resolve" => CheckPlan(Inputs(Checked), cmd.req).status = "runs"

(* Between resolving a source and rewriting its references, the record of   *)
(* the source is that of the references the answers were asked for.         *)
AnswersPending ==
  cmd.op = "check" /\ cmd.step = "persist" =>
    LET i == Inputs(Checked)
        plan == CheckPlan(i, cmd.req)
    IN  /\ Resolved(i, cmd.req, plan, cmd.answers)
        /\ \A t \in DOMAIN cmd.answers :
             cmd.answers[t].what = "reference" => cmd.answers[t].qty \in Int
        /\ Checked \in DOMAIN cmd.records
        /\ cmd.records[Checked] = Record(plan, i.refs, cmd.answers, cmd.req.hydrate)

Judged(i, rec, req) ==
  SaidAgain(i, rec, req) /\ CleanIsTrue(i, rec, req) /\ CleanIsDated(i, rec)

RecordsJudged ==
  cmd.op = "check" =>
    \A s \in DOMAIN cmd.records :
      (cmd.step = "persist" /\ s = Checked) \/ Judged(Inputs(s), cmd.records[s], cmd.req)

SummaryJudged ==
  checkSummary # NoFile /\ "check" \notin stale =>
    \A s \in DOMAIN checkSummary.records :
      Judged(Inputs(s), checkSummary.records[s], checkSummary.req)

InspectionTrue ==
  inspection # NoFile /\ "inspection" \notin stale =>
    \A s \in DOMAIN inspection :
      s \in Sources /\ (inspection[s] = "ready" => OfflineReady(Inputs(s)) = "ready")

VerdictInv ==
  /\ ReportsTogether
  /\ FilesShaped /\ WriterShape /\ CheckShape /\ AnswersPending
  /\ RecordsJudged /\ SummaryJudged /\ InspectionTrue


LEMMA NoRows == Legs({}) /\ Snapshots({}) /\ References({})
BY FS_EmptySet DEF Legs, Snapshots, References

LEMMA FewerRows ==
  ASSUME NEW R, NEW S \in SUBSET R
  PROVE  /\ Legs(R) => Legs(S)
         /\ Snapshots(R) => Snapshots(S)
         /\ References(R) => References(S)
BY FS_Subset DEF Legs, Snapshots, References

(* What a file may hold after a crash.                                     *)
LEMMA TornRows ==
  ASSUME NEW rows, NEW f \in Torn(rows)
  PROVE  /\ Rows(f) \in SUBSET rows
         /\ Legs(rows) => Legs(Rows(f))
         /\ Snapshots(rows) => Snapshots(Rows(f))
         /\ References(rows) => References(Rows(f))
<1>1. Rows(f) \in SUBSET rows
  <2>1. CASE f = Unreadable
    BY <2>1 DEF Unreadable, Rows
  <2>2. CASE \E kept \in SUBSET rows : f = File(kept)
    BY <2>2 DEF File, Rows
  <2> QED
    BY <2>1, <2>2 DEF Torn
<1> QED
  BY <1>1, FewerRows

LEMMA InputsAreEvidence ==
  ASSUME FilesShaped, NEW s \in Sources
  PROVE  /\ Legs(Inputs(s).facts) /\ IsFlag(Inputs(s).explicit)
         /\ Snapshots(Inputs(s).snaps) /\ References(Inputs(s).refs)
         /\ Inputs(s) = Evidence(Inputs(s).facts, Inputs(s).explicit, Inputs(s).snaps, Inputs(s).refs)
         /\ Inputs(s).facts = Rows(facts[s]) /\ Inputs(s).refs = Rows(refs[s])
<1> DEFINE e == snaps[s] # Absent
           X == IF Rows(facts[s]) = {} THEN Rows(snaps[s]) ELSE {}
<1>1. Inputs(s) = Evidence(Rows(facts[s]), e, X, Rows(refs[s]))
  BY DEF Inputs, Evidence
<1>2. IsFlag(e)
  BY DEF IsFlag
<1>3. Snapshots(X)
  BY NoRows DEF FilesShaped
<1> HIDE DEF e, X
<1>4. /\ Inputs(s).facts = Rows(facts[s]) /\ Inputs(s).explicit = e
      /\ Inputs(s).snaps = X /\ Inputs(s).refs = Rows(refs[s])
  BY <1>1 DEF Evidence
<1> QED
  BY <1>1, <1>2, <1>3, <1>4 DEF FilesShaped

(* What a check reads depends on the three files of the source only.       *)
LEMMA SameInputs ==
  ASSUME NEW s, facts'[s] = facts[s], snaps'[s] = snaps[s], refs'[s] = refs[s]
  PROVE  Inputs(s)' = Inputs(s)
BY DEF Inputs

(* No file, no command, no report.                                         *)
LEMMA VerdictInvInit == Init => VerdictInv
<1> SUFFICES ASSUME Init PROVE VerdictInv
  OBVIOUS
<1>1. ReportsTogether
  BY ReportsTogetherInit
<1>2. FilesShaped
  <2>1. Rows(Absent) = {}
    BY DEF Rows, Absent
  <2> QED
    BY <2>1, NoRows DEF Init, FilesShaped
<1>3. /\ WriterShape /\ CheckShape /\ AnswersPending /\ RecordsJudged /\ SummaryJudged
      /\ InspectionTrue
  BY DEF Init, Idle, WriterShape, CheckShape, AnswersPending, RecordsJudged, SummaryJudged,
         InspectionTrue
<1> QED
  BY <1>1, <1>2, <1>3 DEF VerdictInv

(* The references a check writes.                                          *)
LEMMA PersistedReferencesStay ==
  ASSUME VerdictInv, cmd.op = "check", cmd.step = "persist"
  PROVE  /\ Checked \in Sources /\ Checked \in cmd.left
         /\ NewReferences = After(Inputs(Checked).refs, cmd.answers)
         /\ References(NewReferences)
<1> DEFINE i == Inputs(Checked)
           plan == CheckPlan(i, cmd.req)
<1>1. Checked \in Sources /\ Checked \in cmd.left
  BY CheckedIsLeft DEF VerdictInv, ReportsTogether, CommandShape
<1>2. NewReferences = After(i.refs, cmd.answers)
  BY PersistedAfter DEF NewReferences
<1>3. /\ Resolved(i, cmd.req, plan, cmd.answers)
      /\ \A t \in DOMAIN cmd.answers :
           cmd.answers[t].what = "reference" => cmd.answers[t].qty \in Int
  BY DEF VerdictInv, AnswersPending
<1> HIDE DEF i, plan
<1>4. References(i.refs) /\ DOMAIN cmd.answers = Missing(plan, i.refs)
  BY <1>3 DEF Resolved
<1>5. Snapshots(plan.snaps)
  BY <1>3, ResolvedIsShaped
<1>6. References(After(i.refs, cmd.answers))
  BY <1>3, <1>4, <1>5, ReferencesStay
<1> QED
  BY <1>1, <1>2, <1>6 DEF i

(* The commands that write evidence make every verdict old.                *)
LEMMA WritersKeepVerdicts ==
  ASSUME VerdictInv, ReportsTogether',
         \/ \E s \in Sources : StartAssemble(s) \/ StartSubmit(s)
         \/ AssembleFacts \/ WriteSnapshots \/ WriteReferences \/ EndCommand
         \/ CrashWritingFacts \/ CrashWritingSnapshots \/ CrashWritingReferences
  PROVE  VerdictInv'
<1> USE DEF VerdictInv, Idle
<1>0. Rows(Absent) = {} /\ \A rows : Rows(File(rows)) = rows
  BY DEF Rows, Absent, File
<1>1. SUFFICES stale' = {"inspection", "check"} /\ cmd'.op # "check" /\ FilesShaped' /\ WriterShape'
  BY DEF CheckShape, AnswersPending, RecordsJudged, SummaryJudged, InspectionTrue
<1>2. ASSUME NEW s \in Sources, StartAssemble(s)
      PROVE  stale' = {"inspection", "check"} /\ cmd'.op # "check" /\ FilesShaped' /\ WriterShape'
  <2>1. PICK d \in Datasets : cmd' = [op |-> "assemble", src |-> s, data |-> d, step |-> "facts"]
    BY <1>2 DEF StartAssemble
  <2>2. Legs(d.facts) /\ Snapshots(d.snaps) /\ References(d.refs)
    <3>1. \A r \in d.refs : r.kind = "source_document" /\ r.qty \in Int /\ r.t.at \in Int
      BY EvidenceShape
    <3>2. Legs(d.facts) /\ Snapshots(d.snaps)
      BY EvidenceShape DEF Legs, Snapshots
    <3> QED
      BY <3>1, <3>2, EvidenceShape DEF References, Kinds
  <2>3. stale' = {"inspection", "check"} /\ cmd'.op # "check" /\ WriterShape'
    BY <1>2, <2>1, <2>2 DEF StartAssemble, Changed, WriterShape
  <2>4. FilesShaped'
    BY <1>0, <1>2, NoRows DEF StartAssemble, FilesShaped
  <2> QED
    BY <2>3, <2>4
<1>3. ASSUME NEW s \in Sources, StartSubmit(s)
      PROVE  stale' = {"inspection", "check"} /\ cmd'.op # "check" /\ FilesShaped' /\ WriterShape'
  <2>1. PICK p \in Packages : cmd' = [op |-> "submit", src |-> s, data |-> p, before |-> refs[s],
                                      step |-> IF Blocked(p) THEN "end" ELSE "snaps"]
    BY <1>3 DEF StartSubmit
  <2>2. ~Blocked(p) => Snapshots(p.snaps) /\ References(p.refs)
    <3> SUFFICES ASSUME ~Blocked(p) PROVE Snapshots(p.snaps) /\ References(p.refs)
      OBVIOUS
    <3>1. \A r \in p.refs : r.kind = "operator_assertion"
      BY DEF Blocked
    <3> QED
      BY <3>1, EvidenceShape DEF Snapshots, References, Kinds
  <2>3. stale' = {"inspection", "check"} /\ cmd'.op # "check" /\ WriterShape'
    <3> HIDE DEF VerdictInv
    <3> QED
      BY <1>3, <2>1, <2>2 DEF StartSubmit, Changed, WriterShape
  <2>4. FilesShaped'
    BY <1>0, <1>3, NoRows DEF StartSubmit, ClearBalanceOutputs, FilesShaped
  <2> QED
    BY <2>3, <2>4
<1>4. CASE AssembleFacts
  BY <1>0, <1>4 DEF AssembleFacts, FilesShaped, WriterShape
<1>5. CASE WriteSnapshots
  BY <1>0, <1>5 DEF WriteSnapshots, FilesShaped, WriterShape
<1>6. CASE WriteReferences
  BY <1>0, <1>6 DEF WriteReferences, FilesShaped, WriterShape
<1>7. CASE EndCommand
  BY <1>7 DEF EndCommand, dataset, FilesShaped, WriterShape
<1>8. CASE CrashWritingFacts
  <2>1. PICK f \in Torn(cmd.data.facts) : facts' = [facts EXCEPT ![cmd.src] = f]
    BY <1>8 DEF CrashWritingFacts
  <2>2. Legs(Rows(f))
    BY <1>8, <2>1, TornRows DEF CrashWritingFacts, WriterShape
  <2> QED
    BY <1>8, <2>1, <2>2 DEF CrashWritingFacts, Crash, FilesShaped, WriterShape
<1>9. CASE CrashWritingSnapshots
  <2>1. PICK f \in Torn(cmd.data.snaps) : snaps' = [snaps EXCEPT ![cmd.src] = f]
    BY <1>9 DEF CrashWritingSnapshots
  <2>2. Snapshots(Rows(f))
    BY <1>9, <2>1, TornRows DEF CrashWritingSnapshots, WriterShape
  <2> QED
    BY <1>9, <2>1, <2>2 DEF CrashWritingSnapshots, Crash, FilesShaped, WriterShape
<1>10. CASE CrashWritingReferences
  <2>1. PICK s, f : s \in Sources /\ refs' = [refs EXCEPT ![s] = f] /\ References(Rows(f))
    <3>1. CASE cmd.op \in {"assemble", "submit"} /\ cmd.step = "refs"
      <4>1. PICK f \in Torn(cmd.data.refs) : refs' = [refs EXCEPT ![cmd.src] = f]
        BY <1>10, <3>1 DEF CrashWritingReferences
      <4>2. References(Rows(f)) /\ cmd.src \in Sources
        BY <3>1, <4>1, TornRows DEF WriterShape
      <4> QED
        BY <4>1, <4>2
    <3>2. CASE cmd.op = "check" /\ cmd.step = "persist"
      <4>1. PICK f \in Torn(NewReferences) : refs' = [refs EXCEPT ![Checked] = f]
        BY <1>10, <3>2 DEF CrashWritingReferences
      <4>2. References(NewReferences) /\ Checked \in Sources
        BY <3>2, PersistedReferencesStay
      <4> QED
        BY <4>1, <4>2, TornRows
    <3> QED
      BY <1>10, <3>1, <3>2 DEF CrashWritingReferences
  <2>2. FilesShaped'
    BY <1>10, <2>1 DEF CrashWritingReferences, FilesShaped
  <2> QED
    BY <1>10, <2>2 DEF CrashWritingReferences, Crash, Changed, WriterShape
<1> QED
  BY <1>2, <1>3, <1>4, <1>5, <1>6, <1>7, <1>8, <1>9, <1>10


(* The files stay, and so do the verdicts on them.                         *)
LEMMA FilesUnchanged ==
  ASSUME VerdictInv, UNCHANGED << facts, snaps, refs >>
  PROVE  FilesShaped' /\ \A s : Inputs(s)' = Inputs(s)
<1>1. FilesShaped'
  BY DEF VerdictInv, FilesShaped
<1>2. ASSUME NEW s PROVE Inputs(s)' = Inputs(s)
  BY SameInputs
<1> QED
  BY <1>1, <1>2

(* Steps of inspect and summarize, and a command that dies between steps.  *)
LEMMA JudgesKeepVerdicts ==
  ASSUME VerdictInv, ReportsTogether',
         \/ StartInspect \/ WriteInspection \/ StartSummarize \/ WritePortfolio \/ WriteBlockers
         \/ CrashBetweenSteps \/ CrashWritingInspection
  PROVE  VerdictInv'
<1> USE DEF VerdictInv, Idle
<1>0. UNCHANGED << facts, snaps, refs, checkSummary >>
  BY DEF StartInspect, WriteInspection, StartSummarize, WritePortfolio, WriteBlockers,
         CrashBetweenSteps, CrashWritingInspection, dataset, reports
<1>1. FilesShaped' /\ \A s : Inputs(s)' = Inputs(s)
  BY <1>0, FilesUnchanged
<1>2. cmd'.op \notin {"assemble", "submit", "check"}
  BY DEF StartInspect, WriteInspection, StartSummarize, WritePortfolio, WriteBlockers,
         CrashBetweenSteps, CrashWritingInspection, Crash, ReportsTogether, CommandShape
<1>3. WriterShape' /\ CheckShape' /\ AnswersPending' /\ RecordsJudged'
  BY <1>2 DEF WriterShape, CheckShape, AnswersPending, RecordsJudged
<1>4. stale' \subseteq stale /\ ("check" \in stale => "check" \in stale')
  BY DEF StartInspect, WriteInspection, StartSummarize, WritePortfolio, WriteBlockers,
         CrashBetweenSteps, CrashWritingInspection
<1>5. SummaryJudged'
  BY <1>0, <1>1, <1>4 DEF SummaryJudged
<1>6. \/ inspection' = NoFile
      \/ inspection' = inspection /\ stale' = stale
      \/ \E listed \in SUBSET Sources : inspection' = [s \in listed |-> OfflineReady(Inputs(s))]
  <2>1. Discovered \in SUBSET Sources
    BY DEF Discovered
  <2> HIDE DEF VerdictInv
  <2> QED
    BY <2>1 DEF StartInspect, WriteInspection, StartSummarize, WritePortfolio, WriteBlockers,
         CrashBetweenSteps, CrashWritingInspection, reports
<1>7. InspectionTrue'
  BY <1>1, <1>6 DEF InspectionTrue
<1> QED
  BY <1>1, <1>3, <1>5, <1>7

(* A step of a check that leaves the files and the inspection as they are. *)
LEMMA CheckStepKeepsFiles ==
  ASSUME VerdictInv, UNCHANGED << facts, snaps, refs, inspection, stale >>, cmd.op = "check"
  PROVE  /\ FilesShaped' /\ InspectionTrue' /\ "check" \notin stale'
         /\ \A s : Inputs(s)' = Inputs(s)
<1>1. FilesShaped' /\ \A s : Inputs(s)' = Inputs(s)
  BY FilesUnchanged
<1> QED
  BY <1>1 DEF VerdictInv, InspectionTrue, CheckShape

(* A source is started, and either stopped, which is its verdict, or       *)
(* resolved next.                                                          *)
LEMMA ClearSourceKeepsVerdicts ==
  ASSUME VerdictInv, ReportsTogether', ClearSource
  PROVE  VerdictInv'
<1> DEFINE i == Inputs(Checked)
           plan == CheckPlan(i, cmd.req)
           rec == Record(plan, {}, << >>, cmd.req.hydrate)
<1>1. /\ cmd.op = "check" /\ cmd.step = "clear"
      /\ UNCHANGED << facts, snaps, refs, checkSummary, inspection, stale >>
      /\ cmd' = IF plan.status = "runs" THEN [cmd EXCEPT !.step = "resolve"]
                ELSE [cmd EXCEPT !.step = "outputs",
                                 !.records = WithRecord(cmd.records, Checked, rec)]
  BY DEF ClearSource
<1>2. /\ FilesShaped' /\ InspectionTrue' /\ "check" \notin stale'
      /\ \A s : Inputs(s)' = Inputs(s)
  BY <1>1, CheckStepKeepsFiles
<1>3. /\ {"op", "left", "step", "answers", "records", "req"} \subseteq DOMAIN cmd
      /\ Request(cmd.req)
  BY <1>1 DEF VerdictInv, ReportsTogether, CommandShape, CheckShape
<1>4. checkSummary = NoFile
  BY <1>1 DEF VerdictInv, ReportsTogether, Cleared
<1>5. plan.status # "runs" => Judged(i, rec, cmd.req)
  BY <1>3, StoppedVerdict DEF Judged
<1> HIDE DEF i, plan, rec
<1>6. /\ cmd'.op = "check" /\ cmd'.left = cmd.left /\ cmd'.req = cmd.req /\ cmd'.step # "persist"
      /\ "req" \in DOMAIN cmd'
  BY <1>1, <1>3
<1>7. Checked' = Checked
  BY <1>6 DEF Checked
<1>8. CheckShape'
  <2>1. cmd'.step = "resolve" => plan.status = "runs"
    BY <1>1, <1>3
  <2> QED
    BY <1>2, <1>3, <1>6, <1>7, <2>1 DEF CheckShape, i, plan
<1>9. RecordsJudged'
  <2>1. \A s \in DOMAIN cmd.records : Judged(Inputs(s), cmd.records[s], cmd.req)
    BY <1>1 DEF VerdictInv, RecordsJudged
  <2>2. CASE plan.status = "runs"
    <3>1. cmd'.records = cmd.records
      BY <1>1, <1>3, <2>2
    <3> QED
      BY <1>2, <1>6, <2>1, <3>1 DEF RecordsJudged
  <2>3. CASE plan.status # "runs"
    <3>1. cmd'.records = WithRecord(cmd.records, Checked, rec)
      BY <1>1, <1>3, <2>3
    <3>2. ASSUME NEW s \in DOMAIN cmd'.records
          PROVE  Judged(Inputs(s), cmd'.records[s], cmd.req)
      BY <1>5, <2>1, <2>3, <3>1 DEF WithRecord, i
    <3> QED
      BY <1>2, <1>6, <3>2 DEF RecordsJudged
  <2> QED
    BY <2>2, <2>3
<1>10. WriterShape' /\ AnswersPending' /\ SummaryJudged'
  BY <1>1, <1>4, <1>6 DEF WriterShape, AnswersPending, SummaryJudged
<1> QED
  BY <1>2, <1>8, <1>9, <1>10 DEF VerdictInv


(* A source is resolved: what was recorded is of the references the answers *)
(* were asked for.                                                          *)
LEMMA ResolveKeepsVerdicts ==
  ASSUME VerdictInv, ReportsTogether', Resolve
  PROVE  VerdictInv'
<1> DEFINE i == Inputs(Checked)
           plan == CheckPlan(i, cmd.req)
           rec(a) == Record(plan, i.refs, a, cmd.req.hydrate)
           may(t) == IF cmd.req.hydrate THEN {x \in ProviderAnswers : MayAnswer(t, x)} ELSE {Offline}
<1>1. /\ cmd.op = "check" /\ cmd.step = "resolve"
      /\ UNCHANGED << facts, snaps, refs, checkSummary, inspection, stale >>
  BY DEF Resolve, dataset, reports
<1>2. PICK a \in [Missing(plan, i.refs) -> ProviderAnswers \cup {Offline}] :
        /\ \A t \in Missing(plan, i.refs) : a[t] \in may(t)
        /\ cmd' = [cmd EXCEPT !.step = "persist", !.answers = a,
                              !.records = WithRecord(cmd.records, Checked, rec(a))]
  BY DEF Resolve
<1>3. /\ FilesShaped' /\ InspectionTrue' /\ "check" \notin stale'
      /\ \A s : Inputs(s)' = Inputs(s)
  BY <1>1, CheckStepKeepsFiles
<1>4. /\ {"op", "left", "step", "answers", "records", "req"} \subseteq DOMAIN cmd
      /\ Request(cmd.req) /\ plan.status = "runs" /\ Checked \in Sources
  BY <1>1, CheckedIsLeft DEF VerdictInv, ReportsTogether, CommandShape, CheckShape
<1>5. checkSummary = NoFile
  BY <1>1 DEF VerdictInv, ReportsTogether, Cleared
<1>6. Resolved(i, cmd.req, plan, a)
  <2>1. /\ Legs(i.facts) /\ IsFlag(i.explicit) /\ Snapshots(i.snaps) /\ References(i.refs)
        /\ i = Evidence(i.facts, i.explicit, i.snaps, i.refs)
    BY <1>4, InputsAreEvidence DEF VerdictInv
  <2>2. DOMAIN a = Missing(plan, i.refs)
    BY <1>2
  <2>3. cmd.req.hydrate = FALSE => \A t \in DOMAIN a : a[t] = Offline
    BY <1>2, <2>2
  <2> HIDE DEF i
  <2> QED
    BY <1>4, <2>1, <2>2, <2>3 DEF Resolved
<1>7. \A t \in DOMAIN a : a[t].what = "reference" => a[t].qty \in Int
  <2>1. Offline.what # "reference"
    BY DEF Offline
  <2>2. \A t \in DOMAIN a : a[t] \in ProviderAnswers \cup {Offline}
    BY <1>2
  <2> QED
    BY <2>1, <2>2, EvidenceShape
<1> HIDE DEF i, plan, rec, may
<1>8. /\ cmd'.op = "check" /\ cmd'.left = cmd.left /\ cmd'.req = cmd.req /\ cmd'.step = "persist"
      /\ "req" \in DOMAIN cmd' /\ cmd'.answers = a
      /\ cmd'.records = WithRecord(cmd.records, Checked, rec(a))
  BY <1>1, <1>2, <1>4
<1>9. Checked' = Checked
  BY <1>8 DEF Checked
<1>10. CheckShape'
  BY <1>3, <1>4, <1>8 DEF CheckShape
<1>11. AnswersPending'
  <2>1. Checked \in DOMAIN cmd'.records /\ cmd'.records[Checked] = rec(a)
    BY <1>8 DEF WithRecord
  <2>2. Inputs(Checked)' = i
    BY <1>3, <1>9 DEF i
  <2>3. CheckPlan(i, cmd'.req) = plan
    BY <1>8 DEF plan
  <2> QED
    BY <1>6, <1>7, <1>8, <1>9, <2>1, <2>2, <2>3 DEF AnswersPending, rec
<1>12. RecordsJudged'
  <2>1. \A s \in DOMAIN cmd.records : Judged(Inputs(s), cmd.records[s], cmd.req)
    BY <1>1 DEF VerdictInv, RecordsJudged
  <2>2. ASSUME NEW s \in DOMAIN cmd'.records, s # Checked
        PROVE  Judged(Inputs(s), cmd'.records[s], cmd.req)
    BY <1>8, <2>1, <2>2 DEF WithRecord
  <2> QED
    BY <1>3, <1>8, <1>9, <2>2 DEF RecordsJudged
<1>13. WriterShape' /\ SummaryJudged'
  BY <1>1, <1>5, <1>8 DEF WriterShape, SummaryJudged
<1> QED
  BY <1>3, <1>10, <1>11, <1>12, <1>13 DEF VerdictInv

(* The references are rewritten: the verdict of the source is one on what  *)
(* is left, no other source changes, and a ready source stays ready.       *)
LEMMA PersistKeepsVerdicts ==
  ASSUME VerdictInv, ReportsTogether', PersistReferences
  PROVE  VerdictInv'
<1> DEFINE i == Inputs(Checked)
           plan == CheckPlan(i, cmd.req)
           a == cmd.answers
           left == After(i.refs, a)
           j == Evidence(i.facts, i.explicit, i.snaps, left)
<1>1. /\ cmd.op = "check" /\ cmd.step = "persist"
      /\ UNCHANGED << facts, snaps, checkSummary, inspection, stale >>
      /\ refs' = [refs EXCEPT ![Checked] = File(NewReferences)]
      /\ cmd' = [cmd EXCEPT !.step = "outputs"]
  BY DEF PersistReferences, reports
<1>2. Checked \in Sources /\ NewReferences = left /\ References(left)
  BY <1>1, PersistedReferencesStay
<1>3. /\ {"op", "left", "step", "answers", "records", "req"} \subseteq DOMAIN cmd
      /\ Request(cmd.req) /\ "check" \notin stale /\ DOMAIN cmd.records \subseteq Sources
  BY <1>1 DEF VerdictInv, ReportsTogether, CommandShape, CheckShape
<1>4. checkSummary = NoFile
  BY <1>1 DEF VerdictInv, ReportsTogether, Cleared
<1>5. /\ Resolved(i, cmd.req, plan, a)
      /\ Checked \in DOMAIN cmd.records
      /\ cmd.records[Checked] = Record(plan, i.refs, a, cmd.req.hydrate)
  BY <1>1 DEF VerdictInv, AnswersPending
<1>6. i = Evidence(i.facts, i.explicit, i.snaps, i.refs) /\ IsFlag(i.explicit) /\ References(i.refs)
  BY <1>2, InputsAreEvidence DEF VerdictInv
<1>7. Judged(j, cmd.records[Checked], cmd.req)
  <2> HIDE DEF i, plan, a
  <2>1. SaidAgain(j, Record(plan, i.refs, a, cmd.req.hydrate), cmd.req)
    BY <1>5, VerdictSaidAgain
  <2>2. CleanIsTrue(j, Record(plan, i.refs, a, cmd.req.hydrate), cmd.req)
    BY <1>5, CleanVerdictTrue
  <2>3. CleanIsDated(j, Record(plan, i.refs, a, cmd.req.hydrate))
    BY <1>5, CleanDateProved
  <2> QED
    BY <1>5, <2>1, <2>2, <2>3 DEF Judged
<1>8. ASSUME NEW s \in Sources, s = Checked PROVE Inputs(s)' = j
  <2>1. DOMAIN refs = Sources
    BY DEF VerdictInv, FilesShaped
  <2>2. Rows(refs'[Checked]) = left
    BY <1>1, <1>2, <2>1 DEF Rows, File
  <2> DEFINE e == snaps[Checked] # Absent
             X == IF Rows(facts[Checked]) = {} THEN Rows(snaps[Checked]) ELSE {}
  <2>3. i = Evidence(Rows(facts[Checked]), e, X, Rows(refs[Checked]))
    BY DEF Inputs, Evidence
  <2>5. Inputs(s)' = Evidence(Rows(facts[Checked]), e, X, Rows(refs'[Checked]))
    BY <1>1, <1>8 DEF Inputs, Evidence
  <2> HIDE DEF e, X, i, left
  <2>6. i.facts = Rows(facts[Checked]) /\ i.explicit = e /\ i.snaps = X
    BY <2>3 DEF Evidence
  <2> QED
    BY <2>2, <2>5, <2>6
<1>9. \A s \in Sources : s # Checked => Inputs(s)' = Inputs(s)
  <2> SUFFICES ASSUME NEW s \in Sources, s # Checked PROVE Inputs(s)' = Inputs(s)
    OBVIOUS
  <2>1. refs'[s] = refs[s]
    BY <1>1 DEF VerdictInv, FilesShaped
  <2> QED
    BY <1>1, <2>1, SameInputs
<1>10. FilesShaped'
  <2>1. References(Rows(File(NewReferences)))
    BY <1>2 DEF Rows, File
  <2> QED
    BY <1>1, <1>2, <2>1 DEF VerdictInv, FilesShaped
<1>11. InspectionTrue'
  <2>1. OfflineReady(i) = "ready" => OfflineReady(j) = "ready"
    <3> HIDE DEF i, a
    <3> QED
      BY <1>6, ReadyStays
  <2> HIDE DEF j
  <2>2. ASSUME NEW s \in Sources, OfflineReady(Inputs(s)) = "ready"
        PROVE  OfflineReady(Inputs(s)') = "ready"
    <3>1. CASE s = Checked
      BY <1>8, <2>1, <2>2, <3>1
    <3>2. CASE s # Checked
      BY <1>9, <2>2, <3>2
    <3> QED
      BY <3>1, <3>2
  <2> QED
    BY <1>1, <2>2 DEF VerdictInv, InspectionTrue
<1>12. /\ cmd'.op = "check" /\ cmd'.req = cmd.req /\ cmd'.step = "outputs"
       /\ "req" \in DOMAIN cmd' /\ cmd'.records = cmd.records
  BY <1>1, <1>3
<1> HIDE DEF j
<1>13. RecordsJudged'
  <2>1. \A s \in DOMAIN cmd.records : s = Checked \/ Judged(Inputs(s), cmd.records[s], cmd.req)
    BY <1>1 DEF VerdictInv, RecordsJudged
  <2>2. ASSUME NEW s \in DOMAIN cmd.records PROVE Judged(Inputs(s)', cmd.records[s], cmd.req)
    <3>1. CASE s = Checked
      BY <1>3, <1>7, <1>8, <3>1
    <3>2. CASE s # Checked
      BY <1>3, <1>9, <2>1, <3>2
    <3> QED
      BY <3>1, <3>2
  <2> QED
    BY <1>12, <2>2 DEF RecordsJudged
<1>14. WriterShape' /\ CheckShape' /\ AnswersPending' /\ SummaryJudged'
  BY <1>1, <1>3, <1>4, <1>12 DEF WriterShape, CheckShape, AnswersPending, SummaryJudged
<1> QED
  BY <1>10, <1>11, <1>13, <1>14 DEF VerdictInv


(* A check starts, writes what it said of a source, and its summary.       *)
LEMMA ReportsKeepVerdicts ==
  ASSUME VerdictInv, ReportsTogether',
         StartCheck \/ WriteOutputs \/ WriteCheckSummary \/ CrashWritingCheckSummary
  PROVE  VerdictInv'
<1>1. CASE StartCheck
  <2>1. /\ cmd = Idle /\ checkSummary' = NoFile
        /\ UNCHANGED << facts, snaps, refs, inspection >> /\ stale' = stale \ {"check"}
    BY <1>1 DEF StartCheck, ClearCheckOutputs, dataset
  <2>2. \/ cmd' = Idle
        \/ \E read : \E asOf \in AsOfs \cup {NoAsOf}, hydrate, valid \in BOOLEAN :
             cmd' = [op |-> "check", left |-> read, step |-> "clear", answers |-> << >>,
                     records |-> << >>,
                     req |-> [asOf |-> asOf, hydrate |-> hydrate, valid |-> valid]]
    BY <1>1 DEF StartCheck
  <2>3. FilesShaped' /\ \A s : Inputs(s)' = Inputs(s)
    BY <2>1, FilesUnchanged
  <2>4. SummaryJudged' /\ InspectionTrue'
    BY <2>1, <2>3 DEF VerdictInv, SummaryJudged, InspectionTrue
  <2>5. WriterShape' /\ CheckShape' /\ AnswersPending' /\ RecordsJudged'
    <3>1. CASE cmd' = Idle
      BY <3>1 DEF Idle, WriterShape, CheckShape, AnswersPending, RecordsJudged
    <3>2. ASSUME NEW read, NEW asOf \in AsOfs \cup {NoAsOf}, NEW hydrate \in BOOLEAN, NEW valid \in BOOLEAN,
                 cmd' = [op |-> "check", left |-> read, step |-> "clear", answers |-> << >>,
                         records |-> << >>,
                         req |-> [asOf |-> asOf, hydrate |-> hydrate, valid |-> valid]]
          PROVE  WriterShape' /\ CheckShape' /\ AnswersPending' /\ RecordsJudged'
      <4>1. Request([asOf |-> asOf, hydrate |-> hydrate, valid |-> valid])
        BY EvidenceShape DEF Request
      <4>2. /\ cmd'.op = "check" /\ cmd'.step = "clear" /\ DOMAIN cmd'.records = {}
            /\ "req" \in DOMAIN cmd' /\ Request(cmd'.req) /\ "check" \notin stale'
        BY <2>1, <3>2, <4>1
      <4> QED
        BY <4>2 DEF WriterShape, CheckShape, AnswersPending, RecordsJudged
    <3> QED
      BY <2>2, <3>1, <3>2
  <2> QED
    BY <2>3, <2>4, <2>5 DEF VerdictInv
<1>2. CASE WriteOutputs
  <2>1. /\ cmd.op = "check" /\ cmd.step = "outputs"
        /\ UNCHANGED << facts, snaps, refs, checkSummary, inspection, stale >>
        /\ cmd' = [cmd EXCEPT !.left = cmd.left \ {Checked}, !.step = "clear", !.answers = << >>]
    BY <1>2 DEF WriteOutputs, dataset
  <2>2. /\ {"op", "left", "step", "answers", "records", "req"} \subseteq DOMAIN cmd
        /\ Request(cmd.req) /\ checkSummary = NoFile
    BY <2>1 DEF VerdictInv, ReportsTogether, CommandShape, Cleared, CheckShape
  <2>3. /\ FilesShaped' /\ InspectionTrue' /\ "check" \notin stale'
        /\ \A s : Inputs(s)' = Inputs(s)
    BY <2>1, CheckStepKeepsFiles
  <2>4. /\ cmd'.op = "check" /\ cmd'.req = cmd.req /\ cmd'.step = "clear"
        /\ "req" \in DOMAIN cmd' /\ cmd'.records = cmd.records
    BY <2>1, <2>2
  <2>5. RecordsJudged'
    BY <2>1, <2>3, <2>4 DEF VerdictInv, RecordsJudged
  <2>6. WriterShape' /\ CheckShape' /\ AnswersPending' /\ SummaryJudged'
    BY <2>1, <2>2, <2>3, <2>4 DEF WriterShape, CheckShape, AnswersPending, SummaryJudged
  <2> QED
    BY <2>3, <2>5, <2>6 DEF VerdictInv
<1>3. CASE WriteCheckSummary \/ CrashWritingCheckSummary
  <2>1. /\ cmd.op = "check" /\ cmd.left = {} /\ cmd' = Idle
        /\ UNCHANGED << facts, snaps, refs, inspection, stale >>
    BY <1>3 DEF WriteCheckSummary, CrashWritingCheckSummary, Crash, dataset
  <2>2. \/ checkSummary' = NoFile
        \/ \E kept \in SUBSET DOMAIN cmd.records :
             checkSummary' = [records |-> [s \in kept |-> cmd.records[s]], req |-> cmd.req,
                              run |-> checks]
        \/ checkSummary' = [records |-> cmd.records, req |-> cmd.req, run |-> checks]
    BY <1>3 DEF WriteCheckSummary, CrashWritingCheckSummary
  <2>3. /\ FilesShaped' /\ InspectionTrue' /\ "check" \notin stale'
        /\ \A s : Inputs(s)' = Inputs(s)
    BY <2>1, CheckStepKeepsFiles
  <2>4. cmd.step # "persist"
    BY <2>1 DEF VerdictInv, ReportsTogether, CommandShape
  <2>5. \A s \in DOMAIN cmd.records : Judged(Inputs(s), cmd.records[s], cmd.req)
    BY <2>1, <2>4 DEF VerdictInv, RecordsJudged
  <2>6. SummaryJudged'
    BY <2>2, <2>3, <2>5 DEF SummaryJudged
  <2>7. WriterShape' /\ CheckShape' /\ AnswersPending' /\ RecordsJudged'
    BY <2>1 DEF Idle, WriterShape, CheckShape, AnswersPending, RecordsJudged
  <2> QED
    BY <2>3, <2>6, <2>7 DEF VerdictInv
<1> QED
  BY <1>1, <1>2, <1>3

(* No step of any command, and no crash, makes a verdict on file false.    *)
LEMMA VerdictInvInductive == VerdictInv /\ [Next]_vars => VerdictInv'
<1> SUFFICES ASSUME VerdictInv, [Next]_vars PROVE VerdictInv'
  OBVIOUS
<1>1. ReportsTogether'
  BY ReportsTogetherInductive DEF VerdictInv
<1>2. CASE UNCHANGED vars
  <2>1. FilesShaped' /\ \A s : Inputs(s)' = Inputs(s)
    BY <1>2, FilesUnchanged DEF vars, dataset
  <2>2. UNCHANGED << cmd, checkSummary, inspection, stale >>
    BY <1>2 DEF vars, reports
  <2>3. Checked' = Checked
    BY <2>2 DEF Checked
  <2>4. Inputs(Checked)' = Inputs(Checked)
    BY <1>2 DEF vars, dataset, Inputs, Checked
  <2>5. CheckShape' /\ AnswersPending'
    BY <2>2, <2>3, <2>4 DEF VerdictInv, CheckShape, AnswersPending
  <2>6. WriterShape' /\ RecordsJudged' /\ SummaryJudged' /\ InspectionTrue'
    BY <2>1, <2>2, <2>3 DEF VerdictInv, WriterShape, RecordsJudged, SummaryJudged, InspectionTrue
  <2> QED
    BY <1>1, <2>1, <2>5, <2>6 DEF VerdictInv
<1>3. CASE Next
  BY <1>1, <1>3, WritersKeepVerdicts, JudgesKeepVerdicts, ClearSourceKeepsVerdicts,
     ResolveKeepsVerdicts, PersistKeepsVerdicts, ReportsKeepVerdicts DEF Next
<1> QED
  BY <1>2, <1>3

-----------------------------------------------------------------------------

(* For all sources, evidence and answers, and whatever crashed before: a    *)
(* check that calls a source clean leaves references that equal the         *)
(* balances of its facts, or the explicit snapshots, one for each           *)
(* (check.py, assertions.py), until something rewrites the source.          *)
THEOREM CleanVerdictsAreTrue == Spec => []CleanMeansAgreed
<1>1. VerdictInv => CleanMeansAgreed
  BY DEF VerdictInv, SummaryJudged, Judged, CleanIsTrue, CleanMeansAgreed, CheckIsCurrent
<1> QED
  BY <1>1, VerdictInvInit, VerdictInvInductive, PTL DEF Spec

(* For all sources, evidence and answers, and whatever crashed before: a    *)
(* check that has rewritten the references it judged                        *)
(* (persist_balance_reference_cache) says the same of what it left.         *)
THEOREM CheckingChangesNoVerdict == Spec => []RecheckAgrees
<1>1. VerdictInv => RecheckAgrees
  BY DEF VerdictInv, SummaryJudged, Judged, SaidAgain, NoAnswers, RecheckAgrees, CheckIsCurrent
<1> QED
  BY <1>1, VerdictInvInit, VerdictInvInductive, PTL DEF Spec

(* For all sources, evidence and answers, and whatever crashed before: a    *)
(* source that inspect calls ready has no unresolved target in an offline   *)
(* check (inspect.py, references.py), although checks rewrite references.   *)
THEOREM ReadySourcesResolve == Spec => []ReadyMeansResolved
<1>1. VerdictInv => ReadyMeansResolved
  BY ReadyResolves DEF VerdictInv, InspectionTrue, InspectRequest, ReadyMeansResolved
<1> QED
  BY <1>1, VerdictInvInit, VerdictInvInductive, PTL DEF Spec


-----------------------------------------------------------------------------
(* The portfolio answer.  A crash may lose the tail of the inspection,     *)
(* which then is silent about a source; without one it lists every source  *)
(* with balance files, and the answer stays true until a source changes.   *)

InspectionWhole ==
  crashes = 0 /\ inspection # NoFile /\ "inspection" \notin stale =>
    /\ Discovered \subseteq DOMAIN inspection
    /\ cmd.op = "check" => cmd.left \subseteq DOMAIN inspection

Supported(s, date) ==
  \E r \in Inputs(s).refs : DayOf(r.t.at) >= date /\ AgreesWith(r, Inputs(s))

AnswerSupported ==
  crashes = 0 /\ portfolio # NoFile /\ portfolio.current /\ "check" \notin stale
  /\ portfolio.cleanDate > 0 =>
    \A s \in Discovered : Supported(s, portfolio.cleanDate)

PortfolioInv ==
  /\ VerdictInv
  /\ crashes \in Nat /\ DOMAIN refIssues = Sources
  /\ InspectionWhole /\ AnswerSupported

(* The count of crashes and the sources with an issue file are kept.       *)
LEMMA CountsKept ==
  ASSUME crashes \in Nat, DOMAIN refIssues = Sources, Next
  PROVE  /\ DOMAIN refIssues' = Sources
         /\ \/ crashes' = crashes
            \/ crashes' \in Nat /\ crashes' # 0
<1>1. DOMAIN refIssues' = Sources
  BY DEF Next, StartAssemble, StartSubmit, AssembleFacts, WriteSnapshots, WriteReferences,
         EndCommand, StartCheck, ClearSource, Resolve, PersistReferences, WriteOutputs,
         WriteCheckSummary, StartInspect, WriteInspection, StartSummarize, WritePortfolio,
         WriteBlockers, CrashBetweenSteps, CrashWritingFacts, CrashWritingSnapshots,
         CrashWritingReferences, CrashWritingCheckSummary, CrashWritingInspection, dataset
<1>2. crashes' = crashes \/ crashes' = crashes + 1
  BY DEF Next, StartAssemble, StartSubmit, AssembleFacts, WriteSnapshots, WriteReferences,
         EndCommand, StartCheck, ClearSource, Resolve, PersistReferences, WriteOutputs,
         WriteCheckSummary, StartInspect, WriteInspection, StartSummarize, WritePortfolio,
         WriteBlockers, CrashBetweenSteps, CrashWritingFacts, CrashWritingSnapshots,
         CrashWritingReferences, CrashWritingCheckSummary, CrashWritingInspection, Crash
<1> QED
  BY <1>1, <1>2

(* Which sources are there depends on their files only.                    *)
LEMMA SameDiscovered ==
  ASSUME UNCHANGED dataset
  PROVE  Discovered' = Discovered
BY DEF dataset, Discovered

(* Commands that write the evidence: every report is older than it.        *)
LEMMA WritersKeepAnswer ==
  ASSUME PortfolioInv, \/ \E s \in Sources : StartAssemble(s) \/ StartSubmit(s)
                       \/ AssembleFacts \/ WriteSnapshots \/ WriteReferences \/ EndCommand
  PROVE  InspectionWhole' /\ AnswerSupported'
<1>1. stale' = {"inspection", "check"}
  BY DEF StartAssemble, StartSubmit, Changed, AssembleFacts, WriteSnapshots, WriteReferences,
         EndCommand, PortfolioInv, VerdictInv, WriterShape
<1> QED
  BY <1>1 DEF InspectionWhole, AnswerSupported

(* A check removes the answer first, and discovers no other source.        *)
LEMMA CheckKeepsAnswer ==
  ASSUME PortfolioInv, crashes' = crashes,
         StartCheck \/ ClearSource \/ Resolve \/ PersistReferences \/ WriteOutputs
         \/ WriteCheckSummary
  PROVE  InspectionWhole' /\ AnswerSupported'
<1>1. portfolio' = NoFile
  BY DEF StartCheck, ClearCheckOutputs, ClearSource, Resolve, PersistReferences, WriteOutputs,
         WriteCheckSummary, reports, PortfolioInv, VerdictInv, ReportsTogether, Cleared
<1>2. AnswerSupported'
  BY <1>1 DEF AnswerSupported
<1>3. inspection' = inspection /\ ("inspection" \notin stale' => "inspection" \notin stale)
  BY DEF StartCheck, ClearSource, Resolve, PersistReferences, WriteOutputs, WriteCheckSummary,
         reports
<1>4. SUFFICES ASSUME crashes = 0, inspection # NoFile, "inspection" \notin stale
               PROVE  /\ Discovered' \subseteq DOMAIN inspection
                      /\ cmd'.op = "check" => cmd'.left \subseteq DOMAIN inspection
  BY <1>2, <1>3 DEF InspectionWhole
<1>5. /\ Discovered \subseteq DOMAIN inspection
      /\ cmd.op = "check" => cmd.left \subseteq DOMAIN inspection
  BY <1>4 DEF PortfolioInv, InspectionWhole
<1>6. cmd.op = "check" => {"op", "left", "step", "answers", "records"} \subseteq DOMAIN cmd
  BY DEF PortfolioInv, VerdictInv, ReportsTogether, CommandShape
<1>7. CASE StartCheck
  <2>1. Discovered' = Discovered
    BY <1>7, SameDiscovered DEF StartCheck
  <2>2. cmd' = Idle \/ (cmd'.op = "check" /\ cmd'.left \subseteq Discovered)
    BY <1>7 DEF StartCheck
  <2> QED
    BY <1>5, <2>1, <2>2 DEF Idle
<1>8. CASE ClearSource
  <2>1. Discovered' \subseteq Discovered
    BY <1>8 DEF ClearSource, Discovered, PortfolioInv
  <2>2. cmd.op = "check" /\ cmd'.left = cmd.left
    BY <1>6, <1>8 DEF ClearSource
  <2> QED
    BY <1>5, <2>1, <2>2
<1>9. CASE Resolve \/ WriteOutputs
  <2>1. UNCHANGED dataset
    BY <1>9 DEF Resolve, WriteOutputs
  <2>2. Discovered' = Discovered
    BY <2>1, SameDiscovered
  <2>3. cmd.op = "check" /\ cmd'.left \subseteq cmd.left
    BY <1>6, <1>9 DEF Resolve, WriteOutputs
  <2> QED
    BY <1>5, <2>2, <2>3
<1>10. CASE PersistReferences
  <2>1. /\ cmd.op = "check" /\ cmd.step = "persist" /\ UNCHANGED << facts, snaps >>
        /\ refs' = [refs EXCEPT ![Checked] = File(NewReferences)]
        /\ refIssues' = [refIssues EXCEPT ![Checked] =
                           \E t \in DOMAIN cmd.answers : cmd.answers[t].what # "reference"]
        /\ cmd' = [cmd EXCEPT !.step = "outputs"]
    BY <1>10 DEF PersistReferences
  <2>2. Checked \in cmd.left
    BY <2>1, PersistedReferencesStay DEF PortfolioInv
  <2>3. \A s \in Sources : s # Checked => refs'[s] = refs[s] /\ refIssues'[s] = refIssues[s]
    BY <2>1 DEF PortfolioInv, VerdictInv, FilesShaped
  <2>4. Discovered' \subseteq Discovered \cup {Checked}
    BY <2>1, <2>3 DEF Discovered
  <2>5. cmd'.left = cmd.left
    BY <1>6, <2>1
  <2> QED
    BY <1>5, <2>1, <2>2, <2>4, <2>5
<1>11. CASE WriteCheckSummary
  <2>1. Discovered' = Discovered /\ cmd' = Idle
    BY <1>11, SameDiscovered DEF WriteCheckSummary
  <2> QED
    BY <1>5, <2>1 DEF Idle
<1> QED
  BY <1>7, <1>8, <1>9, <1>10, <1>11

(* Inspect lists every source that is there, and changes none.             *)
LEMMA InspectKeepsAnswer ==
  ASSUME PortfolioInv, crashes' = crashes,
         StartInspect \/ WriteInspection \/ StartSummarize \/ WriteBlockers
  PROVE  InspectionWhole' /\ AnswerSupported'
<1>1. /\ UNCHANGED dataset
      /\ stale' \subseteq stale /\ ("check" \notin stale' => "check" \notin stale)
      /\ cmd'.op # "check"
  BY DEF StartInspect, WriteInspection, StartSummarize, WriteBlockers, Idle
<1>2. Discovered' = Discovered
  BY <1>1, SameDiscovered
<1>3. \/ portfolio' = NoFile
      \/ portfolio' = portfolio
  BY DEF StartInspect, WriteInspection, StartSummarize, ClearPortfolio, WriteBlockers
<1>4. AnswerSupported'
  <2>1. UNCHANGED << facts, snaps, refs >>
    BY <1>1 DEF dataset
  <2>2. CASE portfolio' = NoFile
    BY <2>2 DEF AnswerSupported
  <2>3. CASE portfolio' = portfolio
    <3>1. \A s : Supported(s, portfolio.cleanDate)' <=> Supported(s, portfolio.cleanDate)
      BY <2>1, <2>3, SameInputs DEF Supported
    <3> QED
      BY <1>1, <1>2, <2>3, <3>1 DEF PortfolioInv, AnswerSupported
  <2> QED
    BY <1>3, <2>2, <2>3
<1>5. \/ inspection' = NoFile
      \/ inspection' = inspection /\ stale' = stale
      \/ DOMAIN inspection' = Discovered
  BY DEF StartInspect, WriteInspection, StartSummarize, WriteBlockers
<1>6. InspectionWhole'
  BY <1>1, <1>2, <1>5 DEF PortfolioInv, InspectionWhole
<1> QED
  BY <1>4, <1>6

(* The answer that is written.  Every source is listed, ready and clean    *)
(* with a date, and the answer is the earliest of these dates.             *)
LEMMA AnswerWritten ==
  ASSUME PortfolioInv, crashes' = crashes, WritePortfolio
  PROVE  InspectionWhole' /\ AnswerSupported'
<1> DEFINE ready == IF inspection = NoFile THEN << >> ELSE inspection
           records == IF checkSummary = NoFile THEN << >> ELSE checkSummary.records
           date == PortfolioDate(ready, records, "cleanDate")
<1>1. /\ UNCHANGED << dataset, checkSummary, inspection, stale >>
      /\ portfolio' = [cleanDate |-> date,
                       resolvedDate |-> PortfolioDate(ready, records, "resolvedDate"),
                       blockers |-> BlockersOf(ready, records),
                       check |-> checkSummary, current |-> stale = {}]
      /\ cmd.op = "summarize" /\ cmd' = [cmd EXCEPT !.step = "blockers"]
  BY DEF WritePortfolio
<1>2. Discovered' = Discovered
  BY <1>1, SameDiscovered
<1>3. cmd'.op # "check"
  BY <1>1 DEF PortfolioInv, VerdictInv, ReportsTogether, CommandShape
<1>4. InspectionWhole'
  BY <1>1, <1>2, <1>3 DEF PortfolioInv, InspectionWhole
<1>5. portfolio'.cleanDate = date /\ portfolio'.current = (stale = {})
  BY <1>1
<1>6. ASSUME crashes = 0, stale = {}, date > 0, NEW s \in Discovered
      PROVE  Supported(s, date)
  <2>1. /\ DOMAIN ready # {}
        /\ \A z \in DOMAIN ready :
             z \in DOMAIN records /\ records[z].status = "clean" /\ records[z].cleanDate > 0
        /\ date = Min({records[z].cleanDate : z \in DOMAIN ready})
    <3> HIDE DEF ready, records
    <3>1. ~(0 > 0)
      OBVIOUS
    <3> QED
      BY <1>6, <3>1 DEF PortfolioDate
  <2>2. ready = inspection /\ inspection # NoFile
    BY <2>1
  <2>3. s \in DOMAIN ready
    BY <1>6, <2>2 DEF PortfolioInv, InspectionWhole
  <2>4. checkSummary # NoFile /\ records = checkSummary.records
    BY <2>1, <2>3
  <2>5. \A z \in DOMAIN records : CleanIsDated(Inputs(z), records[z])
    BY <1>6, <2>4 DEF PortfolioInv, VerdictInv, SummaryJudged, Judged
  <2> HIDE DEF ready, records, date
  <2>6. {records[z].cleanDate : z \in DOMAIN ready} \in SUBSET Nat
    BY <2>1, <2>5 DEF CleanIsDated
  <2>7. date <= records[s].cleanDate /\ date \in Nat
    BY <2>1, <2>3, <2>6, SmallestIsMin
  <2>8. PICK r \in Inputs(s).refs :
            DayOf(r.t.at) = records[s].cleanDate /\ AgreesWith(r, Inputs(s))
    BY <2>1, <2>3, <2>5 DEF CleanIsDated
  <2> QED
    BY <2>7, <2>8 DEF Supported
<1> HIDE DEF date
<1>7. AnswerSupported'
  <2>1. UNCHANGED << facts, snaps, refs >>
    BY <1>1 DEF dataset
  <2>2. \A s : Supported(s, portfolio.cleanDate)' <=> Supported(s, date)
    BY <1>5, <2>1, SameInputs DEF Supported
  <2> QED
    BY <1>1, <1>2, <1>5, <1>6, <2>2 DEF AnswerSupported
<1> QED
  BY <1>4, <1>7

LEMMA PortfolioInvInit == Init => PortfolioInv
<1> SUFFICES ASSUME Init PROVE PortfolioInv
  OBVIOUS
<1>1. VerdictInv
  BY VerdictInvInit
<1>2. crashes \in Nat /\ DOMAIN refIssues = Sources /\ InspectionWhole /\ AnswerSupported
  BY DEF Init, InspectionWhole, AnswerSupported
<1> QED
  BY <1>1, <1>2 DEF PortfolioInv

LEMMA PortfolioInvInductive == PortfolioInv /\ [Next]_vars => PortfolioInv'
<1> SUFFICES ASSUME PortfolioInv, [Next]_vars PROVE PortfolioInv'
  OBVIOUS
<1>1. VerdictInv'
  BY VerdictInvInductive DEF PortfolioInv
<1>2. CASE UNCHANGED vars
  <2>1. UNCHANGED << dataset, facts, snaps, refs, refIssues, inspection, portfolio, cmd, crashes, stale >>
    BY <1>2 DEF vars, dataset, reports
  <2>2. Discovered' = Discovered /\ \A s : Inputs(s)' = Inputs(s)
    BY <2>1, SameDiscovered, SameInputs
  <2>3. InspectionWhole' /\ AnswerSupported'
    BY <2>1, <2>2 DEF PortfolioInv, InspectionWhole, AnswerSupported, Supported
  <2> QED
    BY <1>1, <2>1, <2>3 DEF PortfolioInv
<1>3. CASE Next
  <2>1. /\ DOMAIN refIssues' = Sources
        /\ crashes' = crashes \/ (crashes' \in Nat /\ crashes' # 0)
    BY <1>3, CountsKept DEF PortfolioInv
  <2>2. CASE crashes' # 0
    BY <1>1, <2>1, <2>2 DEF PortfolioInv, InspectionWhole, AnswerSupported
  <2>3. CASE crashes' = crashes
    <3>1. \A n \in Nat : n # n + 1
      OBVIOUS
    <3>2. ~(CrashBetweenSteps \/ CrashWritingFacts \/ CrashWritingSnapshots
            \/ CrashWritingReferences \/ CrashWritingCheckSummary \/ CrashWritingInspection)
      BY <2>3, <3>1 DEF PortfolioInv, CrashBetweenSteps, CrashWritingFacts,
         CrashWritingSnapshots, CrashWritingReferences, CrashWritingCheckSummary,
         CrashWritingInspection, Crash
    <3>3. InspectionWhole' /\ AnswerSupported'
      BY <1>3, <2>3, <3>2, WritersKeepAnswer, CheckKeepsAnswer, InspectKeepsAnswer,
         AnswerWritten DEF Next
    <3> QED
      BY <1>1, <2>1, <2>3, <3>3 DEF PortfolioInv
  <2> QED
    BY <2>1, <2>2, <2>3
<1> QED
  BY <1>2, <1>3

(* For all sources, evidence and answers: unless a crash cut a report off,  *)
(* the date up to which the whole portfolio is called clean (summary.py) is *)
(* supported by an agreeing reference of every source with balance files,   *)
(* although checks have rewritten the references since.                     *)
THEOREM PortfolioDateIsSupported == Spec => [](crashes = 0 => PortfolioCleanSound)
<1>1. PortfolioInv => (crashes = 0 => PortfolioCleanSound)
  BY DEF PortfolioInv, AnswerSupported, Supported, AgreesWith, PortfolioCleanSound
<1> QED
  BY <1>1, PortfolioInvInit, PortfolioInvInductive, PTL DEF Spec
=============================================================================
