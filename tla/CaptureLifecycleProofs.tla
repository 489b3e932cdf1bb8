----------------------- MODULE CaptureLifecycleProofs -----------------------
(***************************************************************************)
(* Proofs about the capture registry, for every number of captures, rows,  *)
(* crashes and removals.  First, what a registry can look like whose end a *)
(* crash may have lost or cut in any row, and from it that a normalized    *)
(* capture stays includable and which captures of one drop an assembly can *)
(* merge.  Then the ends of the commands: a finished assembly leaves the   *)
(* registry, its summary, the dataset and the inventory in agreement, also *)
(* after crashes; and without crashes the inventory never forgets what the *)
(* registry says.                                                          *)
(***************************************************************************)
EXTENDS CaptureLifecycle, SequenceTheorems, WellFoundedInduction, TLAPS

Records == [uid : Uids, source : BOOLEAN, status : RowStatuses, timed : BOOLEAN,
            print : {d.print : d \in Drops} \cup {NoPrint},
            period : (Nat \X Nat) \cup {NoPeriod}]

Inventories == [status : SourceStatuses,
                assembly : {"unset", "pending", "excluded", "assembled"}, ref : BOOLEAN]

Applying == pc \in {"copy", "metadata", "register"}

Assembling == \/ pc \in {"remove", "merge", "summary"}
              \/ pc \in {"record", "done"} /\ job.op = "assemble"

(* The job is the one the running command builds. *)
JobFits ==
  /\ Applying => job \in ApplyJobs
  /\ pc = "mirrors" => job \in NormalizeJobs
  /\ pc \in {"remove", "merge", "summary"} => job \in AssembleJobs
  /\ pc = "done" => job.todo = {}

-----------------------------------------------------------------------------
(* A sound list of rows, in the registry or about to be written.           *)

(* A row is of a capture whose uid was issued. *)
RowsIssued(R) == \A n \in DOMAIN R : R[n].uid <= issued

(* A capture whose source was cut out of a row stays hidden: later rows    *)
(* repeat that one.                                                        *)
HiddenStays(R) ==
  \A m, n \in DOMAIN R :
    m < n /\ R[m].uid = R[n].uid /\ ~R[m].source => ~R[n].source

(* Only the first row of a capture has a status that intake gives, and a   *)
(* capture that was normalized or assembled is never less than that again, *)
(* unless a row in between was cut in its status.                          *)
Settled == {"normalized", "assembly_included", "assembly_excluded"}
CutStatuses == {"unset", "cut"}

CutBetween(R, m, n) ==
  \E i \in DOMAIN R : /\ m < i /\ i <= n
                      /\ R[i].uid = R[n].uid /\ R[i].status \in CutStatuses

StatusesAdvance(R) ==
  \A m, n \in DOMAIN R :
    m < n /\ R[m].uid = R[n].uid =>
      /\ R[n].status \in {"profiled"} \cup Settled \cup CutStatuses
      /\ R[m].status \in Settled => R[n].status \in Settled \/ CutBetween(R, m, n)

(* "assembly_included" follows a row that said "normalized", with its      *)
(* source.                                                                 *)
NormalizedBefore(R, n) ==
  \E m \in DOMAIN R : /\ m < n /\ R[m].uid = R[n].uid /\ R[m].source
                      /\ R[m].status = "normalized"

IncludedWasNormalized(R) ==
  \A n \in DOMAIN R : R[n].status = "assembly_included" => NormalizedBefore(R, n)

NormalizedHasRoot(R) ==
  \A n \in DOMAIN R : R[n].status = "normalized" => roots[R[n].uid] = "complete"

(* A fingerprint that was not cut is the one of the drop in the root. *)
PrintIsOfRoot(R) ==
  \A n \in DOMAIN R :
    R[n].print # NoPrint /\ roots[R[n].uid] = "complete" =>
      R[n].print = contents[R[n].uid].print

(* A capture whose drop has the fingerprint of an earlier capture's row    *)
(* has no complete raw root.                                               *)
RepeatsHaveNoRoot(R) ==
  \A n \in DOMAIN R, v \in Uids :
    /\ R[n].source /\ R[n].uid < v
    /\ R[n].print # NoPrint /\ roots[v] = "complete"
    => R[n].print # contents[v].print

SoundRows(R) ==
  /\ RowsIssued(R) /\ HiddenStays(R) /\ StatusesAdvance(R) /\ IncludedWasNormalized(R)
  /\ NormalizedHasRoot(R) /\ PrintIsOfRoot(R) /\ RepeatsHaveNoRoot(R)

-----------------------------------------------------------------------------
(* The invariant of the registry. *)

RootsIssued == \A u \in Uids : u > issued => roots[u] = "absent"

(* What a running command knows of the captures it works on. *)
ApplyIsNew ==
  Applying =>
    /\ job.uid = issued
    /\ \A n \in DOMAIN registry : registry[n].uid # issued
    /\ \/ \A n \in SourceRows : registry[n].print # job.drop.print
       \/ pc = "register" /\ roots[job.uid] = "absent"
    /\ \/ pc = "copy" \/ contents[job.uid] = job.drop
       \/ pc = "register" /\ roots[job.uid] = "absent"

WorkHasRoot ==
  pc \in {"mirrors", "record", "done"} /\ job.op \in {"profile", "normalize"} =>
    \A u \in job.todo : roots[u] = "complete"

(* The verdicts an assembly gives are those it would reach again. *)
IncludableCaptures == {u \in Registered : Includable(u)}
ExcludedCaptures == {u \in Registered : PolicyExcluded(u) /\ ~Includable(u)}

SortedAsBefore ==
  Assembling =>
    /\ job.included = IncludableCaptures
    /\ job.excluded = ExcludedCaptures
    /\ job.missing \subseteq job.included
    /\ job.todo \subseteq job.included \cup job.excluded
    /\ pc \in {"summary", "record", "done"} =>
         dataset \in [job.included \ job.missing -> OutputStates]

RegistrySound == SoundRows(registry) /\ RootsIssued

HistoryInv ==
  /\ TypeOK /\ JobFits
  /\ RegistrySound
  /\ ApplyIsNew /\ WorkHasRoot /\ SortedAsBefore
-----------------------------------------------------------------------------
(* Largest and smallest members. *)

(* Every set of naturals with a member has a smallest one.                 *)
LEMMA SmallestExists ==
  ASSUME NEW T \in SUBSET Nat, T # {}
  PROVE  \E x \in T : \A y \in T : x <= y
<1> DEFINE R == OpToRel(<, Nat)
<1>1. IsWellFoundedOn(R, Nat)
  BY NatLessThanWellFounded
<1> HIDE DEF R
<1>2. PICK x \in T : \A y \in T : ~(<< y, x >> \in R)
  BY <1>1, WFMin
<1> QED
  <2>1. R = {ss \in Nat \X Nat : ss[1] < ss[2]}
    BY DEF R, OpToRel
  <2>2. \A y \in T : y < x => << y, x >> \in R
    BY <2>1
  <2>3. \A y \in T : ~(y < x)
    BY <1>2, <2>2
  <2>4. \A y \in T : x \in Nat /\ y \in Nat
    OBVIOUS
  <2> QED
    BY <2>3, <2>4

(* MinOf returns the smallest member.                                      *)
LEMMA MinOfIsSmallest ==
  ASSUME NEW S \in SUBSET Nat, S # {}
  PROVE  MinOf(S) \in S /\ \A m \in S : MinOf(S) <= m
BY SmallestExists DEF MinOf

(* MaxOf returns the largest member of a set of row numbers.               *)
LEMMA MaxOfIsLargest ==
  ASSUME NEW k \in Nat, NEW S \in SUBSET (1 .. k), S # {}
  PROVE  MaxOf(S) \in S /\ \A m \in S : m <= MaxOf(S)
<1> DEFINE T == {k - m : m \in S}
<1>1. T \in SUBSET Nat /\ T # {}
  <2>1. \A m \in S : k - m \in Nat
    OBVIOUS
  <2> QED
    BY <2>1
<1>2. PICK x \in T : \A y \in T : x <= y
  BY <1>1, SmallestExists
<1>3. PICK n \in S : x = k - n
  BY <1>2
<1>4. \A m \in S : m <= n
  <2> TAKE m \in S
  <2>1. k - n <= k - m
    BY <1>2, <1>3
  <2> QED
    BY <2>1
<1> QED
  BY <1>4 DEF MaxOf

(* A member no other exceeds is the one MaxOf returns.                     *)
LEMMA MaxOfIs ==
  ASSUME NEW S \in SUBSET Nat, NEW n \in S, \A m \in S : m <= n
  PROVE  MaxOf(S) = n
<1>1. \A m \in S : (\A i \in S : i <= m) => m = n
  OBVIOUS
<1> QED
  BY <1>1 DEF MaxOf
-----------------------------------------------------------------------------
(* Lists of rows. *)

(* Row numbers and the fields of a row.                                    *)
LEMMA RowsOfList ==
  ASSUME NEW R \in Seq(Records)
  PROVE  /\ Len(R) \in Nat /\ DOMAIN R = 1 .. Len(R) /\ DOMAIN R \subseteq Nat
         /\ \A n \in DOMAIN R :
              /\ R[n] \in Records /\ R[n].uid \in Uids /\ R[n].uid \in Nat
              /\ R[n].source \in BOOLEAN /\ R[n].status \in RowStatuses
<1>1. /\ Len(R) \in Nat /\ DOMAIN R = 1 .. Len(R)
      /\ \A n \in DOMAIN R : R[n] \in Records
  OBVIOUS
<1>2. Uids \subseteq Nat
  BY LifecycleBounds DEF Uids
<1>3. ASSUME NEW n \in DOMAIN R
      PROVE  R[n].uid \in Uids /\ R[n].source \in BOOLEAN /\ R[n].status \in RowStatuses
  <2>1. R[n] \in Records
    BY <1>1
  <2> QED
    BY <2>1 DEF Records
<1>4. DOMAIN R \subseteq Nat /\ \A n \in DOMAIN R : R[n].uid \in Nat
  <2>1. DOMAIN R \subseteq Nat
    BY <1>1
  <2>2. \A n \in DOMAIN R : R[n].uid \in Nat
    BY <1>2, <1>3
  <2> QED
    BY <2>1, <2>2
<1> QED
  BY <1>1, <1>3, <1>4

LEMMA RegistryRows ==
  ASSUME TypeOK
  PROVE  /\ registry \in Seq(Records)
         /\ DOMAIN registry = 1 .. Len(registry) /\ Len(registry) \in Nat
         /\ SourceRows \subseteq DOMAIN registry
         /\ \A u : EveryRowOf(u) \in SUBSET (1 .. Len(registry))
                   /\ RowsOf(u) \subseteq EveryRowOf(u)
         /\ Registered \subseteq Uids
<1>1. registry \in Seq(Records)
  BY DEF TypeOK, Records
<1>2. /\ DOMAIN registry = 1 .. Len(registry) /\ Len(registry) \in Nat
      /\ \A n \in DOMAIN registry : registry[n].uid \in Uids
  BY <1>1, RowsOfList
<1>3. SourceRows \subseteq DOMAIN registry /\ Registered \subseteq Uids
  BY <1>2 DEF SourceRows, Registered
<1>4. \A u : EveryRowOf(u) \in SUBSET (1 .. Len(registry)) /\ RowsOf(u) \subseteq EveryRowOf(u)
  BY <1>2 DEF SourceRows, EveryRowOf, RowsOf
<1> QED
  BY <1>1, <1>2, <1>3, <1>4

(* The latest row of a capture, hidden or not, and the latest of those     *)
(* that count.                                                             *)
LEMMA LatestOfEvery ==
  ASSUME TypeOK, NEW u, EveryRowOf(u) # {}
  PROVE  /\ MaxOf(EveryRowOf(u)) \in DOMAIN registry
         /\ registry[MaxOf(EveryRowOf(u))].uid = u
         /\ \A m \in DOMAIN registry : registry[m].uid = u => m <= MaxOf(EveryRowOf(u))
<1>1. EveryRowOf(u) \in SUBSET (1 .. Len(registry)) /\ Len(registry) \in Nat
  BY RegistryRows
<1>2. /\ MaxOf(EveryRowOf(u)) \in EveryRowOf(u)
      /\ \A m \in EveryRowOf(u) : m <= MaxOf(EveryRowOf(u))
  BY <1>1, MaxOfIsLargest
<1> QED
  BY <1>2 DEF EveryRowOf

LEMMA LatestRow ==
  ASSUME TypeOK, NEW u \in Registered
  PROVE  MaxOf(RowsOf(u)) \in RowsOf(u) /\ \A m \in RowsOf(u) : m <= MaxOf(RowsOf(u))
<1>1. RowsOf(u) \in SUBSET (1 .. Len(registry)) /\ Len(registry) \in Nat
  BY RegistryRows
<1>2. RowsOf(u) # {}
  BY DEF RowsOf, Registered
<1> QED
  BY <1>1, <1>2, MaxOfIsLargest

(* Appending keeps the rows there are.                                     *)
LEMMA RowAppended ==
  ASSUME NEW R \in Seq(Records), NEW r \in Records, NEW R2, R2 = Append(R, r)
  PROVE  /\ R2 \in Seq(Records)
         /\ Len(R) \in Nat /\ Len(R) + 1 \in DOMAIN R2
         /\ DOMAIN R2 = DOMAIN R \cup {Len(R) + 1}
         /\ \A n \in DOMAIN R : n \in Nat /\ n < Len(R) + 1
         /\ \A n \in DOMAIN R : R2[n] = R[n]
         /\ R2[Len(R) + 1] = r
<1>1. Len(R) \in Nat /\ DOMAIN R = 1 .. Len(R)
  OBVIOUS
<1>2. /\ R2 \in Seq(Records) /\ Len(R2) = Len(R) + 1
      /\ \A n \in 1 .. Len(R) : R2[n] = R[n]
      /\ R2[Len(R) + 1] = r
  BY <1>1, AppendProperties
<1>3. DOMAIN R2 = 1 .. Len(R) + 1
  BY <1>2
<1> QED
  BY <1>1, <1>2, <1>3

(* What a crash while the file is written leaves: the first rows, of which *)
(* the last one may be worn.                                               *)
Worn(c, r) ==
  /\ c.uid = r.uid /\ (c.source => r.source)
  /\ c.status = r.status \/ c.status \in CutStatuses
  /\ c.print = r.print \/ c.print = NoPrint

Remainder(R2, R) ==
  /\ R2 \in Seq(Records) /\ DOMAIN R2 \subseteq DOMAIN R
  /\ \A i \in DOMAIN R2 : Worn(R2[i], R[i])
  /\ \A i, j \in DOMAIN R2 : i < j => R2[i] = R[i] /\ i \in DOMAIN R
  /\ \A i \in DOMAIN R, j \in DOMAIN R2 : i <= j => i \in DOMAIN R2

LEMMA CutsAreWorn ==
  ASSUME NEW r \in Records, NEW c \in CutsOf(r)
  PROVE  c \in Records /\ Worn(c, r)
<1>1. /\ r.uid \in Uids /\ r.source \in BOOLEAN /\ r.status \in RowStatuses
      /\ r.timed \in BOOLEAN /\ r.print \in {d.print : d \in Drops} \cup {NoPrint}
      /\ r.period \in (Nat \X Nat) \cup {NoPeriod}
  BY DEF Records
<1>2. CASE c \in CutBeforeStatus(r)
  BY <1>1, <1>2 DEF CutBeforeStatus, Records, Worn, RowStatuses, CutStatuses
<1>3. CASE c \in CutInStatus(r)
  <2>1. PICK s \in {"unset", "cut"} :
          c = [r EXCEPT !.status = s, !.timed = TRUE, !.print = NoPrint, !.period = NoPeriod]
    BY <1>3 DEF CutInStatus
  <2> QED
    BY <1>1, <2>1 DEF Records, Worn, RowStatuses, CutStatuses
<1>4. CASE c \in CutInTimes(r)
  BY <1>1, <1>4 DEF CutInTimes, Records, Worn
<1>5. CASE c \in CutInPrint(r)
  BY <1>1, <1>5 DEF CutInPrint, Records, Worn
<1>6. CASE c \in CutInPeriod(r)
  <2>1. PICK p \in CutPeriods(r.period) : c = [r EXCEPT !.period = p]
    BY <1>6 DEF CutInPeriod
  <2>2. CutPeriods(r.period) \subseteq (Nat \X Nat) \cup {NoPeriod}
    <3>1. CASE r.period = NoPeriod
      BY <3>1 DEF CutPeriods
    <3>2. CASE r.period # NoPeriod
      <4>1. r.period \in Nat \X Nat
        BY <1>1, <3>2
      <4>2. r.period[1] \in Nat /\ r.period[2] \in Nat
        BY <4>1
      <4>3. \A e \in 0 .. r.period[2] : << r.period[1], e >> \in Nat \X Nat
        BY <4>2
      <4> QED
        BY <4>3, <3>2 DEF CutPeriods
    <3> QED
      BY <3>1, <3>2
  <2>3. p \in (Nat \X Nat) \cup {NoPeriod}
    BY <2>1, <2>2
  <2> QED
    BY <1>1, <2>1, <2>3 DEF Records, Worn
<1> QED
  BY <1>2, <1>3, <1>4, <1>5, <1>6 DEF CutsOf

LEMMA RowsTruncated ==
  ASSUME NEW R \in Seq(Records), NEW n \in 0 .. Len(R)
  PROVE  /\ SubSeq(R, 1, n) \in Seq(Records) /\ Len(SubSeq(R, 1, n)) = n
         /\ DOMAIN SubSeq(R, 1, n) = 1 .. n
         /\ \A i \in 1 .. n : SubSeq(R, 1, n)[i] = R[i]
<1>1. Len(R) \in Nat /\ DOMAIN R = 1 .. Len(R) /\ n \in Nat
  OBVIOUS
<1>2. \A i \in 1 .. n : R[i] \in Records
  BY <1>1
<1>3. /\ SubSeq(R, 1, n) \in Seq(Records)
      /\ Len(SubSeq(R, 1, n)) = IF 1 <= n THEN n - 1 + 1 ELSE 0
      /\ \A i \in 1 .. n - 1 + 1 : SubSeq(R, 1, n)[i] = R[1 + i - 1]
  BY <1>1, <1>2, SubSeqProperties
<1>4. Len(SubSeq(R, 1, n)) = n
  BY <1>1, <1>3
<1>5. \A i \in 1 .. n : i \in 1 .. n - 1 + 1 /\ 1 + i - 1 = i
  BY <1>1
<1> QED
  BY <1>1, <1>3, <1>4, <1>5

(* A crash while R is written leaves a remainder of it.                    *)
LEMMA CrashLeavesRemainder ==
  ASSUME NEW R \in Seq(Records), NEW n \in 0 .. Len(R) - 1, NEW R2,
         \/ R2 = SubSeq(R, 1, n)
         \/ \E r \in CutsOf(R[n + 1]) : R2 = Append(SubSeq(R, 1, n), r)
  PROVE  Remainder(R2, R)
<1> DEFINE S == SubSeq(R, 1, n)
<1>1. /\ Len(R) \in Nat /\ DOMAIN R = 1 .. Len(R) /\ n \in Nat /\ n \in 0 .. Len(R)
      /\ n + 1 \in DOMAIN R /\ R[n + 1] \in Records
  OBVIOUS
<1>2. /\ S \in Seq(Records) /\ Len(S) = n /\ DOMAIN S = 1 .. n
      /\ \A i \in 1 .. n : S[i] = R[i]
  BY <1>1, RowsTruncated
<1>3. \A r \in Records : Worn(r, r)
  BY DEF Worn
<1>4. \A i \in 1 .. n : i \in DOMAIN R /\ R[i] \in Records
  BY <1>1
<1> HIDE DEF S
<1>5. CASE R2 = S
  <2>1. \A i \in DOMAIN R2 : Worn(R2[i], R[i])
    BY <1>2, <1>3, <1>4, <1>5
  <2>2. \A i \in DOMAIN R, j \in DOMAIN R2 : i <= j => i \in DOMAIN R2
    BY <1>1, <1>2, <1>5
  <2> QED
    BY <1>2, <1>4, <1>5, <2>1, <2>2 DEF Remainder
<1>6. CASE \E r \in CutsOf(R[n + 1]) : R2 = Append(S, r)
  <2>1. PICK r \in CutsOf(R[n + 1]) : R2 = Append(S, r)
    BY <1>6
  <2>2. r \in Records /\ Worn(r, R[n + 1])
    BY <1>1, <2>1, CutsAreWorn
  <2>3. /\ R2 \in Seq(Records) /\ DOMAIN R2 = 1 .. n \cup {n + 1}
        /\ \A i \in 1 .. n : R2[i] = R[i]
        /\ R2[n + 1] = r
    BY <1>2, <2>1, <2>2, RowAppended
  <2>4. \A i \in DOMAIN R2 : Worn(R2[i], R[i])
    BY <1>3, <1>4, <2>2, <2>3
  <2>5. \A i \in DOMAIN R, j \in DOMAIN R2 : i <= j => i \in DOMAIN R2
    BY <1>1, <2>3
  <2>6. \A i, j \in DOMAIN R2 : i < j => i \in 1 .. n
    BY <1>1, <2>3
  <2> QED
    BY <1>1, <1>4, <2>3, <2>4, <2>5, <2>6 DEF Remainder
<1> QED
  BY <1>1, <1>5, <1>6 DEF S

-----------------------------------------------------------------------------
(* Types. *)

(* The reduction of the registry is an inventory row.                      *)
LEMMA ReducedTyped ==
  ASSUME TypeOK, NEW request,
         request.status \in SourceStatuses, request.present \in {"unset", "yes", "no"}
  PROVE  Reduced(request) \in Inventories
<1>1. \A b \in BOOLEAN : StatusFromHistory(b) \in SourceStatuses
  BY DEF StatusFromHistory, SourceStatuses
<1>2. \A s, t \in SourceStatuses : HigherStatus(s, t) \in SourceStatuses
  BY DEF HigherStatus
<1>3. inventory.status \in SourceStatuses /\ inventory.ref \in BOOLEAN
      /\ inventory.assembly \in {"unset", "pending", "excluded", "assembled"}
  BY DEF TypeOK
<1>4. ReduceSourceStatus(inventory.status, request) \in SourceStatuses
  BY <1>1, <1>2, <1>3 DEF ReduceSourceStatus, SourceStatuses
<1>5. ReduceAssemblyStatus(inventory.assembly, request)
        \in {"unset", "pending", "excluded", "assembled"}
  BY <1>3 DEF ReduceAssemblyStatus
<1> QED
  BY <1>3, <1>4, <1>5 DEF Reduced, Inventories

(* The row that marks a capture repeats its latest row, the status apart.  *)
LEMMA MarkRow ==
  ASSUME TypeOK, NEW u, EveryRowOf(u) # {}, RequestedStatus(u) \in CaptureStatuses,
         NEW L, L = MaxOf(EveryRowOf(u))
  PROVE  \E r \in Records :
           /\ WithStatus(u) = Append(registry, r)
           /\ r.uid = u /\ r.print = registry[L].print /\ r.source = registry[L].source
           /\ r.timed = registry[L].timed
           /\ r.status = ReduceCaptureStatus(registry[L].status, RequestedStatus(u))
<1> DEFINE s == ReduceCaptureStatus(registry[L].status, RequestedStatus(u))
           r == [registry[L] EXCEPT !.status = s]
<1>1. L \in DOMAIN registry /\ registry[L].uid = u
  BY LatestOfEvery
<1>2. registry[L] \in Records
  BY <1>1, RegistryRows, RowsOfList
<1>3. s \in RowStatuses
  BY <1>2 DEF ReduceCaptureStatus, Records, RowStatuses
<1>4. WithStatus(u) = Append(registry, r)
  BY DEF WithStatus
<1> HIDE DEF s
<1>5. r \in Records /\ r.uid = u /\ r.print = registry[L].print
      /\ r.source = registry[L].source /\ r.timed = registry[L].timed /\ r.status = s
  BY <1>1, <1>2, <1>3 DEF Records
<1> QED
  BY <1>4, <1>5 DEF s

LEMMA ApplyJobFields ==
  ASSUME job \in ApplyJobs
  PROVE  /\ job.op = "apply" /\ job.todo = {} /\ job.uid \in Uids /\ job.drop \in Drops
         /\ job.status \in AppliedStatuses
         /\ job.request.status = "unset" /\ job.request.present \in {"unset", "no"}
         /\ job.request.excluded = FALSE
<1>1. /\ job.op = "apply" /\ job.todo = {} /\ job.uid \in Uids /\ job.drop \in Drops
      /\ job.status \in AppliedStatuses
      /\ job.request \in {ApplyRequest(s) : s \in AppliedStatuses}
  BY DEF ApplyJobs
<1>2. PICK s \in AppliedStatuses : job.request = ApplyRequest(s)
  BY <1>1
<1> QED
  BY <1>1, <1>2 DEF ApplyRequest

LEMMA WorkJobFields ==
  ASSUME job \in ProfileJobs \cup NormalizeJobs
  PROVE  /\ job.todo \in SUBSET Uids
         /\ \/ job.op = "profile" /\ job.request = StatusRequest("profiled")
            \/ job.op = "normalize" /\ job.request = StatusRequest("normalized")
         /\ job.request.status \in {"profiled", "normalized"} /\ job.request.present = "unset"
<1>1. CASE job \in ProfileJobs
  BY <1>1 DEF ProfileJobs, StatusRequest
<1>2. CASE job \in NormalizeJobs
  BY <1>2 DEF NormalizeJobs, StatusRequest
<1> QED
  BY <1>1, <1>2

LEMMA AssembleJobFields ==
  ASSUME job \in AssembleJobs
  PROVE  /\ job.op = "assemble" /\ job.todo \in SUBSET Uids
         /\ job.included \in SUBSET Uids /\ job.excluded \in SUBSET Uids
         /\ job.missing \in SUBSET Uids /\ job.pending \in SUBSET Uids
         /\ job.request.status = "unset" /\ job.request.present \in {"yes", "no"}
         /\ job.request.excluded \in BOOLEAN
BY DEF AssembleJobs

(* The operation tells which of the four kinds of job is running.          *)
LEMMA JobKinds ==
  ASSUME job \in Jobs
  PROVE  /\ job.todo \in SUBSET Uids
         /\ job.op = "assemble" <=> job \in AssembleJobs
         /\ job.op = "normalize" <=> job \in NormalizeJobs
         /\ job.op = "profile" <=> job \in ProfileJobs
         /\ job.op = "apply" <=> job \in ApplyJobs
<1>1. CASE job \in ApplyJobs
  BY <1>1, ApplyJobFields DEF ProfileJobs, NormalizeJobs, AssembleJobs
<1>2. CASE job \in ProfileJobs
  BY <1>2 DEF ApplyJobs, ProfileJobs, NormalizeJobs, AssembleJobs
<1>3. CASE job \in NormalizeJobs
  BY <1>3 DEF ApplyJobs, ProfileJobs, NormalizeJobs, AssembleJobs
<1>4. CASE job \in AssembleJobs
  BY <1>4, AssembleJobFields DEF ApplyJobs, ProfileJobs, NormalizeJobs
<1> QED
  BY <1>1, <1>2, <1>3, <1>4 DEF Jobs

(* The smallest member NextToMark takes is one of the captures to mark.    *)
LEMMA NextToMarkIsOwed ==
  ASSUME job \in Jobs, job.todo # {}
  PROVE  NextToMark \in job.todo /\ NextToMark \in Uids
<1>1. job.todo \in SUBSET Uids
  BY JobKinds
<1>2. Uids \subseteq Nat
  BY LifecycleBounds DEF Uids
<1>3. job.todo \in SUBSET Nat /\ job.todo \cap job.included \in SUBSET Nat
  BY <1>1, <1>2
<1> QED
  BY <1>1, <1>3, MinOfIsSmallest DEF NextToMark

(* Every command asks for statuses the registry knows.                     *)
LEMMA RequestTyped ==
  ASSUME job \in Jobs
  PROVE  /\ job.request.status \in SourceStatuses
         /\ job.request.present \in {"unset", "yes", "no"}
         /\ \A u \in job.todo : RequestedStatus(u) \in {"profiled"} \cup Settled
<1>1. CASE job \in ApplyJobs
  BY <1>1, ApplyJobFields DEF SourceStatuses
<1>2. CASE job \in ProfileJobs \cup NormalizeJobs
  BY <1>2, WorkJobFields DEF SourceStatuses, RequestedStatus, Settled
<1>3. CASE job \in AssembleJobs
  BY <1>3, AssembleJobFields DEF SourceStatuses, RequestedStatus, Settled
<1> QED
  BY <1>1, <1>2, <1>3 DEF Jobs

(* A running command carries a job, and no job is Nothing.                 *)
LEMMA RunningHasJob ==
  ASSUME TypeOK
  PROVE  /\ pc # "idle" => job \in Jobs /\ job # Nothing
         /\ Nothing \notin Jobs
BY NothingIsNothing DEF TypeOK

(* TypeOK and JobFits are kept by every step of intake.                    *)
(* The row intake writes.                                                  *)
LEMMA NewRecordTyped ==
  ASSUME job \in ApplyJobs
  PROVE  /\ NewRecord \in Records /\ NewRecord.uid = job.uid
         /\ NewRecord.source /\ NewRecord.timed
         /\ NewRecord.print = job.drop.print /\ NewRecord.status = job.status
         /\ NewRecord.status \notin {"normalized", "profiled", "assembly_included"}
<1>1. job.uid \in Uids /\ job.drop \in Drops /\ job.status \in AppliedStatuses
  BY ApplyJobFields
<1>2. /\ job.drop.period \in (Nat \X Nat) \cup {NoPeriod}
      /\ job.drop.print \in {d.print : d \in Drops}
  BY <1>1, DropsTyped
<1>3. job.status \in RowStatuses /\ job.status \notin {"normalized", "profiled", "assembly_included"}
  BY <1>1 DEF AppliedStatuses, RowStatuses, CaptureStatuses, BlockedStatuses
<1> QED
  BY <1>1, <1>2, <1>3 DEF NewRecord, Records

(* TypeOK and JobFits are kept by every step of intake.                    *)
LEMMA ApplyTyped ==
  ASSUME TypeOK, JobFits,
         (\E d \in Drops : StartApply(d)) \/ CopyFiles \/ WriteCaptureMetadata
         \/ AppendCaptureRecord
  PROVE  TypeOK' /\ JobFits'
<1>1. ASSUME NEW d \in Drops, StartApply(d) PROVE TypeOK' /\ JobFits'
  <2>1. CaptureStatus(d) \in AppliedStatuses
    BY DEF CaptureStatus, AppliedStatuses
  <2>2. issued' \in Uids /\ issued' \in 0 .. MaxCaptures
    BY <1>1, LifecycleBounds DEF StartApply, TypeOK, Uids
  <2>3. job' \in ApplyJobs
    BY <1>1, <2>1, <2>2 DEF StartApply, ApplyJobs
  <2>4. job' # Nothing /\ job' \in Jobs
    BY <2>3, NothingIsNothing DEF Jobs
  <2> QED
    BY <1>1, <2>2, <2>3, <2>4 DEF StartApply, TypeOK, JobFits, Applying
<1>2. CASE CopyFiles
  <2>1. job \in ApplyJobs
    BY <1>2 DEF CopyFiles, JobFits, Applying
  <2>2. contents' \in [Uids -> Drops \cup {Nothing}] /\ roots' \in [Uids -> {"absent", "files", "complete"}]
    BY <1>2, <2>1, ApplyJobFields DEF CopyFiles, TypeOK
  <2> QED
    BY <1>2, <2>1, <2>2 DEF CopyFiles, TypeOK, JobFits, Applying
<1>3. CASE WriteCaptureMetadata
  <2>1. job \in ApplyJobs
    BY <1>3 DEF WriteCaptureMetadata, JobFits, Applying
  <2> QED
    BY <1>3, <2>1 DEF WriteCaptureMetadata, TypeOK, JobFits, Applying
<1>4. CASE AppendCaptureRecord
  <2>1. job \in ApplyJobs
    BY <1>4 DEF AppendCaptureRecord, JobFits, Applying
  <2>2. NewRecord \in Records
    BY <2>1, NewRecordTyped
  <2>3. registry' \in Seq(Records)
    BY <1>4, <2>2, RegistryRows, RowAppended DEF AppendCaptureRecord
  <2> QED
    BY <1>4, <2>3 DEF AppendCaptureRecord, TypeOK, JobFits, Applying, Records
<1> QED
  BY <1>1, <1>2, <1>3, <1>4

(* The same for profile, normalize and a removed output.                   *)
LEMMA WorkTyped ==
  ASSUME TypeOK, JobFits,
         (\E u \in Uids : StartProfile(u) \/ StartNormalize(u) \/ RemoveOutput(u))
         \/ WriteMirrors \/ NormalizeRaises
  PROVE  TypeOK' /\ JobFits'
<1>1. ASSUME NEW u \in Uids, StartProfile(u) \/ StartNormalize(u) PROVE TypeOK' /\ JobFits'
  <2>1. job' \in ProfileJobs \cup NormalizeJobs /\ (StartNormalize(u) => job' \in NormalizeJobs)
    BY <1>1 DEF StartProfile, StartNormalize, ProfileJobs, NormalizeJobs
  <2>2. job' # Nothing /\ job' \in Jobs
    BY <2>1, NothingIsNothing DEF Jobs
  <2>3. outputs' \in [Uids -> OutputStates]
    BY <1>1 DEF StartProfile, StartNormalize, EnsureOutput, TypeOK, OutputStates
  <2> QED
    BY <1>1, <2>1, <2>2, <2>3 DEF StartProfile, StartNormalize, TypeOK, JobFits, Applying
<1>2. ASSUME NEW u \in Uids, RemoveOutput(u) PROVE TypeOK' /\ JobFits'
  <2>1. outputs' \in [Uids -> OutputStates] /\ removals' \in 0 .. MaxMishaps
    BY <1>2, LifecycleBounds DEF RemoveOutput, TypeOK, OutputStates
  <2> QED
    BY <1>2, <2>1 DEF RemoveOutput, TypeOK, JobFits, Applying, Idle
<1>3. CASE WriteMirrors
  BY <1>3 DEF WriteMirrors, TypeOK, JobFits, Applying, OutputStates
<1>4. CASE NormalizeRaises
  BY <1>4 DEF NormalizeRaises, TypeOK, JobFits, Applying
<1> QED
  BY <1>1, <1>2, <1>3, <1>4

(* The same for assemble.                                                  *)
LEMMA AssembleTyped ==
  ASSUME TypeOK, JobFits,
         StartAssemble \/ RemoveGenerated \/ Merge \/ MergeRaises \/ WriteAssemblySummary
  PROVE  TypeOK' /\ JobFits'
<1>1. CASE StartAssemble
  <2>1. Registered \in SUBSET Uids
    BY RegistryRows
  <2>2. job' \in AssembleJobs
    BY <1>1, <2>1 DEF StartAssemble, AssembleJobs
  <2>3. job' # Nothing /\ job' \in Jobs
    BY <2>2, NothingIsNothing DEF Jobs
  <2> QED
    BY <1>1, <2>2, <2>3 DEF StartAssemble, TypeOK, JobFits, Applying
<1>2. CASE RemoveGenerated
  BY <1>2 DEF RemoveGenerated, TypeOK, JobFits, Applying
<1>3. CASE Merge
  BY <1>3 DEF Merge, TypeOK, JobFits, Applying
<1>4. CASE MergeRaises
  BY <1>4 DEF MergeRaises, TypeOK, JobFits, Applying
<1>5. CASE WriteAssemblySummary
  BY <1>5 DEF WriteAssemblySummary, TypeOK, JobFits, Applying
<1> QED
  BY <1>1, <1>2, <1>3, <1>4, <1>5

(* Marking a capture leaves the job of the command what it is.             *)
LEMMA MarkedJob ==
  ASSUME TypeOK, AppendCaptureStatus
  PROVE  /\ job \in Jobs /\ job' \in Jobs /\ job'.todo = job.todo \ {NextToMark}
         /\ job'.op = job.op /\ job'.request = job.request
         /\ job \in AssembleJobs => job' = [job EXCEPT !.todo = @ \ {NextToMark}]
         /\ NextToMark \in job.todo /\ job.op # "apply"
<1>1. job \in Jobs /\ job.todo # {}
  BY RunningHasJob DEF AppendCaptureStatus
<1>2. NextToMark \in job.todo
  BY <1>1, NextToMarkIsOwed
<1>3. CASE job \in ApplyJobs
  BY <1>1, <1>3, ApplyJobFields
<1>4. CASE job \in ProfileJobs
  BY <1>1, <1>2, <1>4 DEF AppendCaptureStatus, ProfileJobs, Jobs
<1>5. CASE job \in NormalizeJobs
  BY <1>1, <1>2, <1>5 DEF AppendCaptureStatus, NormalizeJobs, Jobs
<1>6. CASE job \in AssembleJobs
  BY <1>1, <1>2, <1>6 DEF AppendCaptureStatus, AssembleJobs, Jobs
<1> QED
  BY <1>1, <1>3, <1>4, <1>5, <1>6 DEF Jobs

(* The tail every command shares marks captures the registry knows.        *)
LEMMA MarkedTyped ==
  ASSUME TypeOK, pc = "record", job.todo # {}
  PROVE  WithStatus(NextToMark) \in Seq(Records)
<1>1. job \in Jobs /\ NextToMark \in job.todo
  BY RunningHasJob, NextToMarkIsOwed
<1>2. CASE EveryRowOf(NextToMark) # {}
  <2>1. RequestedStatus(NextToMark) \in CaptureStatuses
    BY <1>1, RequestTyped DEF Settled, CaptureStatuses, IncludedStatuses
  <2>2. PICK r \in Records : WithStatus(NextToMark) = Append(registry, r)
    BY <1>2, <2>1, MarkRow
  <2> QED
    BY <2>2, RegistryRows, RowAppended
<1>3. CASE EveryRowOf(NextToMark) = {}
  BY <1>3, RegistryRows DEF WithStatus
<1> QED
  BY <1>2, <1>3

LEMMA TailTyped ==
  ASSUME TypeOK, JobFits,
         AppendCaptureStatus \/ UpdateSourceInventory \/ InventoryRaises \/ EndCommand
  PROVE  TypeOK' /\ JobFits'
<1>1. CASE AppendCaptureStatus
  <2>1. job' \in Jobs /\ job' # Nothing
    BY <1>1, MarkedJob, NothingIsNothing
  <2>2. registry' \in Seq(Records)
    BY <1>1, MarkedTyped DEF AppendCaptureStatus
  <2> QED
    BY <1>1, <2>1, <2>2 DEF AppendCaptureStatus, TypeOK, JobFits, Applying, Records
<1>2. CASE UpdateSourceInventory
  <2>1. job \in Jobs
    BY <1>2, RunningHasJob DEF UpdateSourceInventory
  <2>2. inventory' \in Inventories
    BY <1>2, <2>1, RequestTyped, ReducedTyped DEF UpdateSourceInventory
  <2> QED
    BY <1>2, <2>2 DEF UpdateSourceInventory, TypeOK, JobFits, Applying, Inventories
<1>3. CASE InventoryRaises
  BY <1>3 DEF InventoryRaises, TypeOK, JobFits, Applying
<1>4. CASE EndCommand
  BY <1>4 DEF EndCommand, TypeOK, JobFits, Applying
<1> QED
  BY <1>1, <1>2, <1>3, <1>4

(* And for crashes.                                                        *)
LEMMA NewRegistryTyped ==
  ASSUME TypeOK, JobFits, CrashWritingRegistry
  PROVE  NewRegistry \in Seq(Records) /\ Remainder(registry', NewRegistry)
<1>1. NewRegistry \in Seq(Records)
  <2>1. CASE pc = "register"
    <3>1. NewRecord \in Records
      BY <2>1, NewRecordTyped DEF JobFits, Applying
    <3> QED
      BY <2>1, <3>1, RegistryRows, RowAppended DEF NewRegistry
  <2>2. CASE pc # "register"
    BY <2>2, MarkedTyped DEF NewRegistry, CrashWritingRegistry
  <2> QED
    BY <2>1, <2>2
<1>2. PICK n \in 0 .. Len(NewRegistry) - 1 :
        \/ registry' = SubSeq(NewRegistry, 1, n)
        \/ \E r \in CutsOf(NewRegistry[n + 1]) :
             registry' = Append(SubSeq(NewRegistry, 1, n), r)
  BY DEF CrashWritingRegistry
<1> QED
  BY <1>1, <1>2, CrashLeavesRemainder

LEMMA CrashTyped ==
  ASSUME TypeOK, JobFits, Crash
  PROVE  TypeOK' /\ JobFits' /\ pc' = "idle" /\ UNCHANGED << roots, contents, issued >>
<1>1. pc' = "idle" /\ job' = Nothing /\ crashes' \in 0 .. MaxMishaps
      /\ UNCHANGED << roots, contents, issued, removals >>
  BY LifecycleBounds
  DEF Crash, CrashBetweenSteps, CrashWritingRegistry, CrashWritingInventory,
      CrashWritingMirrors, CrashAssembling, Abort, TypeOK
<1>2. registry' \in Seq(Records)
  <2>1. CASE registry' = registry
    BY <2>1, RegistryRows
  <2>2. CASE CrashWritingRegistry
    BY <2>2, NewRegistryTyped DEF Remainder
  <2> QED
    BY <2>1, <2>2
    DEF Crash, CrashBetweenSteps, CrashWritingInventory, CrashWritingMirrors, CrashAssembling
<1>3. outputs' \in [Uids -> OutputStates]
  BY DEF Crash, CrashBetweenSteps, CrashWritingRegistry, CrashWritingInventory,
         CrashWritingMirrors, CrashAssembling, TypeOK, OutputStates
<1>4. inventory' \in Inventories
  <2>1. CASE inventory' = inventory
    BY <2>1 DEF TypeOK, Inventories
  <2>2. CASE CrashWritingInventory
    <3>1. job \in Jobs
      BY <2>2, RunningHasJob DEF CrashWritingInventory
    <3>2. Reduced(job.request) \in Inventories
      BY <3>1, RequestTyped, ReducedTyped
    <3>3. inventory' \in CutInventory(Reduced(job.request))
      BY <2>2 DEF CrashWritingInventory
    <3>4. \A i \in Inventories : CutInventory(i) \subseteq Inventories
      <4> TAKE i \in Inventories
      <4>1. NoInventory \in Inventories
        BY DEF Inventories, NoInventory, SourceStatuses
      <4>2. \A a \in {"unset", i.assembly} :
              [i EXCEPT !.assembly = a, !.ref = FALSE] \in Inventories
        BY DEF Inventories
      <4> QED
        BY <4>1, <4>2 DEF CutInventory
    <3> QED
      BY <3>2, <3>3, <3>4
  <2> QED
    BY <2>1, <2>2
    DEF Crash, CrashBetweenSteps, CrashWritingRegistry, CrashWritingMirrors, CrashAssembling
<1> QED
  BY <1>1, <1>2, <1>3, <1>4 DEF TypeOK, JobFits, Applying, Records, Inventories

-----------------------------------------------------------------------------
(* The registry stays sound. *)

(* A row that may follow those of R.                                       *)
FollowsStatuses(R, r) ==
  \A m \in DOMAIN R : R[m].uid = r.uid =>
    /\ r.status \in {"profiled"} \cup Settled
    /\ R[m].status \in Settled =>
         r.status \in Settled
         \/ \E i \in DOMAIN R : m < i /\ R[i].uid = r.uid /\ R[i].status \in CutStatuses

Follows(R, r) ==
  /\ r.uid <= issued
  /\ \A m \in DOMAIN R : R[m].uid = r.uid /\ ~R[m].source => ~r.source
  /\ FollowsStatuses(R, r)
  /\ r.status = "assembly_included" =>
       \E m \in DOMAIN R : R[m].uid = r.uid /\ R[m].source /\ R[m].status = "normalized"
  /\ r.status = "normalized" => roots[r.uid] = "complete"
  /\ r.print # NoPrint /\ roots[r.uid] = "complete" => r.print = contents[r.uid].print
  /\ \A v \in Uids : /\ r.source /\ r.uid < v
                     /\ r.print # NoPrint /\ roots[v] = "complete"
                     => r.print # contents[v].print

LEMMA SoundAppended ==
  ASSUME NEW R \in Seq(Records), NEW r \in Records, SoundRows(R), Follows(R, r),
         NEW R2, R2 = Append(R, r)
  PROVE  SoundRows(R2)
<1> DEFINE k == Len(R) + 1
<1>1. /\ DOMAIN R2 = DOMAIN R \cup {k} /\ k \in Nat
      /\ \A n \in DOMAIN R : n \in Nat /\ n < k /\ R2[n] = R[n]
      /\ R2[k] = r
  BY RowAppended
<1> HIDE DEF k
<1>2. \A m, n \in DOMAIN R2 : m < n => m \in DOMAIN R /\ R2[m] = R[m]
  BY <1>1
<1>3. RowsIssued(R2)
  BY <1>1 DEF SoundRows, RowsIssued, Follows
<1>4. HiddenStays(R2)
  <2> SUFFICES ASSUME NEW m \in DOMAIN R2, NEW n \in DOMAIN R2, m < n,
                      R2[m].uid = R2[n].uid, ~R2[m].source
               PROVE  ~R2[n].source
    BY DEF HiddenStays
  <2>1. m \in DOMAIN R /\ R2[m] = R[m]
    BY <1>2
  <2>2. CASE n = k
    BY <1>1, <2>1, <2>2 DEF Follows
  <2>3. CASE n \in DOMAIN R
    BY <1>1, <2>1, <2>3 DEF SoundRows, HiddenStays
  <2> QED
    BY <1>1, <2>2, <2>3
<1>5. StatusesAdvance(R2)
  <2> SUFFICES ASSUME NEW m \in DOMAIN R2, NEW n \in DOMAIN R2, m < n,
                      R2[m].uid = R2[n].uid
               PROVE  /\ R2[n].status \in {"profiled"} \cup Settled \cup CutStatuses
                      /\ R2[m].status \in Settled =>
                           R2[n].status \in Settled \/ CutBetween(R2, m, n)
    BY DEF StatusesAdvance
  <2>1. m \in DOMAIN R /\ R2[m] = R[m]
    BY <1>2
  <2>2. CASE n = k
    <3>1. R[m].uid = r.uid /\ R2[n] = r
      BY <1>1, <2>1, <2>2
    <3>2. r.status \in {"profiled"} \cup Settled
      BY <2>1, <3>1 DEF Follows, FollowsStatuses
    <3>3. ASSUME R[m].status \in Settled, r.status \notin Settled
          PROVE  CutBetween(R2, m, n)
      <4>1. PICK i \in DOMAIN R : m < i /\ R[i].uid = r.uid /\ R[i].status \in CutStatuses
        BY <2>1, <3>1, <3>3 DEF Follows, FollowsStatuses
      <4>2. i \in DOMAIN R2 /\ i <= n /\ R2[i] = R[i]
        BY <1>1, <2>2, <4>1
      <4> QED
        BY <3>1, <4>1, <4>2 DEF CutBetween
    <3> QED
      BY <2>1, <3>1, <3>2, <3>3
  <2>3. CASE n \in DOMAIN R
    <3>1. R2[n] = R[n]
      BY <1>1, <2>3
    <3>2. CutBetween(R, m, n) => CutBetween(R2, m, n)
      BY <1>1, <3>1 DEF CutBetween
    <3> QED
      BY <2>1, <2>3, <3>1, <3>2 DEF SoundRows, StatusesAdvance
  <2> QED
    BY <1>1, <2>2, <2>3
<1>6. IncludedWasNormalized(R2)
  <2> SUFFICES ASSUME NEW n \in DOMAIN R2, R2[n].status = "assembly_included"
               PROVE  NormalizedBefore(R2, n)
    BY DEF IncludedWasNormalized
  <2>1. CASE n = k
    BY <1>1, <2>1 DEF Follows, NormalizedBefore
  <2>2. CASE n \in DOMAIN R
    <3>1. NormalizedBefore(R, n)
      BY <1>1, <2>2 DEF SoundRows, IncludedWasNormalized
    <3> QED
      BY <1>1, <2>2, <3>1 DEF NormalizedBefore
  <2> QED
    BY <1>1, <2>1, <2>2
<1>7. NormalizedHasRoot(R2)
  BY <1>1 DEF SoundRows, NormalizedHasRoot, Follows
<1>8. PrintIsOfRoot(R2)
  BY <1>1 DEF SoundRows, PrintIsOfRoot, Follows
<1>9. RepeatsHaveNoRoot(R2)
  <2> SUFFICES ASSUME NEW n \in DOMAIN R2, NEW v \in Uids, R2[n].source, R2[n].uid < v,
                      R2[n].print # NoPrint, roots[v] = "complete"
               PROVE  R2[n].print # contents[v].print
    BY DEF RepeatsHaveNoRoot
  <2>1. CASE n = k
    BY <1>1, <2>1 DEF Follows
  <2>2. CASE n \in DOMAIN R
    BY <1>1, <2>2 DEF SoundRows, RepeatsHaveNoRoot
  <2> QED
    BY <1>1, <2>1, <2>2
<1> QED
  BY <1>3, <1>4, <1>5, <1>6, <1>7, <1>8, <1>9 DEF SoundRows

(* Every part of SoundRows speaks of a row and earlier ones, and a cut can *)
(* only take from what a row says, so a crash while sound rows are written *)
(* leaves sound rows.                                                      *)
LEMMA SoundRemainder ==
  ASSUME NEW R \in Seq(Records), SoundRows(R), NEW R2, Remainder(R2, R)
  PROVE  SoundRows(R2)
<1>1. /\ DOMAIN R2 \subseteq DOMAIN R /\ DOMAIN R \subseteq Nat
      /\ \A i \in DOMAIN R2 : Worn(R2[i], R[i])
      /\ \A i, j \in DOMAIN R2 : i < j => R2[i] = R[i]
      /\ \A i \in DOMAIN R, j \in DOMAIN R2 : i <= j => i \in DOMAIN R2
  BY RowsOfList DEF Remainder
<1>2. \A i \in DOMAIN R2 :
        /\ i \in DOMAIN R /\ R2[i].uid = R[i].uid /\ (R2[i].source => R[i].source)
        /\ R2[i].status = R[i].status \/ R2[i].status \in CutStatuses
        /\ R2[i].print = R[i].print \/ R2[i].print = NoPrint
  BY <1>1 DEF Worn
<1>3. RowsIssued(R2)
  BY <1>2 DEF SoundRows, RowsIssued
<1>4. HiddenStays(R2)
  <2> SUFFICES ASSUME NEW m \in DOMAIN R2, NEW n \in DOMAIN R2, m < n,
                      R2[m].uid = R2[n].uid, ~R2[m].source
               PROVE  ~R2[n].source
    BY DEF HiddenStays
  <2>1. m \in DOMAIN R /\ n \in DOMAIN R /\ R2[m] = R[m] /\ R[m].uid = R[n].uid
    BY <1>1, <1>2
  <2>2. ~R[n].source
    BY <2>1 DEF SoundRows, HiddenStays
  <2> QED
    BY <1>2, <2>2
<1>5. StatusesAdvance(R2)
  <2> SUFFICES ASSUME NEW m \in DOMAIN R2, NEW n \in DOMAIN R2, m < n,
                      R2[m].uid = R2[n].uid
               PROVE  /\ R2[n].status \in {"profiled"} \cup Settled \cup CutStatuses
                      /\ R2[m].status \in Settled =>
                           R2[n].status \in Settled \/ CutBetween(R2, m, n)
    BY DEF StatusesAdvance
  <2>1. m \in DOMAIN R /\ n \in DOMAIN R /\ R2[m] = R[m] /\ R[m].uid = R[n].uid
        /\ R2[n].uid = R[n].uid
    BY <1>1, <1>2
  <2>2. /\ R[n].status \in {"profiled"} \cup Settled \cup CutStatuses
        /\ R[m].status \in Settled => R[n].status \in Settled \/ CutBetween(R, m, n)
    BY <2>1 DEF SoundRows, StatusesAdvance
  <2>3. CASE R2[n].status \in CutStatuses
    <3>1. m \in Nat /\ n \in Nat /\ n <= n
      BY <1>1, <2>1
    <3>2. CutBetween(R2, m, n)
      BY <2>3, <3>1 DEF CutBetween
    <3> QED
      BY <2>3, <3>2
  <2>4. CASE R2[n].status = R[n].status
    <3>1. ASSUME CutBetween(R, m, n) PROVE CutBetween(R2, m, n) \/ R2[n].status \in CutStatuses
      <4>1. PICK i \in DOMAIN R : /\ m < i /\ i <= n
                                  /\ R[i].uid = R[n].uid /\ R[i].status \in CutStatuses
        BY <3>1 DEF CutBetween
      <4>2. i \in DOMAIN R2 /\ i \in Nat /\ n \in Nat
        BY <1>1, <4>1
      <4>3. CASE i = n
        BY <2>4, <4>1, <4>3
      <4>4. CASE i < n
        <5>1. R2[i] = R[i]
          BY <1>1, <4>2, <4>4
        <5> QED
          BY <2>1, <4>1, <4>2, <5>1 DEF CutBetween
      <4> QED
        BY <4>1, <4>2, <4>3, <4>4
    <3> QED
      BY <2>1, <2>2, <2>3, <2>4, <3>1
  <2> QED
    BY <1>2, <2>3, <2>4
<1>6. IncludedWasNormalized(R2)
  <2> SUFFICES ASSUME NEW n \in DOMAIN R2, R2[n].status = "assembly_included"
               PROVE  NormalizedBefore(R2, n)
    BY DEF IncludedWasNormalized
  <2>1. n \in DOMAIN R /\ R[n].status = "assembly_included"
    BY <1>2 DEF CutStatuses
  <2>2. PICK m \in DOMAIN R : /\ m < n /\ R[m].uid = R[n].uid /\ R[m].source
                              /\ R[m].status = "normalized"
    BY <2>1 DEF SoundRows, IncludedWasNormalized, NormalizedBefore
  <2>3. m \in DOMAIN R2
    <3>1. m \in Nat /\ n \in Nat
      BY <1>1, <2>1
    <3> QED
      BY <1>1, <2>2, <3>1
  <2>4. R2[m] = R[m] /\ R2[n].uid = R[n].uid
    BY <1>1, <1>2, <2>2, <2>3
  <2> QED
    BY <2>2, <2>3, <2>4 DEF NormalizedBefore
<1>7. NormalizedHasRoot(R2)
  <2> SUFFICES ASSUME NEW n \in DOMAIN R2, R2[n].status = "normalized"
               PROVE  roots[R2[n].uid] = "complete"
    BY DEF NormalizedHasRoot
  <2>1. R[n].status = "normalized"
    BY <1>2 DEF CutStatuses
  <2> QED
    BY <1>2, <2>1 DEF SoundRows, NormalizedHasRoot
<1>8. PrintIsOfRoot(R2)
  BY <1>2 DEF SoundRows, PrintIsOfRoot
<1>9. RepeatsHaveNoRoot(R2)
  <2> SUFFICES ASSUME NEW n \in DOMAIN R2, NEW v \in Uids, R2[n].source, R2[n].uid < v,
                      R2[n].print # NoPrint, roots[v] = "complete"
               PROVE  R2[n].print # contents[v].print
    BY DEF RepeatsHaveNoRoot
  <2>1. n \in DOMAIN R /\ R[n].source /\ R[n].uid < v /\ R[n].print = R2[n].print
    BY <1>2
  <2> QED
    BY <2>1 DEF SoundRows, RepeatsHaveNoRoot
<1> QED
  BY <1>3, <1>4, <1>5, <1>6, <1>7, <1>8, <1>9 DEF SoundRows

(* SoundRows reads the roots, what they hold and the uids issued.          *)
LEMMA SoundUnchanged ==
  ASSUME RegistrySound, UNCHANGED << registry, roots, contents, issued >>
  PROVE  RegistrySound'
BY DEF RegistrySound, RootsIssued, SoundRows, RowsIssued, HiddenStays, StatusesAdvance,
       CutBetween, IncludedWasNormalized, NormalizedBefore, NormalizedHasRoot, PrintIsOfRoot,
       RepeatsHaveNoRoot

LEMMA SoundRewritten ==
  ASSUME RegistrySound, SoundRows(registry'), UNCHANGED << roots, contents, issued >>
  PROVE  RegistrySound'
BY DEF RegistrySound, RootsIssued, SoundRows, RowsIssued, HiddenStays, StatusesAdvance,
       CutBetween, IncludedWasNormalized, NormalizedBefore, NormalizedHasRoot, PrintIsOfRoot,
       RepeatsHaveNoRoot

-----------------------------------------------------------------------------
(* What the sorting of the captures says about their histories. *)

(* The rows of one capture, as sets of row numbers.                        *)
LEMMA RowsAreVisible ==
  ASSUME NEW u
  PROVE  /\ \A n \in RowsOf(u) : n \in DOMAIN registry /\ registry[n].uid = u
                                 /\ registry[n].source /\ n \in EveryRowOf(u)
         /\ \A n \in DOMAIN registry :
              registry[n].uid = u /\ registry[n].source => n \in RowsOf(u)
         /\ u \in Registered <=> RowsOf(u) # {}
BY DEF RowsOf, EveryRowOf, SourceRows, Registered

(* LatestIndex is the last row with one of the statuses, 0 without one.    *)
LEMMA LatestIndexIs ==
  ASSUME TypeOK, NEW u, NEW T
  PROVE  /\ LatestIndex(u, T) \in Nat
         /\ \A n \in RowsOf(u) : registry[n].status \in T => n <= LatestIndex(u, T)
         /\ LatestIndex(u, T) # 0 => /\ LatestIndex(u, T) \in RowsOf(u)
                                     /\ registry[LatestIndex(u, T)].status \in T
<1> DEFINE S == {n \in RowsOf(u) : registry[n].status \in T}
<1>1. S \in SUBSET (1 .. Len(registry)) /\ Len(registry) \in Nat
  BY RegistryRows
<1>2. LatestIndex(u, T) = MaxOf(S)
  BY DEF LatestIndex
<1>3. CASE S = {}
  <2>1. MaxOf(S) = 0
    BY <1>3 DEF MaxOf
  <2> QED
    BY <1>2, <1>3, <2>1
<1>4. CASE S # {}
  <2>1. MaxOf(S) \in S /\ \A m \in S : m <= MaxOf(S)
    BY <1>1, <1>4, MaxOfIsLargest
  <2>2. MaxOf(S) \in Nat
    BY <1>1, <2>1
  <2> QED
    BY <1>2, <2>1, <2>2
<1> QED
  BY <1>3, <1>4

(* The two rules read the latest status and the two indices.               *)
LEMMA SortingReads ==
  ASSUME TypeOK, NEW u \in Registered,
         NEW L, L = MaxOf(RowsOf(u)),
         NEW I, I = LatestIndex(u, IncludedStatuses),
         NEW B, B = LatestIndex(u, BlockedStatuses)
  PROVE  /\ L \in RowsOf(u) /\ registry[L].status = LatestStatus(u)
         /\ \A m \in RowsOf(u) : m \in Nat /\ m # 0 /\ m <= L
         /\ I \in Nat /\ \A n \in RowsOf(u) : registry[n].status \in IncludedStatuses => n <= I
         /\ I # 0 => I \in RowsOf(u) /\ registry[I].status \in IncludedStatuses
         /\ B \in Nat /\ \A n \in RowsOf(u) : registry[n].status \in BlockedStatuses => n <= B
         /\ B # 0 => B \in RowsOf(u) /\ registry[B].status \in BlockedStatuses
         /\ Includable(u) <=> \/ LatestStatus(u) \in IncludedStatuses
                              \/ LatestStatus(u) = "assembly_excluded" /\ I > B
         /\ PolicyExcluded(u) <=> LatestStatus(u) \in BlockedStatuses \/ B > I
<1>1. /\ L \in RowsOf(u) /\ \A m \in RowsOf(u) : m <= L
      /\ registry[L].status = LatestStatus(u)
  BY LatestRow DEF LatestStatus
<1>2. \A m \in RowsOf(u) : m \in Nat /\ m # 0
  BY RegistryRows
<1>3. /\ I \in Nat /\ \A n \in RowsOf(u) : registry[n].status \in IncludedStatuses => n <= I
      /\ I # 0 => I \in RowsOf(u) /\ registry[I].status \in IncludedStatuses
  BY LatestIndexIs
<1>4. /\ B \in Nat /\ \A n \in RowsOf(u) : registry[n].status \in BlockedStatuses => n <= B
      /\ B # 0 => B \in RowsOf(u) /\ registry[B].status \in BlockedStatuses
  BY LatestIndexIs
<1> QED
  BY <1>1, <1>2, <1>3, <1>4 DEF Includable, PolicyExcluded

(* An includable capture was normalized.                                   *)
LEMMA IncludableWasNormalized ==
  ASSUME TypeOK, SoundRows(registry), NEW u \in Registered, Includable(u)
  PROVE  "normalized" \in StatusesOf(u)
<1> DEFINE L == MaxOf(RowsOf(u))
           I == LatestIndex(u, IncludedStatuses)
           B == LatestIndex(u, BlockedStatuses)
<1>1. /\ L \in RowsOf(u) /\ registry[L].status = LatestStatus(u)
      /\ I \in Nat /\ B \in Nat
      /\ I # 0 => I \in RowsOf(u) /\ registry[I].status \in IncludedStatuses
      /\ \/ LatestStatus(u) \in IncludedStatuses
         \/ LatestStatus(u) = "assembly_excluded" /\ I > B
  BY SortingReads
<1> HIDE DEF L, I, B
<1>2. PICK n \in RowsOf(u) : registry[n].status \in IncludedStatuses
  BY <1>1
<1>3. CASE registry[n].status = "normalized"
  BY <1>3 DEF StatusesOf
<1>4. CASE registry[n].status = "assembly_included"
  <2>1. n \in DOMAIN registry /\ registry[n].uid = u
    BY RowsAreVisible
  <2>2. PICK m \in DOMAIN registry : /\ registry[m].uid = u /\ registry[m].source
                                     /\ registry[m].status = "normalized"
    BY <1>4, <2>1 DEF SoundRows, IncludedWasNormalized, NormalizedBefore
  <2>3. m \in RowsOf(u)
    BY <2>2, RowsAreVisible
  <2> QED
    BY <2>2, <2>3 DEF StatusesOf
<1> QED
  BY <1>2, <1>3, <1>4 DEF IncludedStatuses

(* In a sound registry a capture that was normalized, and of which no      *)
(* status was cut, is includable and not excluded.                         *)
LEMMA NormalizedIsIncludable ==
  ASSUME TypeOK, SoundRows(registry), NEW u \in Registered,
         "normalized" \in StatusesOf(u), ~StatusCut(u)
  PROVE  Includable(u) /\ ~PolicyExcluded(u)
<1> DEFINE L == MaxOf(RowsOf(u))
           I == LatestIndex(u, IncludedStatuses)
           B == LatestIndex(u, BlockedStatuses)
<1>1. /\ L \in RowsOf(u) /\ registry[L].status = LatestStatus(u)
      /\ \A m \in RowsOf(u) : m \in Nat /\ m # 0 /\ m <= L
      /\ I \in Nat /\ \A n \in RowsOf(u) : registry[n].status \in IncludedStatuses => n <= I
      /\ B \in Nat
      /\ B # 0 => B \in RowsOf(u) /\ registry[B].status \in BlockedStatuses
      /\ Includable(u) <=> \/ LatestStatus(u) \in IncludedStatuses
                           \/ LatestStatus(u) = "assembly_excluded" /\ I > B
      /\ PolicyExcluded(u) <=> LatestStatus(u) \in BlockedStatuses \/ B > I
  BY SortingReads
<1> HIDE DEF L, I, B
<1>2. PICK n \in RowsOf(u) : registry[n].status = "normalized"
  BY DEF StatusesOf
<1>3. ASSUME NEW i \in RowsOf(u), NEW j \in RowsOf(u), i < j
      PROVE  /\ registry[j].status \in {"profiled"} \cup Settled
             /\ registry[i].status \in Settled => registry[j].status \in Settled
  <2>1. /\ i \in DOMAIN registry /\ registry[i].uid = u
        /\ j \in DOMAIN registry /\ registry[j].uid = u /\ registry[j].source
    BY RowsAreVisible
  <2>2. \A h \in RowsOf(u) : registry[h].status \notin CutStatuses
    BY DEF StatusCut, CutStatuses
  <2>3. ~CutBetween(registry, i, j)
    <3> SUFFICES ASSUME NEW h \in DOMAIN registry, h <= j,
                        registry[h].uid = u, registry[h].status \in CutStatuses
                 PROVE  FALSE
      BY <2>1 DEF CutBetween
    <3>1. h \notin RowsOf(u)
      BY <2>2
    <3>2. ~registry[h].source
      BY <3>1, RowsAreVisible
    <3>3. h # j /\ h \in Nat /\ j \in Nat
      BY <2>1, <3>2, RegistryRows
    <3>4. h < j
      BY <3>3
    <3> QED
      BY <2>1, <3>2, <3>4 DEF SoundRows, HiddenStays
  <2> QED
    BY <1>3, <2>1, <2>2, <2>3 DEF SoundRows, StatusesAdvance
<1>4. LatestStatus(u) \in Settled
  <2>1. registry[n].status \in Settled
    BY <1>2 DEF Settled
  <2>2. CASE n = L
    BY <1>1, <2>1, <2>2
  <2>3. CASE n # L
    BY <1>1, <1>3, <2>1, <2>3
  <2> QED
    BY <2>2, <2>3
<1>5. n <= I
  BY <1>1, <1>2 DEF IncludedStatuses
<1>6. B < n
  <2>1. CASE B = 0
    BY <1>1, <2>1
  <2>2. CASE B # 0
    <3>1. B \in RowsOf(u) /\ registry[B].status \in BlockedStatuses
      BY <1>1, <2>2
    <3>2. B # n
      BY <1>2, <3>1 DEF BlockedStatuses
    <3>3. ~(n < B)
      BY <1>3, <3>1 DEF BlockedStatuses, Settled
    <3>4. B \in Nat /\ n \in Nat
      BY <1>1
    <3> QED
      BY <3>2, <3>3, <3>4
  <2> QED
    BY <2>1, <2>2
<1>7. I > B /\ ~(B > I)
  <2>1. n \in Nat
    BY <1>1
  <2> QED
    BY <1>1, <1>5, <1>6, <2>1
<1>8. LatestStatus(u) \notin BlockedStatuses
      /\ (LatestStatus(u) \in IncludedStatuses \/ LatestStatus(u) = "assembly_excluded")
  BY <1>4 DEF Settled, BlockedStatuses, IncludedStatuses
<1> QED
  BY <1>1, <1>7, <1>8

(* A sound registry keeps a normalized capture includable.                 *)
LEMMA SoundIsIncludable ==
  ASSUME TypeOK, SoundRows(registry)
  PROVE  NormalizedStaysIncludable
BY NormalizedIsIncludable DEF NormalizedStaysIncludable

-----------------------------------------------------------------------------
(* The rows the commands write follow those that are there. *)

(* Registering a capture: its uid is the latest one issued, so it has no   *)
(* row yet, and a drop that repeats a fingerprint brings no raw root.      *)
LEMMA NewRecordFollows ==
  ASSUME TypeOK, JobFits, RegistrySound, ApplyIsNew, pc = "register"
  PROVE  NewRecord \in Records /\ Follows(registry, NewRecord)
<1>1. job \in ApplyJobs /\ job.uid \in Uids /\ job.drop \in Drops
  BY ApplyJobFields DEF JobFits, Applying
<1>2. /\ NewRecord \in Records /\ NewRecord.uid = job.uid /\ NewRecord.print = job.drop.print
      /\ NewRecord.status \notin {"normalized", "profiled", "assembly_included"}
  BY <1>1, NewRecordTyped
<1>3. /\ job.uid = issued
      /\ \A n \in DOMAIN registry : registry[n].uid # job.uid
      /\ roots[job.uid] = "absent" \/ contents[job.uid] = job.drop
  BY DEF ApplyIsNew, Applying
<1>4. issued \in Nat /\ issued <= issued
  BY LifecycleBounds DEF TypeOK
<1>5. \A v \in Uids : job.uid < v => roots[v] # "complete"
  <2>1. \A v \in Uids : v \in Nat /\ (issued < v => v > issued)
    BY <1>4, LifecycleBounds DEF Uids
  <2> QED
    BY <1>3, <2>1 DEF RegistrySound, RootsIssued
<1>6. FollowsStatuses(registry, NewRecord)
  BY <1>2, <1>3 DEF FollowsStatuses
<1> QED
  BY <1>2, <1>3, <1>4, <1>5, <1>6 DEF Follows

(* What the marking row may say: never less than the capture's latest row, *)
(* "normalized" only over a complete root and "assembly_included" only     *)
(* after "normalized".                                                     *)
LEMMA MarkedStatus ==
  ASSUME TypeOK, SoundRows(registry), WorkHasRoot, SortedAsBefore,
         pc = "record", job.todo # {},
         NEW u, u = NextToMark, EveryRowOf(u) # {},
         NEW old, old = registry[MaxOf(EveryRowOf(u))].status,
         NEW s, s = ReduceCaptureStatus(old, RequestedStatus(u))
  PROVE  /\ s \in {"profiled"} \cup Settled
         /\ old \in Settled => s \in Settled
         /\ s = "normalized" => roots[u] = "complete"
         /\ s = "assembly_included" =>
              \E m \in DOMAIN registry : registry[m].uid = u /\ registry[m].source
                                         /\ registry[m].status = "normalized"
         /\ Assembling => s = RequestedStatus(u)
<1> DEFINE L == MaxOf(EveryRowOf(u))
<1>1. job \in Jobs /\ u \in job.todo
  BY RunningHasJob, NextToMarkIsOwed
<1>2. L \in DOMAIN registry /\ registry[L].uid = u /\ registry[L].status = old
  BY LatestOfEvery
<1> HIDE DEF L
<1>3. job.op # "apply"
  BY <1>1, JobKinds, ApplyJobFields
<1>4. RequestedStatus(u) \in {"profiled"} \cup Settled
  BY <1>1, RequestTyped
<1>5. s \in {"profiled"} \cup Settled /\ (old \in Settled => s \in Settled)
      /\ \/ s = RequestedStatus(u)
         \/ s = old /\ RequestedStatus(u) \in {"profiled", "normalized"}
  BY <1>4 DEF ReduceCaptureStatus, Settled
<1>6. RequestedStatus(u) = "normalized" => roots[u] = "complete"
  <2>1. RequestedStatus(u) = "normalized" => job.op = "normalize"
    <3>1. job.op = "profile" => job.request.status = "profiled"
      BY <1>1, JobKinds, WorkJobFields DEF StatusRequest
    <3> QED
      BY <1>1, <1>3, <3>1, JobKinds DEF RequestedStatus, Jobs
  <2> QED
    BY <2>1, <1>1 DEF WorkHasRoot
<1>7. RequestedStatus(u) \in {"assembly_included", "assembly_excluded"} <=> job.op = "assemble"
  <2>1. job.op # "assemble" => job.request.status \in {"profiled", "normalized"}
    BY <1>1, <1>3, JobKinds, WorkJobFields DEF Jobs
  <2> QED
    BY <2>1 DEF RequestedStatus
<1>8. RequestedStatus(u) = "assembly_included" =>
        \E m \in DOMAIN registry : registry[m].uid = u /\ registry[m].source
                                   /\ registry[m].status = "normalized"
  <2> SUFFICES ASSUME RequestedStatus(u) = "assembly_included"
               PROVE  \E m \in DOMAIN registry : registry[m].uid = u /\ registry[m].source
                                                 /\ registry[m].status = "normalized"
    OBVIOUS
  <2>1. job.op = "assemble" /\ u \in job.included
    BY <1>7 DEF RequestedStatus
  <2>2. u \in Registered /\ Includable(u)
    BY <2>1 DEF SortedAsBefore, Assembling, IncludableCaptures
  <2>3. PICK m \in RowsOf(u) : registry[m].status = "normalized"
    BY <2>2, IncludableWasNormalized DEF StatusesOf
  <2> QED
    BY <2>3, RowsAreVisible
<1>9. old = "normalized" => roots[u] = "complete"
  BY <1>2 DEF SoundRows, NormalizedHasRoot
<1>10. old = "assembly_included" =>
        \E m \in DOMAIN registry : registry[m].uid = u /\ registry[m].source
                                   /\ registry[m].status = "normalized"
  BY <1>2 DEF SoundRows, IncludedWasNormalized, NormalizedBefore
<1>11. Assembling => job.op = "assemble"
  BY DEF Assembling
<1> QED
  BY <1>5, <1>6, <1>7, <1>8, <1>9, <1>10, <1>11

(* The row a capture is marked with.                                       *)
MarkOf(r, u) ==
  LET old == registry[MaxOf(EveryRowOf(u))] IN
    /\ r \in Records /\ WithStatus(u) = Append(registry, r)
    /\ r.uid = u /\ r.print = old.print /\ r.source = old.source /\ r.timed = old.timed
    /\ r.status = ReduceCaptureStatus(old.status, RequestedStatus(u))

LEMMA MarkFollows ==
  ASSUME TypeOK, RegistrySound, WorkHasRoot, SortedAsBefore,
         pc = "record", job.todo # {}, NEW u, u = NextToMark, EveryRowOf(u) # {}
  PROVE  \E r \in Records : MarkOf(r, u) /\ Follows(registry, r)
<1> DEFINE L == MaxOf(EveryRowOf(u))
<1>1. job \in Jobs /\ u \in job.todo
  BY RunningHasJob, NextToMarkIsOwed
<1>2. RequestedStatus(u) \in CaptureStatuses
  BY <1>1, RequestTyped DEF Settled, CaptureStatuses, IncludedStatuses
<1>3. PICK r \in Records : /\ WithStatus(u) = Append(registry, r)
                           /\ r.uid = u /\ r.print = registry[L].print
                           /\ r.source = registry[L].source /\ r.timed = registry[L].timed
                           /\ r.status = ReduceCaptureStatus(registry[L].status, RequestedStatus(u))
  BY <1>2, MarkRow
<1>4. MarkOf(r, u)
  BY <1>3 DEF MarkOf
<1>5. L \in DOMAIN registry /\ registry[L].uid = u
      /\ \A m \in DOMAIN registry : registry[m].uid = u => m <= L
  BY LatestOfEvery
<1>6. /\ r.status \in {"profiled"} \cup Settled
      /\ registry[L].status \in Settled => r.status \in Settled
      /\ r.status = "normalized" => roots[u] = "complete"
      /\ r.status = "assembly_included" =>
           \E m \in DOMAIN registry : registry[m].uid = u /\ registry[m].source
                                      /\ registry[m].status = "normalized"
  BY <1>3, MarkedStatus DEF RegistrySound
<1> HIDE DEF L
<1>7. \A m \in DOMAIN registry : m \in Nat
  BY RegistryRows
<1>8. \A m \in DOMAIN registry : registry[m].uid = u /\ ~registry[m].source => ~r.source
  <2> SUFFICES ASSUME NEW m \in DOMAIN registry, registry[m].uid = u, ~registry[m].source
               PROVE  ~r.source
    OBVIOUS
  <2>1. CASE m = L
    BY <1>3, <2>1
  <2>2. CASE m # L
    <3>1. m < L
      BY <1>5, <1>7, <2>2
    <3>2. ~registry[L].source
      BY <1>5, <3>1 DEF RegistrySound, SoundRows, HiddenStays
    <3> QED
      BY <1>3, <3>2
  <2> QED
    BY <2>1, <2>2
<1>9. FollowsStatuses(registry, r)
  <2> SUFFICES ASSUME NEW m \in DOMAIN registry, registry[m].uid = u,
                      registry[m].status \in Settled, r.status \notin Settled
               PROVE  \E i \in DOMAIN registry :
                        m < i /\ registry[i].uid = u /\ registry[i].status \in CutStatuses
    BY <1>3, <1>6 DEF FollowsStatuses
  <2>1. registry[L].status \notin Settled
    BY <1>6
  <2>2. m < L
    BY <1>5, <1>7, <2>1
  <2>3. CutBetween(registry, m, L)
    BY <1>5, <2>1, <2>2 DEF RegistrySound, SoundRows, StatusesAdvance
  <2> QED
    BY <1>5, <2>3 DEF CutBetween
<1>10. /\ r.uid <= issued
       /\ r.print # NoPrint /\ roots[r.uid] = "complete" => r.print = contents[r.uid].print
       /\ \A v \in Uids : /\ r.source /\ r.uid < v
                          /\ r.print # NoPrint /\ roots[v] = "complete"
                          => r.print # contents[v].print
  BY <1>3, <1>5 DEF RegistrySound, SoundRows, RowsIssued, PrintIsOfRoot, RepeatsHaveNoRoot
<1>11. Follows(registry, r)
  BY <1>3, <1>6, <1>8, <1>9, <1>10 DEF Follows
<1> QED
  BY <1>4, <1>11

LEMMA SoundRegistered ==
  ASSUME TypeOK, JobFits, RegistrySound, ApplyIsNew, AppendCaptureRecord
  PROVE  RegistrySound'
<1>1. /\ pc = "register" /\ registry' = Append(registry, NewRecord)
      /\ UNCHANGED << roots, contents, issued >>
  BY DEF AppendCaptureRecord
<1>2. SoundRows(registry')
  BY <1>1, NewRecordFollows, RegistryRows, SoundAppended DEF RegistrySound
<1> QED
  BY <1>1, <1>2, SoundRewritten

LEMMA SoundWithStatus ==
  ASSUME TypeOK, RegistrySound, WorkHasRoot, SortedAsBefore, pc = "record", job.todo # {}
  PROVE  SoundRows(WithStatus(NextToMark))
<1>1. PICK u : u = NextToMark
  OBVIOUS
<1>2. CASE EveryRowOf(u) = {}
  BY <1>1, <1>2 DEF WithStatus, RegistrySound
<1>3. CASE EveryRowOf(u) # {}
  <2>1. PICK r \in Records : MarkOf(r, u) /\ Follows(registry, r)
    BY <1>1, <1>3, MarkFollows
  <2>2. WithStatus(u) = Append(registry, r)
    BY <2>1 DEF MarkOf
  <2> QED
    BY <1>1, <2>1, <2>2, RegistryRows, SoundAppended DEF RegistrySound
<1> QED
  BY <1>2, <1>3

LEMMA SoundMarked ==
  ASSUME TypeOK, RegistrySound, WorkHasRoot, SortedAsBefore, AppendCaptureStatus
  PROVE  RegistrySound'
<1>1. registry' = WithStatus(NextToMark) /\ UNCHANGED << roots, contents, issued >>
      /\ pc = "record" /\ job.todo # {}
  BY DEF AppendCaptureStatus
<1> QED
  BY <1>1, SoundWithStatus, SoundRewritten

LEMMA SoundCrashed ==
  ASSUME TypeOK, JobFits, RegistrySound, ApplyIsNew, WorkHasRoot, SortedAsBefore,
         CrashWritingRegistry
  PROVE  RegistrySound'
<1>1. UNCHANGED << roots, contents, issued >>
  BY DEF CrashWritingRegistry, Abort
<1>2. NewRegistry \in Seq(Records) /\ Remainder(registry', NewRegistry)
  BY NewRegistryTyped
<1>3. SoundRows(NewRegistry)
  <2>1. CASE pc = "register"
    BY <2>1, NewRecordFollows, RegistryRows, SoundAppended DEF NewRegistry, RegistrySound
  <2>2. CASE pc # "register"
    BY <2>2, SoundWithStatus DEF NewRegistry, CrashWritingRegistry
  <2> QED
    BY <2>1, <2>2
<1> QED
  BY <1>1, <1>2, <1>3, SoundRemainder, SoundRewritten

-----------------------------------------------------------------------------
(* A verdict changes nothing that the next sorting looks at. *)

(* The rules read the rows that count, and only their statuses.            *)
LEMMA SameRowsSameSorting ==
  ASSUME TypeOK, NEW v \in Registered,
         RowsOf(v)' = RowsOf(v), \A n \in RowsOf(v) : registry'[n] = registry[n]
  PROVE  /\ LatestStatus(v)' = LatestStatus(v)
         /\ Includable(v)' <=> Includable(v)
         /\ PolicyExcluded(v)' <=> PolicyExcluded(v)
<1>1. LatestStatus(v)' = LatestStatus(v)
  BY LatestRow DEF LatestStatus
<1>2. ASSUME NEW T PROVE LatestIndex(v, T)' = LatestIndex(v, T)
  <2>1. {n \in RowsOf(v) : registry[n].status \in T}'
          = {n \in RowsOf(v) : registry[n].status \in T}
    OBVIOUS
  <2> QED
    BY <2>1 DEF LatestIndex
<1> QED
  BY <1>1, <1>2 DEF Includable, PolicyExcluded, IncludedStatuses, BlockedStatuses

(* While the registry does not change, neither does the sorting.           *)
LEMMA SortingUnchanged ==
  ASSUME UNCHANGED registry
  PROVE  /\ IncludableCaptures' = IncludableCaptures /\ ExcludedCaptures' = ExcludedCaptures
         /\ Registered' = Registered /\ SourceRows' = SourceRows
         /\ \A u : LatestStatus(u)' = LatestStatus(u) /\ SourceCut(u)' = SourceCut(u)
<1>1. SourceRows' = SourceRows
  BY DEF SourceRows
<1>2. \A u : RowsOf(u)' = RowsOf(u) /\ EveryRowOf(u)' = EveryRowOf(u)
  BY <1>1 DEF RowsOf, EveryRowOf
<1>3. Registered' = Registered
  BY <1>1 DEF Registered
<1>4. \A u : LatestStatus(u)' = LatestStatus(u) /\ SourceCut(u)' = SourceCut(u)
  BY <1>2 DEF LatestStatus, SourceCut
<1>5. \A u, T : LatestIndex(u, T)' = LatestIndex(u, T)
  BY <1>2 DEF LatestIndex
<1>6. \A u : Includable(u)' = Includable(u) /\ PolicyExcluded(u)' = PolicyExcluded(u)
  BY <1>4, <1>5 DEF Includable, PolicyExcluded, IncludedStatuses, BlockedStatuses
<1> QED
  BY <1>1, <1>3, <1>4, <1>6 DEF IncludableCaptures, ExcludedCaptures

(* The row a capture is marked with counts unless its source was cut.      *)
LEMMA MarkedRows ==
  ASSUME TypeOK, NEW u, EveryRowOf(u) # {}, NEW r \in Records, MarkOf(r, u),
         registry' = WithStatus(u), NEW k, k = Len(registry) + 1
  PROVE  /\ \A v : v # u => /\ RowsOf(v)' = RowsOf(v) /\ EveryRowOf(v)' = EveryRowOf(v)
                            /\ SourceCut(v)' <=> SourceCut(v)
         /\ RowsOf(u)' = RowsOf(u) \cup (IF r.source THEN {k} ELSE {})
         /\ \A n \in DOMAIN registry : n \in Nat /\ n < k /\ registry'[n] = registry[n]
         /\ registry'[k] = r /\ k \in Nat /\ k \in DOMAIN registry'
         /\ SourceCut(u)' <=> SourceCut(u)
         /\ ~r.source => SourceCut(u)
<1>1. registry' = Append(registry, r) /\ r.uid = u
      /\ r.source = registry[MaxOf(EveryRowOf(u))].source
  BY DEF MarkOf
<1>2. /\ DOMAIN registry' = DOMAIN registry \cup {k} /\ k \in Nat
      /\ \A n \in DOMAIN registry : n \in Nat /\ n < k /\ registry'[n] = registry[n]
      /\ registry'[k] = r
  BY <1>1, RegistryRows, RowAppended
<1>3. MaxOf(EveryRowOf(u)) \in EveryRowOf(u)
  BY LatestOfEvery DEF EveryRowOf
<1>4. ~r.source => SourceCut(u)
  BY <1>1, <1>3 DEF SourceCut
<1>5. EveryRowOf(u)' = EveryRowOf(u) \cup {k}
  BY <1>1, <1>2 DEF EveryRowOf
<1>6. SourceCut(u)' <=> SourceCut(u)
  <2>1. \A n \in EveryRowOf(u) : registry'[n] = registry[n]
    BY <1>2 DEF EveryRowOf
  <2>2. SourceCut(u) => SourceCut(u)'
    BY <1>5, <2>1 DEF SourceCut
  <2>3. SourceCut(u)' => SourceCut(u)
    BY <1>2, <1>4, <1>5, <2>1 DEF SourceCut
  <2> QED
    BY <2>2, <2>3
<1>7. RowsOf(u)' = RowsOf(u) \cup (IF r.source THEN {k} ELSE {})
  <2>1. CASE r.source
    BY <1>1, <1>2, <2>1 DEF RowsOf, SourceRows
  <2>2. CASE ~r.source
    BY <1>1, <1>2, <2>2 DEF RowsOf, SourceRows
  <2> QED
    BY <2>1, <2>2
<1>8. ASSUME NEW v, v # u
      PROVE  /\ RowsOf(v)' = RowsOf(v) /\ EveryRowOf(v)' = EveryRowOf(v)
             /\ SourceCut(v)' <=> SourceCut(v)
  <2>1. RowsOf(v)' = RowsOf(v) /\ EveryRowOf(v)' = EveryRowOf(v)
    BY <1>1, <1>2, <1>8 DEF RowsOf, EveryRowOf, SourceRows
  <2>2. \A n \in EveryRowOf(v) : registry'[n] = registry[n]
    BY <1>2 DEF EveryRowOf
  <2> QED
    BY <2>1, <2>2 DEF SourceCut
<1> QED
  BY <1>2, <1>4, <1>6, <1>7, <1>8

(* A verdict is the latest status of its capture and leaves the capture in *)
(* its group.                                                              *)
LEMMA VerdictKeepsGroup ==
  ASSUME TypeOK, NEW u \in Registered, NEW k \in Nat, \A n \in RowsOf(u) : n < k,
         RowsOf(u)' = RowsOf(u) \cup {k}, \A n \in RowsOf(u) : registry'[n] = registry[n],
         registry'[k].status \in {"assembly_included", "assembly_excluded"},
         registry'[k].status = "assembly_included" => Includable(u),
         Includable(u) \/ PolicyExcluded(u)
  PROVE  /\ LatestStatus(u)' = registry'[k].status
         /\ Includable(u)' <=> Includable(u)
         /\ ~Includable(u) => PolicyExcluded(u)'
<1> DEFINE L == MaxOf(RowsOf(u))
           I == LatestIndex(u, IncludedStatuses)
           B == LatestIndex(u, BlockedStatuses)
<1>1. /\ L \in RowsOf(u) /\ registry[L].status = LatestStatus(u)
      /\ \A m \in RowsOf(u) : m \in Nat /\ m # 0 /\ m <= L
      /\ I \in Nat /\ \A n \in RowsOf(u) : registry[n].status \in IncludedStatuses => n <= I
      /\ I # 0 => I \in RowsOf(u) /\ registry[I].status \in IncludedStatuses
      /\ B \in Nat /\ \A n \in RowsOf(u) : registry[n].status \in BlockedStatuses => n <= B
      /\ B # 0 => B \in RowsOf(u) /\ registry[B].status \in BlockedStatuses
      /\ Includable(u) <=> \/ LatestStatus(u) \in IncludedStatuses
                           \/ LatestStatus(u) = "assembly_excluded" /\ I > B
      /\ PolicyExcluded(u) <=> LatestStatus(u) \in BlockedStatuses \/ B > I
  BY SortingReads
<1>2. MaxOf(RowsOf(u)') = k
  <2>1. RowsOf(u)' \in SUBSET Nat /\ k \in RowsOf(u)' /\ \A m \in RowsOf(u)' : m <= k
    BY <1>1
  <2> QED
    BY <2>1, MaxOfIs
<1>3. LatestStatus(u)' = registry'[k].status
  BY <1>2 DEF LatestStatus
<1>4. LatestIndex(u, BlockedStatuses)' = B
  <2>1. {n \in RowsOf(u)' : registry'[n].status \in BlockedStatuses}
          = {n \in RowsOf(u) : registry[n].status \in BlockedStatuses}
    BY DEF BlockedStatuses
  <2> QED
    BY <2>1 DEF LatestIndex, BlockedStatuses
<1>5. registry'[k].status = "assembly_excluded" => LatestIndex(u, IncludedStatuses)' = I
  <2> SUFFICES ASSUME registry'[k].status = "assembly_excluded"
               PROVE  LatestIndex(u, IncludedStatuses)' = I
    OBVIOUS
  <2>1. {n \in RowsOf(u)' : registry'[n].status \in IncludedStatuses}
          = {n \in RowsOf(u) : registry[n].status \in IncludedStatuses}
    BY DEF IncludedStatuses
  <2> QED
    BY <2>1 DEF LatestIndex, IncludedStatuses
<1>6. /\ Includable(u)' <=> \/ LatestStatus(u)' \in IncludedStatuses
                            \/ /\ LatestStatus(u)' = "assembly_excluded"
                               /\ LatestIndex(u, IncludedStatuses)' > LatestIndex(u, BlockedStatuses)'
      /\ PolicyExcluded(u)' <=>
           \/ LatestStatus(u)' \in BlockedStatuses
           \/ LatestIndex(u, BlockedStatuses)' > LatestIndex(u, IncludedStatuses)'
  BY DEF Includable, PolicyExcluded, IncludedStatuses, BlockedStatuses
<1>7. ASSUME LatestStatus(u) \in IncludedStatuses PROVE I > B
  <2>1. L <= I /\ L \in Nat /\ L # 0 /\ B # L
    BY <1>1, <1>7 DEF IncludedStatuses, BlockedStatuses
  <2>2. B < L
    BY <1>1, <2>1
  <2> QED
    BY <1>1, <2>1, <2>2
<1>8. ASSUME LatestStatus(u) \in BlockedStatuses PROVE B > I
  <2>1. L <= B /\ L \in Nat /\ L # 0 /\ I # L
    BY <1>1, <1>8 DEF IncludedStatuses, BlockedStatuses
  <2>2. I < L
    BY <1>1, <2>1
  <2> QED
    BY <1>1, <2>1, <2>2
<1> HIDE DEF L, I, B
<1>9. Includable(u) => I > B
  BY <1>1, <1>7
<1>10. ~Includable(u) => B > I
  BY <1>1, <1>8
<1>11. CASE registry'[k].status = "assembly_included"
  BY <1>3, <1>6, <1>11 DEF IncludedStatuses
<1>12. CASE registry'[k].status = "assembly_excluded"
  <2>1. Includable(u)' <=> I > B
    BY <1>3, <1>4, <1>5, <1>6, <1>12 DEF IncludedStatuses
  <2>2. PolicyExcluded(u)' <=> B > I
    BY <1>3, <1>4, <1>5, <1>6, <1>12 DEF BlockedStatuses
  <2>3. ~(I > B /\ B > I)
    BY <1>1 DEF I, B
  <2> QED
    BY <1>3, <1>9, <1>10, <2>1, <2>2, <2>3
<1> QED
  BY <1>11, <1>12

LEMMA MarkedSorting ==
  ASSUME TypeOK, RegistrySound, WorkHasRoot, SortedAsBefore, AppendCaptureStatus, Assembling,
         NEW u, u = NextToMark
  PROVE  /\ u \in Registered
         /\ IncludableCaptures' = IncludableCaptures /\ ExcludedCaptures' = ExcludedCaptures
         /\ \A v : SourceCut(v)' <=> SourceCut(v)
         /\ ~SourceCut(u) => LatestStatus(u)' = RequestedStatus(u)
         /\ \A v \in Registered : v # u => LatestStatus(v)' = LatestStatus(v)
<1> DEFINE k == Len(registry) + 1
<1>1. /\ u \in job.todo /\ registry' = WithStatus(u) /\ job.op = "assemble"
      /\ pc = "record" /\ job.todo # {}
  BY MarkedJob DEF AppendCaptureStatus, Assembling
<1>2. u \in Registered /\ (Includable(u) \/ PolicyExcluded(u))
      /\ (u \in job.included => Includable(u))
  BY <1>1 DEF SortedAsBefore, IncludableCaptures, ExcludedCaptures
<1>3. EveryRowOf(u) # {}
  BY <1>2, RowsAreVisible
<1>4. PICK r \in Records : MarkOf(r, u)
  BY <1>1, <1>3, MarkFollows
<1>5. r.status = RequestedStatus(u)
  BY <1>1, <1>3, <1>4, MarkedStatus DEF MarkOf, RegistrySound
<1>6. /\ r.status \in {"assembly_included", "assembly_excluded"}
      /\ r.status = "assembly_included" => Includable(u)
  BY <1>1, <1>2, <1>5 DEF RequestedStatus
<1>7. /\ \A v : v # u => /\ RowsOf(v)' = RowsOf(v) /\ EveryRowOf(v)' = EveryRowOf(v)
                         /\ SourceCut(v)' <=> SourceCut(v)
      /\ RowsOf(u)' = RowsOf(u) \cup (IF r.source THEN {k} ELSE {})
      /\ \A n \in DOMAIN registry : n \in Nat /\ n < k /\ registry'[n] = registry[n]
      /\ registry'[k] = r /\ k \in Nat /\ k \in DOMAIN registry'
      /\ SourceCut(u)' <=> SourceCut(u)
      /\ ~r.source => SourceCut(u)
  BY <1>1, <1>3, <1>4, MarkedRows
<1>8. \A v : \A n \in RowsOf(v) : n \in Nat /\ n < k /\ registry'[n] = registry[n]
  BY <1>7, RowsAreVisible
<1> HIDE DEF k
<1>9. \A v \in Registered : v # u =>
        /\ LatestStatus(v)' = LatestStatus(v)
        /\ Includable(v)' <=> Includable(v)
        /\ PolicyExcluded(v)' <=> PolicyExcluded(v)
  BY <1>7, <1>8, SameRowsSameSorting
<1>10. /\ Includable(u)' <=> Includable(u)
       /\ ~Includable(u) => PolicyExcluded(u)'
       /\ r.source => LatestStatus(u)' = r.status
  <2>1. CASE r.source
    BY <1>2, <1>6, <1>7, <1>8, <2>1, VerdictKeepsGroup
  <2>2. CASE ~r.source
    <3>1. RowsOf(u)' = RowsOf(u)
      BY <1>7, <2>2
    <3> QED
      BY <1>2, <1>8, <2>2, <3>1, SameRowsSameSorting
  <2> QED
    BY <2>1, <2>2
<1>11. Registered' = Registered
  <2>1. \A v : v \in Registered' <=> RowsOf(v)' # {}
    BY DEF Registered, RowsOf, SourceRows
  <2>2. \A v : v \in Registered <=> RowsOf(v) # {}
    BY RowsAreVisible
  <2>3. \A v : RowsOf(v)' # {} <=> RowsOf(v) # {}
    BY <1>2, <1>7, <2>2
  <2> QED
    BY <2>1, <2>2, <2>3
<1>12. IncludableCaptures' = IncludableCaptures
  BY <1>9, <1>10, <1>11 DEF IncludableCaptures
<1>13. ExcludedCaptures' = ExcludedCaptures
  <2>1. \A v \in Registered :
          (PolicyExcluded(v)' /\ ~Includable(v)') <=> (PolicyExcluded(v) /\ ~Includable(v))
    BY <1>2, <1>9, <1>10
  <2> QED
    BY <1>11, <2>1 DEF ExcludedCaptures
<1> QED
  BY <1>2, <1>5, <1>7, <1>9, <1>10, <1>12, <1>13

-----------------------------------------------------------------------------
(* The invariant of the registry is inductive. *)

LEMMA HistoryInit == Init => HistoryInv
<1> SUFFICES ASSUME Init PROVE HistoryInv
  OBVIOUS
<1>1. registry \in Seq(Records) /\ DOMAIN registry = {}
  BY DEF Init
<1>2. NoInventory \in Inventories
  BY DEF Inventories, NoInventory, SourceStatuses
<1>3. 0 \in 0 .. MaxCaptures /\ 0 \in 0 .. MaxMishaps
  BY LifecycleBounds
<1>4. TypeOK
  BY <1>1, <1>2, <1>3 DEF Init, TypeOK, Records, OutputStates, Inventories
<1>5. JobFits /\ ApplyIsNew /\ WorkHasRoot /\ SortedAsBefore
  BY DEF Init, JobFits, Applying, Assembling, ApplyIsNew, WorkHasRoot, SortedAsBefore
<1>6. RegistrySound
  BY <1>1 DEF Init, RegistrySound, RootsIssued, SoundRows, RowsIssued, HiddenStays,
              StatusesAdvance, IncludedWasNormalized, NormalizedHasRoot, PrintIsOfRoot,
              RepeatsHaveNoRoot
<1> QED
  BY <1>4, <1>5, <1>6 DEF HistoryInv

(* Intake: a new uid is above every registered one, and a drop is copied   *)
(* only when no row that counts has its fingerprint.                       *)
LEMMA HistoryStartApply ==
  ASSUME HistoryInv, NEW d \in Drops, StartApply(d)
  PROVE  HistoryInv'
<1>1. TypeOK' /\ JobFits' /\ TypeOK
  BY ApplyTyped DEF HistoryInv
<1>2. issued \in Nat /\ \A n \in DOMAIN registry : registry[n].uid \in Nat
  BY <1>1, RegistryRows, RowsOfList DEF TypeOK
<1>3. /\ issued' = issued + 1 /\ job'.uid = issued + 1 /\ job'.drop = d
      /\ pc' = IF CaptureStatus(d) = "duplicate_blocked" THEN "register" ELSE "copy"
      /\ UNCHANGED << registry, roots, contents >>
  BY DEF StartApply
<1>4. \A n \in DOMAIN registry : registry[n].uid <= issued
  BY DEF HistoryInv, RegistrySound, SoundRows, RowsIssued
<1>5. \A n \in DOMAIN registry : registry[n].uid <= issued + 1 /\ registry[n].uid # issued + 1
  BY <1>2, <1>4
<1>6. RegistrySound'
  <2>1. \A u \in Uids : u > issued + 1 => u > issued
    BY <1>2, LifecycleBounds DEF Uids
  <2>2. RootsIssued'
    BY <1>3, <2>1 DEF HistoryInv, RegistrySound, RootsIssued
  <2>3. RowsIssued(registry)'
    BY <1>3, <1>5 DEF RowsIssued
  <2> QED
    BY <1>3, <2>2, <2>3
    DEF HistoryInv, RegistrySound, SoundRows, HiddenStays, StatusesAdvance, CutBetween,
        IncludedWasNormalized, NormalizedBefore, NormalizedHasRoot, PrintIsOfRoot,
        RepeatsHaveNoRoot
<1>7. CaptureStatus(d) # "duplicate_blocked" =>
        \A n \in SourceRows : registry[n].print # d.print
  BY DEF CaptureStatus
<1>8. roots[issued + 1] = "absent"
  <2>1. issued + 1 \in Uids /\ issued + 1 > issued
    BY <1>2, LifecycleBounds DEF StartApply, Uids
  <2> QED
    BY <2>1 DEF HistoryInv, RegistrySound, RootsIssued
<1>9. SourceRows' = SourceRows
  BY <1>3, SortingUnchanged
<1>10. ApplyIsNew'
  BY <1>3, <1>5, <1>7, <1>8, <1>9 DEF ApplyIsNew, Applying
<1>11. WorkHasRoot' /\ SortedAsBefore'
  BY <1>3 DEF WorkHasRoot, SortedAsBefore, Assembling
<1> QED
  BY <1>1, <1>6, <1>10, <1>11 DEF HistoryInv

(* Copying: only the new capture's root changes, and no earlier row that   *)
(* counts has the fingerprint of what is copied.                           *)
LEMMA HistoryCopy ==
  ASSUME HistoryInv, CopyFiles \/ WriteCaptureMetadata
  PROVE  HistoryInv'
<1>1. TypeOK' /\ JobFits' /\ TypeOK
  BY ApplyTyped DEF HistoryInv
<1>2. /\ issued \in Nat
      /\ \A n \in DOMAIN registry : registry[n].uid \in Uids /\ registry[n].uid \in Nat
  BY <1>1, RegistryRows, RowsOfList DEF TypeOK
<1>3. /\ pc \in {"copy", "metadata"} /\ pc' \in {"metadata", "register"}
      /\ UNCHANGED << registry, issued, job >>
      /\ \/ /\ roots' = [roots EXCEPT ![job.uid] = "files"]
            /\ contents' = [contents EXCEPT ![job.uid] = job.drop]
         \/ /\ pc = "metadata"
            /\ roots' = [roots EXCEPT ![job.uid] = "complete"] /\ contents' = contents
  BY DEF CopyFiles, WriteCaptureMetadata
<1>4. /\ job.uid = issued /\ job \in ApplyJobs
      /\ \A n \in DOMAIN registry : registry[n].uid # issued
      /\ \A n \in SourceRows : registry[n].print # job.drop.print
      /\ pc = "metadata" => contents[issued] = job.drop
  BY <1>3 DEF HistoryInv, ApplyIsNew, Applying, JobFits
<1>5. job.uid \in Uids
  BY <1>4, ApplyJobFields
<1>6. \A u \in Uids : u # issued => roots'[u] = roots[u] /\ contents'[u] = contents[u]
  BY <1>1, <1>3, <1>4 DEF TypeOK
<1>7. \A n \in DOMAIN registry : /\ roots'[registry[n].uid] = roots[registry[n].uid]
                                 /\ contents'[registry[n].uid] = contents[registry[n].uid]
  BY <1>2, <1>4, <1>6
<1>8. RootsIssued'
  <2>1. \A u \in Uids : u > issued => u # issued
    BY <1>2
  <2> QED
    BY <1>3, <1>6, <2>1 DEF HistoryInv, RegistrySound, RootsIssued
<1>9. contents'[issued] = job.drop
  BY <1>1, <1>3, <1>4, <1>5 DEF TypeOK
<1>10. ApplyIsNew'
  <2>1. SourceRows' = SourceRows
    BY <1>3, SortingUnchanged
  <2> QED
    BY <1>3, <1>4, <1>9, <2>1 DEF ApplyIsNew, Applying
<1>11. RowsIssued(registry)' /\ HiddenStays(registry)' /\ StatusesAdvance(registry)'
       /\ IncludedWasNormalized(registry)'
  BY <1>3 DEF HistoryInv, RegistrySound, SoundRows, RowsIssued, HiddenStays, StatusesAdvance,
              CutBetween, IncludedWasNormalized, NormalizedBefore
<1>12. NormalizedHasRoot(registry)' /\ PrintIsOfRoot(registry)'
  BY <1>3, <1>7 DEF HistoryInv, RegistrySound, SoundRows, NormalizedHasRoot, PrintIsOfRoot
<1>13. RepeatsHaveNoRoot(registry)'
  <2> SUFFICES ASSUME NEW n \in DOMAIN registry, NEW v \in Uids, registry[n].source,
                      registry[n].uid < v, registry[n].print # NoPrint, roots'[v] = "complete"
               PROVE  registry[n].print # contents'[v].print
    BY <1>3 DEF RepeatsHaveNoRoot
  <2>1. CASE v = issued
    BY <1>4, <1>9, <2>1 DEF SourceRows
  <2>2. CASE v # issued
    BY <1>6, <2>2 DEF HistoryInv, RegistrySound, SoundRows, RepeatsHaveNoRoot
  <2> QED
    BY <2>1, <2>2
<1>14. WorkHasRoot' /\ SortedAsBefore'
  BY <1>3 DEF WorkHasRoot, SortedAsBefore, Assembling
<1> QED
  BY <1>1, <1>8, <1>10, <1>11, <1>12, <1>13, <1>14 DEF HistoryInv, RegistrySound, SoundRows

LEMMA HistoryRegister ==
  ASSUME HistoryInv, AppendCaptureRecord
  PROVE  HistoryInv'
<1>1. TypeOK' /\ JobFits'
  BY ApplyTyped DEF HistoryInv
<1>2. RegistrySound'
  BY SoundRegistered DEF HistoryInv
<1>3. job.op = "apply" /\ job' = job /\ pc' = "record"
  BY ApplyJobFields DEF AppendCaptureRecord, HistoryInv, JobFits, Applying
<1>4. ApplyIsNew' /\ WorkHasRoot' /\ SortedAsBefore'
  BY <1>3 DEF ApplyIsNew, Applying, WorkHasRoot, SortedAsBefore, Assembling
<1> QED
  BY <1>1, <1>2, <1>4 DEF HistoryInv

(* Profile and normalize begin on a complete root.                         *)
LEMMA HistoryWork ==
  ASSUME HistoryInv,
         (\E u \in Uids : StartProfile(u) \/ StartNormalize(u) \/ RemoveOutput(u))
         \/ WriteMirrors \/ NormalizeRaises
  PROVE  HistoryInv'
<1>1. TypeOK' /\ JobFits' /\ TypeOK /\ JobFits
  BY WorkTyped DEF HistoryInv
<1>2. RegistrySound'
  <2>1. UNCHANGED << registry, roots, contents, issued >>
    BY DEF StartProfile, StartNormalize, RemoveOutput, WriteMirrors, NormalizeRaises
  <2> QED
    BY <2>1, SoundUnchanged DEF HistoryInv
<1>3. WorkHasRoot'
  <2>1. ASSUME NEW u \in Uids, StartProfile(u) \/ StartNormalize(u) PROVE WorkHasRoot'
    <3>1. job'.todo = {u} /\ roots'[u] = "complete"
      BY <2>1 DEF StartProfile, StartNormalize
    <3> QED
      BY <3>1 DEF WorkHasRoot
  <2>2. ASSUME NEW u \in Uids, RemoveOutput(u) PROVE WorkHasRoot'
    BY <2>2 DEF RemoveOutput, Idle, WorkHasRoot
  <2>3. CASE WriteMirrors
    BY <2>3 DEF WriteMirrors, HistoryInv, WorkHasRoot
  <2>4. CASE NormalizeRaises
    BY <2>4 DEF NormalizeRaises, WorkHasRoot
  <2> QED
    BY <2>1, <2>2, <2>3, <2>4
<1>4. ~Applying' /\ ~Assembling'
  <2>1. ASSUME NEW u \in Uids, StartProfile(u) \/ StartNormalize(u) \/ RemoveOutput(u)
        PROVE  ~Applying' /\ ~Assembling'
    BY <2>1 DEF StartProfile, StartNormalize, RemoveOutput, Idle, Applying, Assembling
  <2>2. CASE WriteMirrors
    <3>1. job.op = "normalize"
      BY <1>1, <2>2 DEF WriteMirrors, JobFits, NormalizeJobs
    <3> QED
      BY <2>2, <3>1 DEF WriteMirrors, Applying, Assembling
  <2>3. CASE NormalizeRaises
    BY <2>3 DEF NormalizeRaises, Applying, Assembling
  <2> QED
    BY <2>1, <2>2, <2>3
<1> QED
  BY <1>1, <1>2, <1>3, <1>4 DEF HistoryInv, ApplyIsNew, SortedAsBefore

(* What the sorting reads does not change while the registry does not.     *)
(* Assembly sorts by the rules, and Merge writes what it included.           *)
LEMMA HistoryAssemble ==
  ASSUME HistoryInv,
         StartAssemble \/ RemoveGenerated \/ Merge \/ MergeRaises \/ WriteAssemblySummary
  PROVE  HistoryInv'
<1>1. TypeOK' /\ JobFits' /\ TypeOK /\ JobFits
  BY AssembleTyped DEF HistoryInv
<1>2. UNCHANGED << registry, roots, contents, issued >>
  BY DEF StartAssemble, RemoveGenerated, Merge, MergeRaises, WriteAssemblySummary
<1>3. RegistrySound'
  BY <1>2, SoundUnchanged DEF HistoryInv
<1>4. IncludableCaptures' = IncludableCaptures /\ ExcludedCaptures' = ExcludedCaptures
  BY <1>2, SortingUnchanged
<1>5. ASSUME StartAssemble PROVE SortedAsBefore'
  <2>1. /\ job'.included = IncludableCaptures
        /\ job'.excluded = {u \in Registered \ job'.included : PolicyExcluded(u)}
        /\ job'.missing \subseteq job'.included
        /\ job'.todo = job'.included \cup job'.excluded
        /\ pc' = "remove"
    BY <1>5 DEF StartAssemble, IncludableCaptures
  <2>2. job'.excluded = ExcludedCaptures
    BY <2>1 DEF IncludableCaptures, ExcludedCaptures
  <2> QED
    BY <1>4, <2>1, <2>2 DEF SortedAsBefore
<1>6. ASSUME RemoveGenerated \/ Merge \/ WriteAssemblySummary PROVE SortedAsBefore'
  <2>1. Assembling /\ job' = job /\ job \in AssembleJobs
    BY <1>1, <1>6 DEF RemoveGenerated, Merge, WriteAssemblySummary, Assembling, JobFits
  <2>2. pc' \in {"summary", "record", "done"} =>
          dataset' \in [job.included \ job.missing -> OutputStates]
    <3>1. CASE RemoveGenerated
      BY <3>1 DEF RemoveGenerated
    <3>2. CASE Merge
      <4>1. \A u \in job.included \ job.missing : outputs[u] \in OutputStates
        BY <1>1, <2>1, AssembleJobFields DEF TypeOK
      <4> QED
        BY <3>2, <4>1 DEF Merge
    <3>3. CASE WriteAssemblySummary
      BY <3>3, <2>1 DEF WriteAssemblySummary, HistoryInv, SortedAsBefore
    <3> QED
      BY <1>6, <3>1, <3>2, <3>3
  <2> QED
    BY <2>1, <2>2, <1>4 DEF HistoryInv, SortedAsBefore
<1>7. ASSUME MergeRaises PROVE SortedAsBefore'
  BY <1>7 DEF MergeRaises, SortedAsBefore, Assembling
<1>8. ApplyIsNew'
  BY DEF StartAssemble, RemoveGenerated, Merge, MergeRaises, WriteAssemblySummary, ApplyIsNew,
         Applying
<1>9. WorkHasRoot'
  <2>1. CASE WriteAssemblySummary
    <3>1. job.op = "assemble" /\ job' = job
      BY <1>1, <2>1, AssembleJobFields DEF WriteAssemblySummary, JobFits
    <3> QED
      BY <3>1 DEF WorkHasRoot
  <2>2. CASE ~WriteAssemblySummary
    BY <2>2 DEF StartAssemble, RemoveGenerated, Merge, MergeRaises, WorkHasRoot
  <2> QED
    BY <2>1, <2>2
<1> QED
  BY <1>1, <1>3, <1>5, <1>6, <1>7, <1>8, <1>9 DEF HistoryInv

(* The tail of a command keeps the sorting the assembly began with.        *)
LEMMA HistoryTail ==
  ASSUME HistoryInv,
         AppendCaptureStatus \/ UpdateSourceInventory \/ InventoryRaises \/ EndCommand
  PROVE  HistoryInv'
<1>1. TypeOK' /\ JobFits' /\ TypeOK /\ JobFits
  BY TailTyped DEF HistoryInv
<1>2. ApplyIsNew'
  BY DEF AppendCaptureStatus, UpdateSourceInventory, InventoryRaises, EndCommand, ApplyIsNew,
         Applying
<1>3. CASE AppendCaptureStatus
  <2>1. RegistrySound'
    BY <1>3, SoundMarked DEF HistoryInv
  <2>2. /\ job'.op = job.op /\ job'.todo \subseteq job.todo /\ pc = "record"
        /\ UNCHANGED << roots, dataset, pc >>
    BY <1>1, <1>3, MarkedJob DEF AppendCaptureStatus
  <2>3. WorkHasRoot'
    BY <2>2 DEF HistoryInv, WorkHasRoot
  <2>4. ASSUME Assembling' PROVE SortedAsBefore'
    <3>1. Assembling /\ job \in AssembleJobs
      BY <1>1, <1>3, <2>2, <2>4, MarkedJob, JobKinds DEF Assembling
    <3>2. /\ job'.included = job.included /\ job'.excluded = job.excluded
          /\ job'.missing = job.missing
      BY <1>1, <1>3, <3>1, MarkedJob DEF AssembleJobs
    <3>3. IncludableCaptures' = IncludableCaptures /\ ExcludedCaptures' = ExcludedCaptures
      BY <1>3, <3>1, MarkedSorting DEF HistoryInv
    <3> QED
      BY <2>2, <3>1, <3>2, <3>3 DEF HistoryInv, SortedAsBefore
  <2> QED
    BY <1>1, <1>2, <2>1, <2>3, <2>4 DEF HistoryInv, SortedAsBefore
<1>4. CASE UpdateSourceInventory
  <2>1. /\ pc = "record" /\ pc' = "done"
        /\ UNCHANGED << registry, roots, contents, dataset, issued, job >>
    BY <1>4 DEF UpdateSourceInventory
  <2>2. RegistrySound'
    BY <2>1, SoundUnchanged DEF HistoryInv
  <2>3. WorkHasRoot'
    BY <2>1 DEF HistoryInv, WorkHasRoot
  <2>4. IncludableCaptures' = IncludableCaptures /\ ExcludedCaptures' = ExcludedCaptures
    BY <2>1, SortingUnchanged
  <2>5. SortedAsBefore'
    BY <2>1, <2>4 DEF HistoryInv, SortedAsBefore, Assembling
  <2> QED
    BY <1>1, <1>2, <2>2, <2>3, <2>5 DEF HistoryInv
<1>5. CASE InventoryRaises \/ EndCommand
  <2>1. pc' = "idle" /\ UNCHANGED << registry, roots, contents, issued >>
    BY <1>5 DEF InventoryRaises, EndCommand
  <2>2. RegistrySound'
    BY <2>1, SoundUnchanged DEF HistoryInv
  <2> QED
    BY <1>1, <1>2, <2>1, <2>2 DEF HistoryInv, WorkHasRoot, SortedAsBefore, Assembling
<1> QED
  BY <1>3, <1>4, <1>5

(* A crash leaves sound rows and no running command.                       *)
LEMMA HistoryCrash ==
  ASSUME HistoryInv, Crash
  PROVE  HistoryInv'
<1>1. TypeOK' /\ JobFits' /\ pc' = "idle" /\ UNCHANGED << roots, contents, issued >>
  BY CrashTyped DEF HistoryInv
<1>2. registry' = registry \/ CrashWritingRegistry
  BY DEF Crash, CrashBetweenSteps, CrashWritingInventory, CrashWritingMirrors, CrashAssembling
<1>3. RegistrySound'
  BY <1>1, <1>2, SoundUnchanged, SoundCrashed DEF HistoryInv
<1> QED
  BY <1>1, <1>3
  DEF HistoryInv, ApplyIsNew, Applying, WorkHasRoot, SortedAsBefore, Assembling

LEMMA HistoryStep == HistoryInv /\ [Next]_vars => HistoryInv'
<1> SUFFICES ASSUME HistoryInv, [Next]_vars PROVE HistoryInv'
  OBVIOUS
<1>1. CASE UNCHANGED vars
  <2>1. UNCHANGED registry
    BY <1>1 DEF vars
  <2>2. /\ IncludableCaptures' = IncludableCaptures /\ ExcludedCaptures' = ExcludedCaptures
        /\ SourceRows' = SourceRows
    BY <2>1, SortingUnchanged
  <2>3. TypeOK'
    BY <1>1 DEF HistoryInv, TypeOK, vars
  <2>4. JobFits' /\ ApplyIsNew' /\ WorkHasRoot'
    BY <1>1, <2>2 DEF HistoryInv, JobFits, Applying, ApplyIsNew, WorkHasRoot, vars
  <2>5. SortedAsBefore'
    BY <1>1, <2>2 DEF HistoryInv, SortedAsBefore, Assembling, vars
  <2>6. RegistrySound'
    BY <1>1, SoundUnchanged DEF HistoryInv, vars
  <2> QED
    BY <2>3, <2>4, <2>5, <2>6 DEF HistoryInv
<1>2. CASE Next
  BY <1>2, HistoryStartApply, HistoryCopy, HistoryRegister, HistoryWork, HistoryAssemble,
     HistoryTail, HistoryCrash
  DEF Next, CommandStep
<1> QED
  BY <1>1, <1>2

(* HistoryInv holds in every state of the program.                         *)
THEOREM HistoryHolds == Spec => []HistoryInv
BY HistoryInit, HistoryStep, PTL DEF Spec

-----------------------------------------------------------------------------
(* The theorems. *)

(* Type correctness: rows, roots and outputs are of captures that were     *)
(* attempted, and the running command carries one of the four jobs.        *)
THEOREM LifecycleTypeCorrect == Spec => []TypeOK
<1>1. HistoryInv => TypeOK
  BY DEF HistoryInv
<1> QED
  BY <1>1, HistoryHolds, PTL

(* Whatever is profiled, normalized, assembled or removed afterwards, and  *)
(* wherever crashes end or cut the registry, a capture with a normalized   *)
(* row is includable and policy does not exclude it, unless a row of its   *)
(* own was cut in the status.                                              *)
THEOREM NormalizedIsNeverExcluded == Spec => []NormalizedStaysIncludable
<1>1. HistoryInv => NormalizedStaysIncludable
  BY SoundIsIncludable DEF HistoryInv, RegistrySound
<1> QED
  BY <1>1, HistoryHolds, PTL

(* A finished assembly merged only normalized captures, and of two whose   *)
(* roots hold one drop the first has no row left that tells its            *)
(* fingerprint: while it had one, the second was not copied.               *)
THEOREM NoDropCountsTwice == Spec => []NoDoubleCount
<1>1. HistoryInv => NoDoubleCount
  <2> SUFFICES ASSUME HistoryInv, pc = "done", job.op = "assemble",
                      NEW u \in DOMAIN dataset, NEW v \in DOMAIN dataset
               PROVE  /\ "normalized" \in StatusesOf(u)
                      /\ u < v /\ contents[u].print = contents[v].print => PrintsOf(u) = {}
    BY DEF NoDoubleCount
  <2>1. /\ DOMAIN dataset = job.included \ job.missing
        /\ job.included = IncludableCaptures
        /\ TypeOK /\ SoundRows(registry)
    BY DEF HistoryInv, SortedAsBefore, Assembling, RegistrySound
  <2>2. ASSUME NEW w \in DOMAIN dataset
        PROVE  w \in Uids /\ "normalized" \in StatusesOf(w) /\ roots[w] = "complete"
    <3>1. w \in Registered /\ Includable(w)
      BY <2>1 DEF IncludableCaptures
    <3>2. "normalized" \in StatusesOf(w)
      BY <2>1, <3>1, IncludableWasNormalized
    <3>3. PICK n \in RowsOf(w) : registry[n].status = "normalized"
      BY <3>2 DEF StatusesOf
    <3>4. roots[w] = "complete"
      BY <2>1, <3>3, RowsAreVisible DEF SoundRows, NormalizedHasRoot
    <3> QED
      BY <2>1, <3>1, <3>2, <3>4, RegistryRows
  <2>3. ASSUME u < v, contents[u].print = contents[v].print, PrintsOf(u) # {} PROVE FALSE
    <3>1. PICK n \in RowsOf(u) : registry[n].print # NoPrint
      BY <2>3 DEF PrintsOf
    <3>2. n \in DOMAIN registry /\ registry[n].uid = u /\ registry[n].source
      BY RowsAreVisible
    <3>3. registry[n].print = contents[u].print
      BY <2>1, <2>2, <3>1, <3>2 DEF SoundRows, PrintIsOfRoot
    <3> QED
      BY <2>1, <2>2, <2>3, <3>1, <3>2, <3>3 DEF SoundRows, RepeatsHaveNoRoot
  <2> QED
    BY <2>2, <2>3
<1> QED
  BY <1>1, HistoryHolds, PTL

-----------------------------------------------------------------------------
(* The ends of the commands.                                               *)

(* The captures an assembly has marked have the verdict it reports, if no  *)
(* cut row hides it, and the inventory of a finished one says whether      *)
(* anything was merged.                                                    *)
VerdictsAgree ==
  Assembling =>
    /\ job.request = [status |-> "unset",
                      present |-> IF job.included \ job.missing = {} THEN "no" ELSE "yes",
                      excluded |-> job.excluded \cup job.missing # {}]
    /\ \A u \in (job.included \cup job.excluded) \ job.todo :
         ~SourceCut(u) => LatestStatus(u) = RequestedStatus(u)

SummaryAgrees ==
  Assembling /\ pc \in {"record", "done"} =>
    summary = [included |-> job.included \ job.missing,
               excluded |-> job.excluded \cup job.missing, pending |-> job.pending]

InventorySays(inv, request) ==
  /\ inv.status = "assembled" <=> request.present = "yes"
  /\ inv.ref <=> request.present = "yes"
  /\ inv.assembly = "excluded" => request.excluded

InventoryFollows ==
  pc = "done" /\ job.op = "assemble" => InventorySays(inventory, job.request)

(* What holds of the inventory while no command has crashed.               *)
NoneTorn == crashes = 0 => \A u \in Uids : outputs[u] # "torn"

WholeRows == crashes = 0 => \A n \in DOMAIN registry : registry[n].source /\ registry[n].timed

RefIsAssembled == crashes = 0 => (inventory.ref <=> inventory.assembly = "assembled")

AssembledHasDataset ==
  crashes = 0 /\ inventory.status = "assembled" =>
    inventory.assembly = "assembled" /\ (pc # "merge" => dataset # Nothing)

NormalizedKnown ==
  crashes = 0 /\ (pc = "record" => job.op # "normalize") =>
    \A n \in DOMAIN registry :
      registry[n].status = "normalized" => inventory.status \in {"normalized", "assembled"}

ProfiledKnown ==
  crashes = 0 /\ (pc = "record" => job.op # "profile") =>
    \A n \in DOMAIN registry :
      registry[n].status = "profiled" =>
        inventory.status \in {"profiled", "normalized", "assembled"}

LifecycleInv ==
  /\ HistoryInv
  /\ VerdictsAgree /\ SummaryAgrees /\ InventoryFollows
  /\ NoneTorn /\ WholeRows /\ RefIsAssembled
  /\ AssembledHasDataset /\ NormalizedKnown /\ ProfiledKnown

-----------------------------------------------------------------------------
(* Reductions. *)

(* The status the capture history gives.                                   *)
LEMMA HistoryStatus ==
  /\ StatusFromHistory(FALSE) # "assembled"
  /\ StatusFromHistory(TRUE) = "assembled" =>
       \E n \in SourceRows : registry[n].status = "assembly_included"
  /\ \A n \in SourceRows :
       /\ registry[n].status = "normalized" => StatusFromHistory(FALSE) = "normalized"
       /\ registry[n].status = "profiled" =>
            StatusFromHistory(FALSE) \in {"profiled", "normalized"}
  /\ StatusFromHistory(FALSE) \in SourceStatuses /\ StatusFromHistory(TRUE) \in SourceStatuses
BY DEF StatusFromHistory, SourceStatuses

(* HigherStatus returns one of the two, and not the lower one.             *)
LEMMA HigherIsHigher ==
  ASSUME NEW s \in SourceStatuses, NEW t \in SourceStatuses
  PROVE  /\ HigherStatus(s, t) \in {s, t}
         /\ s \in {"normalized", "assembled"} \/ t \in {"normalized", "assembled"} =>
              HigherStatus(s, t) \in {"normalized", "assembled"}
         /\ s \in {"profiled", "normalized", "assembled"}
            \/ t \in {"profiled", "normalized", "assembled"} =>
              HigherStatus(s, t) \in {"profiled", "normalized", "assembled"}
BY DEF HigherStatus, Rank, SourceStatuses

(* A command that says whether output is present settles the row.          *)
LEMMA ReducedSays ==
  ASSUME TypeOK, NEW request, request.present \in {"yes", "no"}
  PROVE  InventorySays(Reduced(request), request)
<1>1. inventory.status \in SourceStatuses
  BY DEF TypeOK
<1>2. ReduceSourceStatus(inventory.status, request) = "assembled" <=> request.present = "yes"
  <2>1. CASE request.present = "yes"
    BY <2>1 DEF ReduceSourceStatus
  <2>2. CASE request.present = "no"
    <3>1. ReduceSourceStatus(inventory.status, request)
            = IF inventory.status = "assembled" THEN StatusFromHistory(FALSE)
              ELSE HigherStatus(inventory.status, StatusFromHistory(FALSE))
      BY <2>2 DEF ReduceSourceStatus
    <3>2. StatusFromHistory(FALSE) \in SourceStatuses /\ StatusFromHistory(FALSE) # "assembled"
      BY HistoryStatus
    <3>3. HigherStatus(inventory.status, StatusFromHistory(FALSE))
            \in {inventory.status, StatusFromHistory(FALSE)}
      BY <1>1, <3>2, HigherIsHigher
    <3>4. ReduceSourceStatus(inventory.status, request) # "assembled"
      BY <3>1, <3>2, <3>3
    <3> QED
      BY <2>2, <3>4
  <2> QED
    BY <2>1, <2>2
<1>3. ReduceAssemblyStatus(inventory.assembly, request) = "excluded" => request.excluded
  BY DEF ReduceAssemblyStatus
<1> QED
  BY <1>2, <1>3 DEF Reduced, InventorySays

(* References and "assembled" come and go together.                        *)
LEMMA ReducedRef ==
  ASSUME TypeOK, crashes = 0, RefIsAssembled, NEW request, request.present \in {"unset", "yes", "no"}
  PROVE  Reduced(request).ref <=> Reduced(request).assembly = "assembled"
BY DEF Reduced, ReduceAssemblyStatus, RefIsAssembled, TypeOK

(* The row of a source with a normalized or profiled capture says so, if   *)
(* the old row did or the command is the one that wrote that status.       *)
LEMMA ReducedKnows ==
  ASSUME HistoryInv, crashes = 0, WholeRows, NormalizedKnown, ProfiledKnown,
         UpdateSourceInventory
  PROVE  /\ \A n \in DOMAIN registry : registry[n].status = "normalized" =>
              Reduced(job.request).status \in {"normalized", "assembled"}
         /\ \A n \in DOMAIN registry : registry[n].status = "profiled" =>
              Reduced(job.request).status \in {"profiled", "normalized", "assembled"}
<1> DEFINE new == ReduceSourceStatus(inventory.status, job.request)
           old == inventory.status
           hasNormalized == \E n \in DOMAIN registry : registry[n].status = "normalized"
           hasProfiled == \E n \in DOMAIN registry : registry[n].status = "profiled"
<1>1. job \in Jobs /\ pc = "record" /\ TypeOK
  BY RunningHasJob DEF UpdateSourceInventory, HistoryInv
<1>2. Reduced(job.request).status = new
  BY DEF Reduced
<1>3. /\ job.op # "normalize" /\ hasNormalized => old \in {"normalized", "assembled"}
      /\ job.op # "profile" /\ hasProfiled => old \in {"profiled", "normalized", "assembled"}
  BY <1>1 DEF NormalizedKnown, ProfiledKnown
<1>4. /\ StatusFromHistory(FALSE) \in SourceStatuses
      /\ hasNormalized => StatusFromHistory(FALSE) = "normalized"
      /\ hasProfiled => StatusFromHistory(FALSE) \in {"profiled", "normalized"}
  <2>1. \A n \in DOMAIN registry : n \in SourceRows
    BY DEF WholeRows, SourceRows
  <2> QED
    BY <2>1, HistoryStatus
<1>5. old \in SourceStatuses
  BY <1>1 DEF TypeOK
<1> SUFFICES /\ hasNormalized => new \in {"normalized", "assembled"}
             /\ hasProfiled => new \in {"profiled", "normalized", "assembled"}
  BY <1>2
<1>6. CASE job.request.present = "yes"
  BY <1>6 DEF ReduceSourceStatus
<1>7. CASE job.request.present = "no"
  <2>1. new = IF old = "assembled" THEN StatusFromHistory(FALSE)
              ELSE HigherStatus(old, StatusFromHistory(FALSE))
    BY <1>7 DEF ReduceSourceStatus
  <2> QED
    BY <2>1, <1>4, <1>5, HigherIsHigher
<1>8. CASE job \in ProfileJobs \cup NormalizeJobs
  <2>1. /\ job.request.status \in SourceStatuses
        /\ \/ job.op = "profile" /\ job.request.status = "profiled"
           \/ job.op = "normalize" /\ job.request.status = "normalized"
        /\ job.request.present = "unset" /\ job.request.status # "unset"
    BY <1>8, WorkJobFields DEF StatusRequest, SourceStatuses
  <2>2. new = HigherStatus(old, job.request.status)
    BY <2>1 DEF ReduceSourceStatus
  <2> QED
    BY <2>1, <2>2, <1>3, <1>5, HigherIsHigher
<1>9. CASE job.request.present = "unset" /\ job.request.status = "unset"
            /\ job.op # "profile" /\ job.op # "normalize"
  <2>1. old \in {"profiled", "normalized", "assembled"} => new = old
    BY <1>9 DEF ReduceSourceStatus
  <2> QED
    BY <2>1, <1>3, <1>9
<1> QED
  BY <1>1, <1>6, <1>7, <1>8, <1>9, ApplyJobFields, AssembleJobFields DEF Jobs

(* A row that begins to say "assembled" says so of the assembly too, and a *)
(* dataset is there.                                                       *)
LEMMA ReducedAssembled ==
  ASSUME HistoryInv, crashes = 0, NormalizedKnown, AssembledHasDataset, UpdateSourceInventory,
         Reduced(job.request).status = "assembled"
  PROVE  Reduced(job.request).assembly = "assembled" /\ dataset # Nothing
<1> DEFINE old == inventory.status
<1>1. job \in Jobs /\ pc = "record" /\ TypeOK
  BY RunningHasJob DEF UpdateSourceInventory, HistoryInv
<1>2. ReduceSourceStatus(old, job.request) = "assembled"
  BY DEF Reduced
<1>3. old = "assembled" => inventory.assembly = "assembled" /\ dataset # Nothing
  BY <1>1 DEF AssembledHasDataset
<1>4. CASE job \in AssembleJobs
  <2>1. /\ job.op = "assemble" /\ job.request.present \in {"yes", "no"}
        /\ job.included \ job.missing \in SUBSET Uids
    BY <1>4, AssembleJobFields
  <2>2. job.request.present = "yes"
    BY <1>1, <1>2, <2>1, ReducedSays DEF InventorySays, Reduced
  <2>3. dataset \in [job.included \ job.missing -> OutputStates]
    BY <1>1, <2>1 DEF HistoryInv, SortedAsBefore, Assembling
  <2>4. dataset # Nothing
    BY <2>1, <2>3, NothingIsNothing
  <2> QED
    BY <2>2, <2>4 DEF Reduced, ReduceAssemblyStatus
<1>5. CASE job \in ProfileJobs \cup NormalizeJobs
  <2>1. /\ job.request.status \in {"profiled", "normalized"}
        /\ job.request.present = "unset" /\ job.request.status # "unset"
    BY <1>5, WorkJobFields
  <2>2. HigherStatus(old, job.request.status) = "assembled"
    BY <1>2, <2>1 DEF ReduceSourceStatus
  <2>3. old = "assembled"
    BY <2>1, <2>2 DEF HigherStatus
  <2> QED
    BY <1>3, <2>1, <2>3 DEF Reduced, ReduceAssemblyStatus
<1>6. CASE job \in ApplyJobs
  <2>1. /\ job.op = "apply" /\ job.request.status = "unset"
        /\ job.request.present \in {"unset", "no"}
    BY <1>6, ApplyJobFields
  <2>2. job.request.present = "unset"
    BY <1>1, <1>2, <2>1, ReducedSays DEF InventorySays, Reduced
  <2>3. old = "assembled"
    <3>1. SUFFICES ASSUME old # "assembled" PROVE FALSE
      OBVIOUS
    <3>2. StatusFromHistory(TRUE) = "assembled" /\ old \notin {"profiled", "normalized", "assembled"}
      BY <1>2, <2>1, <2>2, <3>1 DEF ReduceSourceStatus
    <3>3. PICK n \in DOMAIN registry : registry[n].status = "assembly_included"
      BY <3>2, HistoryStatus DEF SourceRows
    <3>4. PICK m \in DOMAIN registry : registry[m].status = "normalized"
      BY <3>3 DEF HistoryInv, RegistrySound, SoundRows, IncludedWasNormalized, NormalizedBefore
    <3>5. old \in {"normalized", "assembled"}
      BY <1>1, <2>1, <3>4 DEF NormalizedKnown
    <3> QED
      BY <3>2, <3>5
  <2> QED
    BY <1>3, <2>2, <2>3 DEF Reduced, ReduceAssemblyStatus
<1> QED
  BY <1>1, <1>4, <1>5, <1>6 DEF Jobs

-----------------------------------------------------------------------------
(* The parts about a running assembly are kept. *)

(* An assembly is under way in a state only if it just began or was under  *)
(* way before, with the same verdicts to give.                             *)
LEMMA AssemblingStep ==
  ASSUME HistoryInv, Next, Assembling'
  PROVE  \/ StartAssemble
         \/ /\ Assembling /\ job \in AssembleJobs
            /\ \/ RemoveGenerated \/ Merge \/ WriteAssemblySummary
               \/ AppendCaptureStatus \/ UpdateSourceInventory
<1>1. ASSUME NEW d \in Drops, StartApply(d) PROVE FALSE
  BY <1>1 DEF StartApply, Assembling
<1>2. ASSUME NEW u \in Uids, StartProfile(u) \/ StartNormalize(u) \/ RemoveOutput(u) PROVE FALSE
  BY <1>2 DEF StartProfile, StartNormalize, RemoveOutput, Idle, Assembling
<1>3. ASSUME \/ CopyFiles \/ WriteCaptureMetadata \/ NormalizeRaises \/ MergeRaises
             \/ InventoryRaises \/ EndCommand
      PROVE FALSE
  BY <1>3 DEF CopyFiles, WriteCaptureMetadata, NormalizeRaises, MergeRaises, InventoryRaises,
              EndCommand, Assembling
<1>4. ASSUME AppendCaptureRecord PROVE FALSE
  <2>1. job.op = "apply" /\ job' = job /\ pc' = "record"
    BY <1>4, ApplyJobFields DEF AppendCaptureRecord, HistoryInv, JobFits, Applying
  <2> QED
    BY <2>1 DEF Assembling
<1>5. ASSUME WriteMirrors PROVE FALSE
  <2>1. job.op = "normalize" /\ job' = job /\ pc' = "record"
    BY <1>5 DEF WriteMirrors, HistoryInv, JobFits, NormalizeJobs
  <2> QED
    BY <2>1 DEF Assembling
<1>6. ASSUME Crash PROVE FALSE
  BY <1>6, CrashTyped DEF HistoryInv, Assembling
<1>7. ASSUME RemoveGenerated \/ Merge \/ WriteAssemblySummary
      PROVE  Assembling /\ job \in AssembleJobs
  BY <1>7 DEF RemoveGenerated, Merge, WriteAssemblySummary, Assembling, HistoryInv, JobFits
<1>8. ASSUME AppendCaptureStatus \/ UpdateSourceInventory
      PROVE  Assembling /\ job \in AssembleJobs
  <2>1. pc = "record" /\ job \in Jobs /\ job'.op = job.op /\ pc' \in {"record", "done"}
    BY <1>8, MarkedJob, RunningHasJob
    DEF AppendCaptureStatus, UpdateSourceInventory, HistoryInv
  <2> QED
    BY <2>1, JobKinds DEF Assembling
<1> QED
  BY <1>1, <1>2, <1>3, <1>4, <1>5, <1>6, <1>7, <1>8 DEF Next, CommandStep

(* Each verdict is written once, and later ones are of other captures.     *)
LEMMA VerdictsStep ==
  ASSUME HistoryInv, VerdictsAgree, Next
  PROVE  VerdictsAgree'
<1> SUFFICES ASSUME Assembling' PROVE VerdictsAgree'
  BY DEF VerdictsAgree
<1>1. CASE StartAssemble
  <2>1. job'.todo = job'.included \cup job'.excluded
    BY <1>1 DEF StartAssemble
  <2>2. job'.request = [status |-> "unset",
                        present |-> IF job'.included \ job'.missing = {} THEN "no" ELSE "yes",
                        excluded |-> job'.excluded \cup job'.missing # {}]
    <3>1. \A S \in SUBSET Registered : S \ (S \ Present(S)) = Present(S)
      BY DEF Present
    <3>2. job'.included \in SUBSET Registered
          /\ job'.missing = job'.included \ Present(job'.included)
          /\ job'.request = [status |-> "unset",
                        present |-> IF Present(job'.included) = {} THEN "no" ELSE "yes",
                        excluded |-> job'.excluded \cup job'.missing # {}]
      BY <1>1 DEF StartAssemble
    <3>3. job'.included \ job'.missing = Present(job'.included)
      BY <3>1, <3>2
    <3> QED
      BY <3>2, <3>3
  <2> QED
    BY <2>1, <2>2 DEF VerdictsAgree
<1>2. ASSUME Assembling, job \in AssembleJobs,
             RemoveGenerated \/ Merge \/ WriteAssemblySummary \/ UpdateSourceInventory
      PROVE  VerdictsAgree'
  <2>1. UNCHANGED << registry, job >>
    BY <1>2 DEF RemoveGenerated, Merge, WriteAssemblySummary, UpdateSourceInventory
  <2>2. \A u : /\ LatestStatus(u)' = LatestStatus(u) /\ RequestedStatus(u)' = RequestedStatus(u)
              /\ SourceCut(u)' = SourceCut(u)
    BY <2>1, SortingUnchanged DEF RequestedStatus
  <2> QED
    BY <1>2, <2>1, <2>2 DEF VerdictsAgree
<1>3. ASSUME Assembling, job \in AssembleJobs, AppendCaptureStatus PROVE VerdictsAgree'
  <2> DEFINE m == NextToMark
  <2>1. PICK u : u = m
    OBVIOUS
  <2>2. /\ job' = [job EXCEPT !.todo = @ \ {u}] /\ u \in job.todo
    BY <1>3, <2>1, MarkedJob DEF HistoryInv
  <2>3. /\ job'.todo = job.todo \ {u} /\ job'.included = job.included /\ job'.op = job.op
        /\ job'.excluded = job.excluded /\ job'.missing = job.missing
        /\ job'.request = job.request
    BY <1>3, <2>2 DEF AssembleJobs
  <2>4. \A v : RequestedStatus(v)' = RequestedStatus(v)
    BY <2>3 DEF RequestedStatus
  <2>5. /\ ~SourceCut(u) => LatestStatus(u)' = RequestedStatus(u)
        /\ \A v \in Registered : v # u => LatestStatus(v)' = LatestStatus(v)
        /\ \A v : SourceCut(v)' <=> SourceCut(v)
    BY <1>3, <2>1, MarkedSorting DEF HistoryInv
  <2>6. job.included \cup job.excluded \subseteq Registered
    BY <1>3 DEF HistoryInv, SortedAsBefore, IncludableCaptures, ExcludedCaptures
  <2>7. ASSUME NEW v \in (job.included \cup job.excluded) \ (job.todo \ {u}), ~SourceCut(v)'
        PROVE  LatestStatus(v)' = RequestedStatus(v)
    <3>1. CASE v = u
      BY <2>5, <2>7, <3>1
    <3>2. CASE v # u
      BY <1>3, <2>5, <2>6, <2>7, <3>2 DEF VerdictsAgree
    <3> QED
      BY <3>1, <3>2
  <2> QED
    BY <1>3, <2>3, <2>4, <2>7 DEF VerdictsAgree
<1> QED
  BY <1>1, <1>2, <1>3, AssemblingStep

(* The summary is written before the first verdict and stays.              *)
LEMMA SummaryStep ==
  ASSUME HistoryInv, SummaryAgrees, Next
  PROVE  SummaryAgrees'
<1> SUFFICES ASSUME Assembling', pc' \in {"record", "done"} PROVE SummaryAgrees'
  BY DEF SummaryAgrees
<1>1. ~StartAssemble /\ ~RemoveGenerated /\ ~Merge
  BY DEF StartAssemble, RemoveGenerated, Merge
<1>2. CASE WriteAssemblySummary
  BY <1>2 DEF WriteAssemblySummary, SummaryAgrees
<1>3. ASSUME Assembling, UpdateSourceInventory PROVE SummaryAgrees'
  BY <1>3 DEF UpdateSourceInventory, SummaryAgrees
<1>4. ASSUME Assembling, job \in AssembleJobs, AppendCaptureStatus PROVE SummaryAgrees'
  <2>1. /\ job'.included = job.included /\ job'.missing = job.missing
        /\ job'.excluded = job.excluded /\ job'.pending = job.pending
    BY <1>4, MarkedJob DEF HistoryInv, AssembleJobs
  <2>2. pc = "record" /\ UNCHANGED << pc, summary >>
    BY <1>4 DEF AppendCaptureStatus
  <2> QED
    BY <1>4, <2>1, <2>2 DEF SummaryAgrees
<1> QED
  BY <1>1, <1>2, <1>3, <1>4, AssemblingStep

(* A finished assembly has just written the inventory row.                 *)
LEMMA InventoryFollowsStep ==
  ASSUME HistoryInv, InventoryFollows, Next
  PROVE  InventoryFollows'
<1> SUFFICES ASSUME pc' = "done", job'.op = "assemble" PROVE InventoryFollows'
  BY DEF InventoryFollows
<1>1. Assembling'
  BY DEF Assembling
<1>2. /\ ~StartAssemble /\ ~RemoveGenerated /\ ~Merge /\ ~WriteAssemblySummary
      /\ ~AppendCaptureStatus
  BY DEF StartAssemble, RemoveGenerated, Merge, WriteAssemblySummary, AppendCaptureStatus
<1>3. UpdateSourceInventory /\ job \in AssembleJobs
  BY <1>1, <1>2, AssemblingStep
<1>4. inventory' = Reduced(job.request) /\ job' = job
      /\ job.request.present \in {"yes", "no"} /\ TypeOK
  BY <1>3, AssembleJobFields DEF UpdateSourceInventory, HistoryInv
<1>5. InventorySays(Reduced(job.request), job.request)
  BY <1>4, ReducedSays
<1> QED
  BY <1>4, <1>5 DEF InventoryFollows, InventorySays

-----------------------------------------------------------------------------
(* The parts about the inventory are kept. *)

(* Steps other than UpdateSourceInventory and a torn write leave the row.  *)
LEMMA InventoryChanges ==
  ASSUME Next
  PROVE  \/ inventory' = inventory
         \/ UpdateSourceInventory /\ inventory' = Reduced(job.request)
         \/ Crash
BY DEF Next, StartApply, StartProfile, StartNormalize, RemoveOutput, StartAssemble, CommandStep,
       CopyFiles, WriteCaptureMetadata, AppendCaptureRecord, WriteMirrors, NormalizeRaises,
       RemoveGenerated, Merge, MergeRaises, WriteAssemblySummary, AppendCaptureStatus,
       UpdateSourceInventory, InventoryRaises, EndCommand

(* A crash shows in the count for good.                                    *)
LEMMA CrashesCounted ==
  ASSUME TypeOK, Next, crashes' = 0
  PROVE  crashes = 0 /\ ~Crash
<1>1. crashes \in Nat
  BY LifecycleBounds DEF TypeOK
<1>2. Crash => crashes' = crashes + 1
  BY DEF Crash, CrashBetweenSteps, CrashWritingRegistry, CrashWritingInventory,
         CrashWritingMirrors, CrashAssembling, Abort
<1>3. ~Crash => crashes' = crashes
  BY DEF Next, StartApply, StartProfile, StartNormalize, RemoveOutput, StartAssemble,
         CommandStep, CopyFiles, WriteCaptureMetadata, AppendCaptureRecord, WriteMirrors,
         NormalizeRaises, RemoveGenerated, Merge, MergeRaises, WriteAssemblySummary,
         AppendCaptureStatus, UpdateSourceInventory, InventoryRaises, EndCommand
<1> QED
  BY <1>1, <1>2, <1>3

LEMMA RefStep ==
  ASSUME HistoryInv, RefIsAssembled, Next
  PROVE  RefIsAssembled'
<1> SUFFICES ASSUME crashes' = 0 PROVE inventory'.ref <=> inventory'.assembly = "assembled"
  BY DEF RefIsAssembled
<1>1. crashes = 0 /\ ~Crash /\ TypeOK
  BY CrashesCounted DEF HistoryInv
<1>2. CASE inventory' = inventory
  BY <1>1, <1>2 DEF RefIsAssembled
<1>3. ASSUME UpdateSourceInventory, inventory' = Reduced(job.request)
      PROVE  inventory'.ref <=> inventory'.assembly = "assembled"
  <2>1. job \in Jobs
    BY <1>1, <1>3, RunningHasJob DEF UpdateSourceInventory
  <2>2. job.request.present \in {"unset", "yes", "no"}
    BY <2>1, RequestTyped
  <2> QED
    BY <1>1, <1>3, <2>2, ReducedRef
<1> QED
  BY <1>1, <1>2, <1>3, InventoryChanges

(* Only a crash cuts a row: the others write whole rows or repeat whole    *)
(* ones.                                                                   *)
LEMMA WholeRowsStep ==
  ASSUME HistoryInv, WholeRows, Next
  PROVE  WholeRows'
<1> SUFFICES ASSUME crashes' = 0, NEW n \in DOMAIN registry'
             PROVE  registry'[n].source /\ registry'[n].timed
  BY DEF WholeRows
<1>1. crashes = 0 /\ ~Crash /\ TypeOK
  BY CrashesCounted DEF HistoryInv
<1>2. \A m \in DOMAIN registry : registry[m].source /\ registry[m].timed
  BY <1>1 DEF WholeRows
<1>3. ASSUME NEW r \in Records, registry' = Append(registry, r), r.source, r.timed
      PROVE  registry'[n].source /\ registry'[n].timed
  <2>1. /\ DOMAIN registry' = DOMAIN registry \cup {Len(registry) + 1}
        /\ \A m \in DOMAIN registry : registry'[m] = registry[m]
        /\ registry'[Len(registry) + 1] = r
    BY <1>1, <1>3, RegistryRows, RowAppended
  <2> QED
    BY <1>2, <1>3, <2>1
<1>4. CASE registry' = registry
  BY <1>2, <1>4
<1>5. CASE AppendCaptureRecord
  <2>1. NewRecord \in Records /\ NewRecord.source /\ NewRecord.timed
    BY <1>5, NewRecordTyped DEF AppendCaptureRecord, HistoryInv, JobFits, Applying
  <2> QED
    BY <1>3, <1>5, <2>1 DEF AppendCaptureRecord
<1>6. ASSUME AppendCaptureStatus, registry' # registry
      PROVE  registry'[n].source /\ registry'[n].timed
  <2>1. PICK u : u = NextToMark
    OBVIOUS
  <2>2. registry' = WithStatus(u) /\ EveryRowOf(u) # {} /\ pc = "record" /\ job.todo # {}
    BY <1>6, <2>1 DEF AppendCaptureStatus, WithStatus
  <2>3. PICK r \in Records : MarkOf(r, u)
    BY <1>1, <2>1, <2>2, MarkFollows DEF HistoryInv
  <2>4. MaxOf(EveryRowOf(u)) \in DOMAIN registry
    BY <1>1, <2>2, LatestOfEvery
  <2> QED
    BY <1>2, <1>3, <2>2, <2>3, <2>4 DEF MarkOf
<1> QED
  BY <1>1, <1>4, <1>5, <1>6
  DEF Next, StartApply, StartProfile, StartNormalize, RemoveOutput, StartAssemble,
      CommandStep, CopyFiles, WriteCaptureMetadata, WriteMirrors, NormalizeRaises,
      RemoveGenerated, Merge, MergeRaises, WriteAssemblySummary, UpdateSourceInventory,
      InventoryRaises, EndCommand

(* So without crashes every completion time can be read.                   *)
LEMMA NothingRaises ==
  ASSUME TypeOK, WholeRows, crashes = 0
  PROVE  ~InventoryRaises
<1>1. ~TimesUnreadable
  <2>1. \A u \in Considered : u \in Registered
    BY DEF Considered
  <2>2. \A u \in Registered : registry[MaxOf(RowsOf(u))].timed
    BY LatestRow, RowsAreVisible DEF WholeRows
  <2> QED
    BY <2>1, <2>2 DEF TimesUnreadable
<1> QED
  BY <1>1 DEF InventoryRaises

(* Only a crash tears a working output.                                    *)
LEMMA NoneTornStep ==
  ASSUME HistoryInv, NoneTorn, Next
  PROVE  NoneTorn'
<1> SUFFICES ASSUME crashes' = 0, NEW u \in Uids PROVE outputs'[u] # "torn"
  BY DEF NoneTorn
<1>1. crashes = 0 /\ ~Crash /\ TypeOK
  BY CrashesCounted DEF HistoryInv
<1>2. outputs[u] # "torn" /\ outputs \in [Uids -> OutputStates]
  BY <1>1 DEF NoneTorn, TypeOK
<1>3. ASSUME NEW v \in Uids, StartProfile(v) \/ StartNormalize(v) \/ RemoveOutput(v)
      PROVE  outputs'[u] # "torn"
  BY <1>2, <1>3 DEF StartProfile, StartNormalize, RemoveOutput, EnsureOutput
<1>4. CASE WriteMirrors
  BY <1>2, <1>4 DEF WriteMirrors
<1>5. CASE outputs' = outputs
  BY <1>2, <1>5
<1> QED
  BY <1>1, <1>3, <1>4, <1>5
  DEF Next, StartApply, StartAssemble, CommandStep, CopyFiles, WriteCaptureMetadata,
      AppendCaptureRecord, NormalizeRaises, RemoveGenerated, Merge, MergeRaises,
      WriteAssemblySummary, AppendCaptureStatus, UpdateSourceInventory, InventoryRaises,
      EndCommand

(* Between removing the generated files and merging, and only there, is an *)
(* assembled source without its dataset; the merge cannot fail.            *)
LEMMA AssembledStep ==
  ASSUME HistoryInv, NoneTorn, NormalizedKnown, AssembledHasDataset, Next
  PROVE  AssembledHasDataset'
<1> SUFFICES ASSUME crashes' = 0, inventory'.status = "assembled"
             PROVE  inventory'.assembly = "assembled" /\ (pc' # "merge" => dataset' # Nothing)
  BY DEF AssembledHasDataset
<1>1. crashes = 0 /\ ~Crash /\ TypeOK /\ crashes \in Nat
  BY CrashesCounted, LifecycleBounds DEF HistoryInv, TypeOK
<1>2. CASE UpdateSourceInventory
  BY <1>1, <1>2, ReducedAssembled DEF UpdateSourceInventory
<1>3. CASE ~UpdateSourceInventory
  <2>1. inventory' = inventory
    BY <1>1, <1>3, InventoryChanges
  <2>2. inventory.assembly = "assembled" /\ (pc # "merge" => dataset # Nothing)
    BY <1>1, <2>1 DEF AssembledHasDataset
  <2>3. CASE RemoveGenerated
    BY <2>1, <2>2, <2>3 DEF RemoveGenerated
  <2>4. CASE Merge
    <3>1. HistoryInv'
      BY HistoryStep
    <3>2. /\ job'.included \ job'.missing \in SUBSET Uids
          /\ dataset' \in [job'.included \ job'.missing -> OutputStates]
      BY <2>4, <3>1, AssembleJobFields DEF Merge, HistoryInv, JobFits, SortedAsBefore, Assembling
    <3>3. dataset' # Nothing
      BY <3>2, NothingIsNothing
    <3> QED
      BY <2>1, <2>2, <3>3
  <2>5. ~MergeRaises
    <3>1. MergeRaises => job.included \ job.missing \in SUBSET Uids
      BY AssembleJobFields DEF MergeRaises, HistoryInv, JobFits
    <3> QED
      BY <1>1, <3>1 DEF MergeRaises, NoneTorn
  <2>6. CASE ~RemoveGenerated /\ ~Merge
    <3>1. dataset' = dataset /\ pc # "merge"
      BY <1>1, <1>3, <2>5, <2>6
      DEF Next, StartApply, StartProfile, StartNormalize, RemoveOutput, StartAssemble,
          CommandStep, CopyFiles, WriteCaptureMetadata, AppendCaptureRecord, WriteMirrors,
          NormalizeRaises, WriteAssemblySummary, AppendCaptureStatus, InventoryRaises,
          EndCommand, Idle
    <3> QED
      BY <2>1, <2>2, <3>1
  <2> QED
    BY <2>3, <2>4, <2>6
<1> QED
  BY <1>2, <1>3

(* The rows a step adds: "normalized" and "profiled" rows come from the    *)
(* command of that name, or repeat one that is there.                      *)
LEMMA RowsAdded ==
  ASSUME HistoryInv, Next, ~Crash, NEW n \in DOMAIN registry',
         registry'[n].status \in {"normalized", "profiled"}
  PROVE  \/ \E m \in DOMAIN registry : registry[m].status = registry'[n].status
         \/ /\ AppendCaptureStatus
            /\ registry'[n].status = "normalized" => job.op = "normalize"
            /\ registry'[n].status = "profiled" => job.op = "profile"
<1>1. CASE registry' = registry
  BY <1>1
<1>2. CASE AppendCaptureRecord
  <2>1. job \in ApplyJobs /\ TypeOK
    BY <1>2 DEF AppendCaptureRecord, HistoryInv, JobFits, Applying
  <2>2. NewRecord \in Records /\ NewRecord.status \notin {"normalized", "profiled"}
    BY <2>1, NewRecordTyped
  <2>3. registry' = Append(registry, NewRecord)
    BY <1>2 DEF AppendCaptureRecord
  <2>4. n \in DOMAIN registry /\ registry'[n] = registry[n]
    BY <2>1, <2>2, <2>3, RegistryRows, RowAppended
  <2> QED
    BY <2>4
<1>3. ASSUME AppendCaptureStatus, registry' # registry
      PROVE  \/ \E m \in DOMAIN registry : registry[m].status = registry'[n].status
             \/ /\ registry'[n].status = "normalized" => job.op = "normalize"
                /\ registry'[n].status = "profiled" => job.op = "profile"
  <2>1. PICK u : u = NextToMark
    OBVIOUS
  <2>2. job \in Jobs /\ u \in job.todo /\ registry' = WithStatus(u) /\ TypeOK
        /\ job.op # "apply" /\ pc = "record" /\ job.todo # {}
    BY <1>3, <2>1, MarkedJob DEF AppendCaptureStatus, HistoryInv
  <2>3. EveryRowOf(u) # {}
    BY <1>3, <2>2 DEF WithStatus
  <2>4. PICK r \in Records : MarkOf(r, u)
    BY <2>1, <2>2, <2>3, MarkFollows DEF HistoryInv
  <2>5. PICK old : old = registry[MaxOf(EveryRowOf(u))].status
    OBVIOUS
  <2>6. /\ DOMAIN registry' = DOMAIN registry \cup {Len(registry) + 1}
        /\ \A m \in DOMAIN registry : registry'[m] = registry[m]
        /\ registry'[Len(registry) + 1] = r
    BY <2>2, <2>4, RegistryRows, RowAppended DEF MarkOf
  <2>7. r.status \in {old, RequestedStatus(u)}
    BY <2>4, <2>5 DEF MarkOf, ReduceCaptureStatus
  <2>8. \E m \in DOMAIN registry : registry[m].status = old
    BY <2>2, <2>3, <2>5, LatestOfEvery
  <2>9. /\ RequestedStatus(u) = "normalized" => job.op = "normalize"
        /\ RequestedStatus(u) = "profiled" => job.op = "profile"
    <3>1. CASE job \in ProfileJobs \cup NormalizeJobs
      BY <3>1, WorkJobFields DEF RequestedStatus, StatusRequest
    <3>2. CASE job \in AssembleJobs
      BY <3>2, AssembleJobFields DEF RequestedStatus
    <3> QED
      BY <2>2, <3>1, <3>2, JobKinds DEF Jobs
  <2>10. CASE n \in DOMAIN registry
    BY <2>6, <2>10
  <2>11. CASE n = Len(registry) + 1
    BY <2>6, <2>7, <2>8, <2>9, <2>11
  <2> QED
    BY <2>6, <2>10, <2>11
<1> QED
  BY <1>1, <1>2, <1>3
  DEF Next, StartApply, StartProfile, StartNormalize, RemoveOutput, StartAssemble,
      CommandStep, CopyFiles, WriteCaptureMetadata, WriteMirrors, NormalizeRaises,
      RemoveGenerated, Merge, MergeRaises, WriteAssemblySummary, UpdateSourceInventory,
      InventoryRaises, EndCommand

(* A command that has written its status rows goes on to the inventory.    *)
LEMMA RecordStep ==
  ASSUME HistoryInv, WholeRows, crashes = 0,
         Next, ~Crash, ~UpdateSourceInventory, pc = "record"
  PROVE  AppendCaptureStatus /\ pc' = "record" /\ job'.op = job.op
<1>1. AppendCaptureStatus
  BY NothingRaises
  DEF HistoryInv, Next, StartApply, StartProfile, StartNormalize, RemoveOutput, StartAssemble,
         CommandStep, CopyFiles, WriteCaptureMetadata, AppendCaptureRecord, WriteMirrors,
         NormalizeRaises, RemoveGenerated, Merge, MergeRaises, WriteAssemblySummary,
         EndCommand, Idle
<1> QED
  BY <1>1, MarkedJob DEF AppendCaptureStatus, HistoryInv

(* The inventory does not forget a normalized or a profiled capture.       *)
LEMMA KnownStep ==
  ASSUME HistoryInv, WholeRows, NormalizedKnown, ProfiledKnown, Next
  PROVE  NormalizedKnown' /\ ProfiledKnown'
<1> SUFFICES ASSUME crashes' = 0 PROVE NormalizedKnown' /\ ProfiledKnown'
  BY DEF NormalizedKnown, ProfiledKnown
<1>1. crashes = 0 /\ ~Crash /\ TypeOK /\ crashes \in Nat
  BY CrashesCounted, LifecycleBounds DEF HistoryInv, TypeOK
<1>2. CASE UpdateSourceInventory
  <2>1. registry' = registry /\ inventory' = Reduced(job.request)
    BY <1>2 DEF UpdateSourceInventory
  <2> QED
    BY <1>1, <1>2, <2>1, ReducedKnows DEF NormalizedKnown, ProfiledKnown
<1>3. CASE ~UpdateSourceInventory
  <2>1. inventory' = inventory
    BY <1>1, <1>3, InventoryChanges
  <2>2. pc = "record" => pc' = "record" /\ job'.op = job.op
    BY <1>1, <1>3, RecordStep
  <2>3. AppendCaptureStatus => pc = "record"
    BY DEF AppendCaptureStatus
  <2>4. ASSUME pc' = "record" => job'.op # "normalize", NEW n \in DOMAIN registry',
               registry'[n].status = "normalized"
        PROVE  inventory'.status \in {"normalized", "assembled"}
    <3>1. pc = "record" => job.op # "normalize"
      BY <2>2, <2>4
    <3>2. \E m \in DOMAIN registry : registry[m].status = "normalized"
      BY <1>1, <2>3, <2>4, <3>1, RowsAdded
    <3> QED
      BY <1>1, <2>1, <3>1, <3>2 DEF NormalizedKnown
  <2>5. ASSUME pc' = "record" => job'.op # "profile", NEW n \in DOMAIN registry',
               registry'[n].status = "profiled"
        PROVE  inventory'.status \in {"profiled", "normalized", "assembled"}
    <3>1. pc = "record" => job.op # "profile"
      BY <2>2, <2>5
    <3>2. \E m \in DOMAIN registry : registry[m].status = "profiled"
      BY <1>1, <2>3, <2>5, <3>1, RowsAdded
    <3> QED
      BY <1>1, <2>1, <3>1, <3>2 DEF ProfiledKnown
  <2> QED
    BY <2>4, <2>5 DEF NormalizedKnown, ProfiledKnown
<1> QED
  BY <1>2, <1>3

-----------------------------------------------------------------------------
(* The invariant is inductive. *)

LEMMA LifecycleInit == Init => LifecycleInv
<1> SUFFICES ASSUME Init PROVE LifecycleInv
  OBVIOUS
<1>1. HistoryInv
  BY HistoryInit
<1>2. registry = << >> /\ DOMAIN registry = {} /\ inventory = NoInventory
      /\ \A u \in Uids : outputs[u] = "absent"
  BY DEF Init
<1>3. VerdictsAgree /\ SummaryAgrees /\ InventoryFollows
  BY DEF Init, Assembling, VerdictsAgree, SummaryAgrees, InventoryFollows
<1> QED
  BY <1>1, <1>2, <1>3
  DEF LifecycleInv, NoneTorn, WholeRows, RefIsAssembled, AssembledHasDataset,
      NormalizedKnown, ProfiledKnown, NoInventory

LEMMA LifecycleStep == LifecycleInv /\ [Next]_vars => LifecycleInv'
<1> SUFFICES ASSUME LifecycleInv, [Next]_vars PROVE LifecycleInv'
  OBVIOUS
<1>1. HistoryInv'
  BY HistoryStep DEF LifecycleInv
<1>2. CASE Next
  BY <1>1, <1>2, VerdictsStep, SummaryStep, InventoryFollowsStep, RefStep, NoneTornStep,
     WholeRowsStep, AssembledStep, KnownStep
  DEF LifecycleInv
<1>3. CASE UNCHANGED vars
  <2>1. UNCHANGED << registry, outputs, dataset, summary, inventory, pc, job, crashes >>
    BY <1>3 DEF vars
  <2>2. VerdictsAgree'
    <3>1. \A u : /\ LatestStatus(u)' = LatestStatus(u) /\ SourceCut(u)' = SourceCut(u)
                /\ RequestedStatus(u)' = RequestedStatus(u)
      BY <2>1, SortingUnchanged DEF RequestedStatus
    <3> QED
      BY <2>1, <3>1 DEF LifecycleInv, VerdictsAgree, Assembling
  <2>3. SummaryAgrees' /\ InventoryFollows'
    BY <2>1 DEF LifecycleInv, SummaryAgrees, InventoryFollows, InventorySays, Assembling
  <2>4. NoneTorn' /\ WholeRows' /\ RefIsAssembled' /\ AssembledHasDataset'
    BY <2>1 DEF LifecycleInv, NoneTorn, WholeRows, RefIsAssembled, AssembledHasDataset
  <2>5. NormalizedKnown' /\ ProfiledKnown'
    BY <2>1 DEF LifecycleInv, NormalizedKnown, ProfiledKnown
  <2> QED
    BY <1>1, <2>2, <2>3, <2>4, <2>5 DEF LifecycleInv
<1> QED
  BY <1>2, <1>3

(* LifecycleInv holds in every state of the program.                       *)
THEOREM LifecycleHolds == Spec => []LifecycleInv
BY LifecycleInit, LifecycleStep, PTL DEF Spec

-----------------------------------------------------------------------------
(* The theorems. *)

(* A finished assembly settles the source whatever crashed before it: the  *)
(* same captures would be included again, the registry's verdicts are the  *)
(* summary's and the dataset's where no cut row hides them, and the        *)
(* inventory says "assembled" exactly when a capture was merged.           *)
THEOREM AssemblySettlesTheSource == Spec => []AssembleSettles
<1>1. LifecycleInv => AssembleSettles
  <2> SUFFICES ASSUME LifecycleInv, pc = "done", job.op = "assemble" PROVE AssembleSettles
    BY DEF AssembleSettles
  <2>1. Assembling /\ TypeOK /\ RegistrySound /\ job.todo = {} /\ job \in AssembleJobs
    <3>1. TypeOK /\ RegistrySound /\ job.todo = {}
      BY DEF LifecycleInv, HistoryInv, JobFits
    <3> QED
      BY <3>1, RunningHasJob, JobKinds DEF Assembling
  <2>2. /\ job.included = IncludableCaptures /\ job.excluded = ExcludedCaptures
        /\ job.missing \subseteq job.included
        /\ DOMAIN dataset = job.included \ job.missing
    BY <2>1 DEF LifecycleInv, HistoryInv, SortedAsBefore
  <2>3. /\ summary.included = job.included \ job.missing
        /\ summary.excluded = job.excluded \cup job.missing
    BY <2>1 DEF LifecycleInv, SummaryAgrees
  <2>4. /\ {u \in Registered : Includable(u)} = job.included
        /\ {u \in Registered : PolicyExcluded(u) /\ ~Includable(u)} = job.excluded
    BY <2>2 DEF IncludableCaptures, ExcludedCaptures
  <2>5. \A u \in job.included \cup job.excluded :
          ~SourceCut(u) => LatestStatus(u) = RequestedStatus(u)
    BY <2>1 DEF LifecycleInv, VerdictsAgree
  <2>6. ASSUME NEW u \in Registered, ~SourceCut(u)
        PROVE  LatestStatus(u) = "assembly_included" <=> u \in summary.included
    <3>1. u \in job.included \cup job.excluded =>
            (LatestStatus(u) = "assembly_included" <=> u \in job.included \ job.missing)
      BY <2>5, <2>6 DEF RequestedStatus
    <3>2. LatestStatus(u) = "assembly_included" => u \in job.included
      BY <2>4 DEF Includable, IncludedStatuses
    <3> QED
      BY <2>3, <3>1, <3>2
  <2>7. InventorySays(inventory, job.request)
    BY DEF LifecycleInv, InventoryFollows
  <2>8. /\ job.request.present = "yes" <=> summary.included # {}
        /\ job.request.excluded <=> summary.excluded # {}
    <3>1. job.request = [status |-> "unset",
                         present |-> IF job.included \ job.missing = {} THEN "no" ELSE "yes",
                         excluded |-> job.excluded \cup job.missing # {}]
      BY <2>1 DEF LifecycleInv, VerdictsAgree
    <3>2. job.request.present = IF job.included \ job.missing = {} THEN "no" ELSE "yes"
      BY <3>1
    <3>3. job.request.excluded <=> job.excluded \cup job.missing # {}
      <4> DEFINE some == job.excluded \cup job.missing # {}
                 p == IF job.included \ job.missing = {} THEN "no" ELSE "yes"
      <4>1. some \in BOOLEAN /\ job.request = [status |-> "unset", present |-> p, excluded |-> some]
        BY <3>1
      <4> HIDE DEF some, p
      <4>2. job.request.excluded = some
        BY <4>1
      <4> QED
        BY <4>1, <4>2 DEF some
    <3> QED
      BY <2>3, <3>2, <3>3
  <2> QED
    BY <2>2, <2>3, <2>4, <2>6, <2>7, <2>8 DEF AssembleSettles, InventorySays
<1> QED
  BY <1>1, LifecycleHolds, PTL

(* Without crashes the inventory keeps up with the registry: it promises a *)
(* dataset only when there is one, and a capture's normalized or profiled  *)
(* row is reflected in the source's status.                                *)
THEOREM InventoryNeverForgets == Spec => []InventoryKeepsUp
<1>1. LifecycleInv => InventoryKeepsUp
  <2> SUFFICES ASSUME LifecycleInv, Idle, crashes = 0 PROVE InventoryKeepsUp
    BY DEF InventoryKeepsUp
  <2>1. pc = "idle"
    BY DEF Idle
  <2>2. /\ inventory.status = "assembled" => dataset # Nothing
                                             /\ inventory.assembly = "assembled"
        /\ inventory.ref <=> inventory.assembly = "assembled"
    BY <2>1 DEF LifecycleInv, AssembledHasDataset, RefIsAssembled
  <2>3. ASSUME NEW u \in Registered, "normalized" \in StatusesOf(u)
        PROVE  Rank(inventory.status) >= Rank("normalized")
    <3>1. inventory.status \in {"normalized", "assembled"}
      BY <2>1, <2>3 DEF LifecycleInv, NormalizedKnown, StatusesOf, RowsOf, SourceRows
    <3> QED
      BY <3>1 DEF Rank
  <2>4. ASSUME NEW u \in Registered, "profiled" \in StatusesOf(u)
        PROVE  Rank(inventory.status) >= Rank("profiled")
    <3>1. inventory.status \in {"profiled", "normalized", "assembled"}
      BY <2>1, <2>4 DEF LifecycleInv, ProfiledKnown, StatusesOf, RowsOf, SourceRows
    <3> QED
      BY <3>1 DEF Rank
  <2> QED
    BY <2>2, <2>3, <2>4 DEF InventoryKeepsUp
<1> QED
  BY <1>1, LifecycleHolds, PTL
=============================================================================
