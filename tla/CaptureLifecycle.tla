-------------------------- MODULE CaptureLifecycle --------------------------
(***************************************************************************)
(* The captures of one source, from `source intake apply` to               *)
(* `source assemble`.                                                      *)
(*                                                                         *)
(* Four commands share three control files.  apply plans an incoming drop  *)
(* against the capture registry, materializes a raw capture root and       *)
(* registers it; profile and normalize write the capture's working output  *)
(* and append its new status; assemble sorts the captures by their status  *)
(* history, merges the accepted ones into the source dataset and appends   *)
(* the verdicts.  Each command ends by reducing the registry to the        *)
(* source's row of source_inventory.csv.                                   *)
(*                                                                         *)
(* Appending means reading the whole registry and writing it again, so a   *)
(* crash in the middle loses rows, and may cut one: the file ends at any   *)
(* byte, and a short last row is read like any other, its missing cells    *)
(* empty.  The commands run one at a time.                                 *)
(***************************************************************************)
EXTENDS Naturals, Sequences

CONSTANTS
  Drops,        \* incoming drops: manifest fingerprint and observed period
  NoPeriod,     \* a drop whose files show no period
  NoPrint,      \* a registry row that lost its manifest fingerprint
  Nothing,      \* no file, or no job
  Torn,         \* a file left half written by a crash
  MaxCaptures,  \* bound on apply attempts
  MaxRows,      \* no command starts on a registry of this many rows
  MaxMishaps    \* bound on crashes and on outputs the operator removes, together

Uids == 1 .. MaxCaptures   \* ULIDs sort by creation time

ASSUME LifecycleBounds ==
  MaxCaptures \in Nat /\ MaxRows \in Nat /\ MaxMishaps \in Nat

ASSUME DropsTyped ==
  \A d \in Drops : /\ DOMAIN d = {"print", "period"}
                   /\ d.period # NoPeriod => d.period \in Nat \X Nat
                   /\ d.print # NoPrint

IncludedStatuses == {"normalized", "assembly_included"}
BlockedStatuses == {"capture_blocked", "duplicate_blocked", "overlap_review_required",
                    "superseded"}
CaptureStatuses == BlockedStatuses \cup IncludedStatuses
                   \cup {"captured", "profiled", "assembly_excluded"}

(* "unset" is the empty string of the code and its CSV cells, "cut" any    *)
(* text a crash left of a cell that is not a word the code knows.          *)
RowStatuses == CaptureStatuses \cup {"unset", "cut"}

(* In the inventory row, which is written anew, such a text is as good as  *)
(* none.                                                                   *)
SourceStatuses == {"unset", "capture_complete", "profiled", "normalized", "assembled"}

VARIABLES
  registry,   \* source_captures.csv: one row per lifecycle event
  roots,      \* raw capture roots: absent, files without capture.json, complete
  contents,   \* the drop whose files a root holds
  outputs,    \* working/normalized/captures/<uid>: absent, profile files only,
              \* mirrors of a finished run, or mirrors torn by a crash
  dataset,    \* working/normalized/sources/<source>: what each capture put in
  summary,    \* assembly_summary.json
  inventory,  \* the source's row of source_inventory.csv
  issued,     \* capture uids handed out
  pc,         \* where the running command is
  job,        \* what it carries from step to step
  crashes,
  removals

vars == << registry, roots, contents, outputs, dataset, summary, inventory, issued, pc,
           job, crashes, removals >>

OutputStates == {"absent", "profile", "mirrors", "torn"}

(* What the running command carries: the captures it has still to mark and *)
(* the request it ends with.  Only a clean capture resets the source's     *)
(* assembly state.                                                         *)
ApplyRequest(status) ==
  [status |-> "unset", present |-> IF status = "captured" THEN "no" ELSE "unset",
   excluded |-> FALSE]

StatusRequest(s) == [status |-> s, present |-> "unset", excluded |-> FALSE]

AppliedStatuses == {"captured", "duplicate_blocked", "overlap_review_required"}

ApplyJobs ==
  [op : {"apply"}, uid : Uids, drop : Drops, status : AppliedStatuses, todo : {{}},
   request : {ApplyRequest(s) : s \in AppliedStatuses}]
ProfileJobs ==
  [op : {"profile"}, todo : SUBSET Uids, request : {StatusRequest("profiled")}]
NormalizeJobs ==
  [op : {"normalize"}, todo : SUBSET Uids, request : {StatusRequest("normalized")}]
AssembleJobs ==
  [op : {"assemble"}, included : SUBSET Uids, excluded : SUBSET Uids, missing : SUBSET Uids,
   pending : SUBSET Uids, todo : SUBSET Uids,
   request : [status : {"unset"}, present : {"yes", "no"}, excluded : BOOLEAN]]
Jobs == ApplyJobs \cup ProfileJobs \cup NormalizeJobs \cup AssembleJobs

ASSUME NothingIsNothing ==
  /\ Nothing \notin Jobs
  /\ \A S \in SUBSET Uids : Nothing \notin [S -> OutputStates]

NoInventory == [status |-> "unset", assembly |-> "unset", ref |-> FALSE]

-----------------------------------------------------------------------------
(* Reading the registry. *)

MaxOf(S) == IF S = {} THEN 0 ELSE CHOOSE n \in S : \A m \in S : m <= n
MinOf(S) == CHOOSE n \in S : \A m \in S : n <= m

(* Rows are looked up by uid alone when a status is appended, and by       *)
(* source, then uid, everywhere else.                                      *)
EveryRowOf(u) == {n \in DOMAIN registry : registry[n].uid = u}
SourceRows == {n \in DOMAIN registry : registry[n].source}
RowsOf(u) == {n \in SourceRows : registry[n].uid = u}
Registered == {registry[n].uid : n \in SourceRows}
StatusesOf(u) == {registry[n].status : n \in RowsOf(u)}
LatestStatus(u) == registry[MaxOf(RowsOf(u))].status

(* Row numbers stand for positions in the capture's history: comparing two *)
(* rows of one capture gives the same answer.                              *)
LatestIndex(u, statuses) == MaxOf({n \in RowsOf(u) : registry[n].status \in statuses})

Overlaps(p, q) ==
  /\ p # NoPeriod /\ q # NoPeriod
  /\ ~(p[2] < q[1] \/ q[2] < p[1])

(* Mutant: overlap is tested before duplication.                           *)
CaptureStatusOverlapFirst(d) ==
  IF \E n \in SourceRows : Overlaps(d.period, registry[n].period)
  THEN "overlap_review_required"
  ELSE IF \E n \in SourceRows : registry[n].print = d.print THEN "duplicate_blocked"
  ELSE "captured"

(* A drop is compared with every row of the source, whatever became of its *)
(* capture.                                                                *)
CaptureStatus(d) ==
  IF \E n \in SourceRows : registry[n].print = d.print THEN "duplicate_blocked"
  ELSE IF \E n \in SourceRows : Overlaps(d.period, registry[n].period)
  THEN "overlap_review_required"
  ELSE "captured"

Includable(u) ==
  \/ LatestStatus(u) \in IncludedStatuses
  \/ /\ LatestStatus(u) = "assembly_excluded"
     /\ LatestIndex(u, IncludedStatuses) > LatestIndex(u, BlockedStatuses)

(* Mutant: only the latest status counts, so an exclusion is forgotten.    *)
PolicyExcludedByLatest(u) == LatestStatus(u) \in BlockedStatuses

PolicyExcluded(u) ==
  \/ LatestStatus(u) \in BlockedStatuses
  \/ LatestIndex(u, BlockedStatuses) > LatestIndex(u, IncludedStatuses)

(* Mutant: profiling again overwrites what came after the first profile.   *)
ReduceCaptureStatusReprofiled(existing, requested) ==
  IF requested = "normalized" /\ existing \in {"assembly_included", "assembly_excluded"}
  THEN existing ELSE requested

ReduceCaptureStatus(existing, requested) ==
  IF \/ /\ requested = "profiled"
        /\ existing \in {"normalized", "assembly_included", "assembly_excluded"}
     \/ /\ requested = "normalized"
        /\ existing \in {"assembly_included", "assembly_excluded"}
  THEN existing ELSE requested

-----------------------------------------------------------------------------
(* Reducing the registry to the source's inventory row.  A request carries *)
(* a requested status or "unset", whether assembled output is present      *)
(* ("yes", "no", or "unset" when the command does not say) and whether     *)
(* assembly excluded any capture.                                          *)

Rank(s) == CASE s = "unset" -> 0 [] s = "capture_complete" -> 1 [] s = "profiled" -> 2
             [] s = "normalized" -> 3 [] s = "assembled" -> 4

HigherStatus(s, t) == IF Rank(s) >= Rank(t) THEN s ELSE t

StatusFromHistory(allowAssembled) ==
  LET statuses == {registry[n].status : n \in SourceRows} IN
  CASE allowAssembled /\ "assembly_included" \in statuses -> "assembled"
    [] (~allowAssembled \/ "assembly_included" \notin statuses)
       /\ statuses \cap {"normalized", "assembly_included", "assembly_excluded"} # {} -> "normalized"
    [] statuses \cap {"normalized", "assembly_included", "assembly_excluded"} = {}
       /\ "profiled" \in statuses -> "profiled"
    [] OTHER -> IF statuses \subseteq BlockedStatuses \cup {"unset"} THEN "unset"
                ELSE "capture_complete"

(* Mutant: "assembled" survives a new capture.                             *)
ReduceSourceStatusSticky(existing, request) ==
  CASE request.present = "yes" -> "assembled"
    [] request.present = "no" -> HigherStatus(existing, StatusFromHistory(FALSE))
    [] request.present = "unset" /\ request.status # "unset" ->
         HigherStatus(existing, request.status)
    [] OTHER -> IF existing \in {"profiled", "normalized", "assembled"} THEN existing
                ELSE IF StatusFromHistory(TRUE) # "unset" THEN StatusFromHistory(TRUE)
                ELSE existing

ReduceSourceStatus(existing, request) ==
  CASE request.present = "yes" -> "assembled"
    [] request.present = "no" ->
         IF existing = "assembled" THEN StatusFromHistory(FALSE)
         ELSE HigherStatus(existing, StatusFromHistory(FALSE))
    [] request.present = "unset" /\ request.status # "unset" ->
         HigherStatus(existing, request.status)
    [] OTHER -> IF existing \in {"profiled", "normalized", "assembled"} THEN existing
                ELSE IF StatusFromHistory(TRUE) # "unset" THEN StatusFromHistory(TRUE)
                ELSE existing

ReduceAssemblyStatus(existing, request) ==
  CASE request.present = "yes" -> "assembled"
    [] request.present = "no" -> IF request.excluded THEN "excluded" ELSE "pending"
    [] OTHER -> IF existing = "unset" THEN "pending" ELSE existing

(* The captures whose completion times are compared: those whose latest    *)
(* status is not blocked, if there are any.                                *)
Considered ==
  LET meaningful == {u \in Registered : LatestStatus(u) \notin BlockedStatuses}
  IN  IF meaningful = {} THEN Registered ELSE meaningful

TimesUnreadable == \E u \in Considered : ~registry[MaxOf(RowsOf(u))].timed

Reduced(request) ==
  [status |-> ReduceSourceStatus(inventory.status, request),
   assembly |-> ReduceAssemblyStatus(inventory.assembly, request),
   ref |-> CASE request.present = "yes" -> TRUE
             [] request.present = "no" -> FALSE
             [] OTHER -> inventory.ref]

-----------------------------------------------------------------------------

Init ==
  /\ registry = << >>
  /\ roots = [u \in Uids |-> "absent"]
  /\ contents = [u \in Uids |-> Nothing]
  /\ outputs = [u \in Uids |-> "absent"]
  /\ dataset = Nothing /\ summary = Nothing
  /\ inventory = NoInventory
  /\ issued = 0
  /\ pc = "idle" /\ job = Nothing
  /\ crashes = 0 /\ removals = 0

Idle == pc = "idle" /\ job = Nothing
HasRoom == Len(registry) < MaxRows

(* The operator clears a capture's working output. *)
RemoveOutput(u) ==
  /\ Idle /\ crashes + removals < MaxMishaps /\ outputs[u] # "absent"
  /\ outputs' = [outputs EXCEPT ![u] = "absent"]
  /\ removals' = removals + 1
  /\ UNCHANGED << registry, roots, contents, dataset, summary, inventory, issued, pc, job, crashes >>

-----------------------------------------------------------------------------
(* source intake apply *)

StartApply(d) ==
  /\ Idle /\ issued < MaxCaptures /\ HasRoom
  /\ issued' = issued + 1
  /\ job' = [op |-> "apply", uid |-> issued + 1, drop |-> d, status |-> CaptureStatus(d),
             todo |-> {}, request |-> ApplyRequest(CaptureStatus(d))]
  /\ pc' = IF CaptureStatus(d) = "duplicate_blocked" THEN "register" ELSE "copy"
  /\ UNCHANGED << registry, roots, contents, outputs, dataset, summary, inventory, crashes, removals >>

CopyFiles ==
  /\ pc = "copy"
  /\ roots' = [roots EXCEPT ![job.uid] = "files"]
  /\ contents' = [contents EXCEPT ![job.uid] = job.drop]
  /\ pc' = "metadata"
  /\ UNCHANGED << registry, outputs, dataset, summary, inventory, issued, job, crashes, removals >>

WriteCaptureMetadata ==
  /\ pc = "metadata"
  /\ roots' = [roots EXCEPT ![job.uid] = "complete"]
  /\ pc' = "register"
  /\ UNCHANGED << contents, registry, outputs, dataset, summary, inventory, issued, job, crashes, removals >>

NewRecord == [uid |-> job.uid, source |-> TRUE, status |-> job.status, timed |-> TRUE,
              print |-> job.drop.print, period |-> job.drop.period]

AppendCaptureRecord ==
  /\ pc = "register"
  /\ registry' = Append(registry, NewRecord)
  /\ pc' = "record"
  /\ UNCHANGED << roots, contents, outputs, dataset, summary, inventory, issued, job, crashes, removals >>

-----------------------------------------------------------------------------
(* source profile and source normalize: one complete capture root. *)

EnsureOutput(u) == [outputs EXCEPT ![u] = IF @ = "absent" THEN "profile" ELSE @]

StartProfile(u) ==
  /\ Idle /\ roots[u] = "complete" /\ HasRoom
  /\ outputs' = EnsureOutput(u)
  /\ job' = [op |-> "profile", todo |-> {u}, request |-> StatusRequest("profiled")]
  /\ pc' = "record"
  /\ UNCHANGED << registry, roots, contents, dataset, summary, inventory, issued, crashes, removals >>

StartNormalize(u) ==
  /\ Idle /\ roots[u] = "complete" /\ HasRoom
  /\ outputs' = EnsureOutput(u)
  /\ job' = [op |-> "normalize", todo |-> {u}, request |-> StatusRequest("normalized")]
  /\ pc' = "mirrors"
  /\ UNCHANGED << registry, roots, contents, dataset, summary, inventory, issued, crashes, removals >>

(* The whole target-product execution, seen from here. *)
WriteMirrors ==
  /\ pc = "mirrors"
  /\ outputs' = [u \in Uids |-> IF u \in job.todo THEN "mirrors" ELSE outputs[u]]
  /\ pc' = "record"
  /\ UNCHANGED << registry, roots, contents, dataset, summary, inventory, issued, job, crashes, removals >>

(* A refused profile or a blocked translation plan. *)
NormalizeRaises ==
  /\ pc = "mirrors"
  /\ pc' = "idle" /\ job' = Nothing
  /\ UNCHANGED << registry, roots, contents, outputs, dataset, summary, inventory, issued, crashes, removals >>

-----------------------------------------------------------------------------
(* source assemble *)

Present(included) == {u \in included : outputs[u] # "absent"}

StartAssemble ==
  /\ Idle /\ HasRoom
  /\ LET included == {u \in Registered : Includable(u)}
         excluded == {u \in Registered \ included : PolicyExcluded(u)}
         missing == included \ Present(included) IN
       job' = [op |-> "assemble", included |-> included, excluded |-> excluded,
               missing |-> missing, pending |-> Registered \ (included \cup excluded),
               todo |-> included \cup excluded,
               request |-> [status |-> "unset",
                            present |-> IF Present(included) = {} THEN "no" ELSE "yes",
                            excluded |-> excluded \cup missing # {}]]
  /\ pc' = "remove"
  /\ UNCHANGED << registry, roots, contents, outputs, dataset, summary, inventory, issued, crashes, removals >>

RemoveGenerated ==
  /\ pc = "remove"
  /\ dataset' = Nothing /\ summary' = Nothing
  /\ pc' = "merge"
  /\ UNCHANGED << registry, roots, contents, outputs, inventory, issued, job, crashes, removals >>

Merge ==
  /\ pc = "merge"
  /\ dataset' = [u \in job.included \ job.missing |-> outputs[u]]
  /\ pc' = "summary"
  /\ UNCHANGED << registry, roots, contents, outputs, summary, inventory, issued, job, crashes, removals >>

(* A torn CSV mirror reads as fewer rows; a torn JSON mirror raises. *)
MergeRaises ==
  /\ pc = "merge" /\ \E u \in job.included \ job.missing : outputs[u] = "torn"
  /\ pc' = "idle" /\ job' = Nothing
  /\ UNCHANGED << registry, roots, contents, outputs, dataset, summary, inventory, issued, crashes, removals >>

WriteAssemblySummary ==
  /\ pc = "summary"
  /\ summary' = [included |-> job.included \ job.missing,
                 excluded |-> job.excluded \cup job.missing,
                 pending |-> job.pending]
  /\ pc' = "record"
  /\ UNCHANGED << registry, roots, contents, outputs, dataset, inventory, issued, job, crashes, removals >>

-----------------------------------------------------------------------------
(* The tail every command shares: status rows, then the inventory row. *)

(* Included captures first, each group in uid order. *)
NextToMark ==
  IF job.op = "assemble" /\ job.todo \cap job.included # {}
  THEN MinOf(job.todo \cap job.included) ELSE MinOf(job.todo)

RequestedStatus(u) ==
  IF job.op # "assemble" THEN job.request.status
  ELSE IF u \in job.included \ job.missing THEN "assembly_included"
  ELSE "assembly_excluded"

WithStatus(u) ==
  IF EveryRowOf(u) = {} THEN registry
  ELSE Append(registry, [registry[MaxOf(EveryRowOf(u))] EXCEPT
                           !.status = ReduceCaptureStatus(@, RequestedStatus(u))])

AppendCaptureStatus ==
  /\ pc = "record" /\ job.todo # {}
  /\ registry' = WithStatus(NextToMark)
  /\ job' = [job EXCEPT !.todo = @ \ {NextToMark}]
  /\ UNCHANGED << roots, contents, outputs, dataset, summary, inventory, issued, pc, crashes, removals >>

UpdateSourceInventory ==
  /\ pc = "record" /\ job.todo = {} /\ ~TimesUnreadable
  /\ inventory' = Reduced(job.request)
  /\ pc' = "done"
  /\ UNCHANGED << registry, roots, contents, outputs, dataset, summary, issued, job, crashes, removals >>

(* A completion time that is no time cannot be read: the command ends       *)
(* without the inventory row, and so does every later one that meets the    *)
(* capture.  After two crashes two captures may have lost their times and   *)
(* are compared by their labels, of which one may be missing.               *)
InventoryRaises ==
  /\ pc = "record" /\ job.todo = {} /\ (TimesUnreadable \/ crashes > 1)
  /\ pc' = "idle" /\ job' = Nothing
  /\ UNCHANGED << registry, roots, contents, outputs, dataset, summary, inventory, issued, crashes, removals >>

EndCommand ==
  /\ pc = "done"
  /\ pc' = "idle" /\ job' = Nothing
  /\ UNCHANGED << registry, roots, contents, outputs, dataset, summary, inventory, issued, crashes, removals >>

-----------------------------------------------------------------------------
(* Crashes.  A torn capture.json is as good as none. *)

Abort ==
  /\ pc # "idle" /\ crashes + removals < MaxMishaps
  /\ pc' = "idle" /\ job' = Nothing /\ crashes' = crashes + 1
  /\ UNCHANGED << roots, contents, issued, removals >>

CrashBetweenSteps ==
  Abort /\ UNCHANGED << registry, outputs, dataset, summary, inventory >>

(* What the end of the file leaves of a row: its cells are written in the  *)
(* order uid, source, status, times, fingerprint, period.  A cut in the    *)
(* uid leaves a row nobody looks for, a time that is missing can be read.  *)
CutBeforeStatus(r) ==
  {[r EXCEPT !.source = FALSE, !.status = "unset", !.timed = TRUE,
             !.print = NoPrint, !.period = NoPeriod]}
CutInStatus(r) ==
  {[r EXCEPT !.status = s, !.timed = TRUE, !.print = NoPrint, !.period = NoPeriod] :
     s \in {"unset"} \cup (IF r.status = "unset" THEN {} ELSE {"cut"})}
CutInTimes(r) ==
  {[r EXCEPT !.timed = t, !.print = NoPrint, !.period = NoPeriod] : t \in BOOLEAN}
CutInPrint(r) == {[r EXCEPT !.print = NoPrint, !.period = NoPeriod]}

(* A period without its end is none; the text of an end that was cut sorts *)
(* before the whole one.                                                   *)
CutPeriods(p) ==
  {NoPeriod} \cup (IF p = NoPeriod THEN {} ELSE {<< p[1], e >> : e \in 0 .. p[2]})
CutInPeriod(r) == {[r EXCEPT !.period = p] : p \in CutPeriods(r.period)}

CutsOf(r) ==
  CutBeforeStatus(r) \cup CutInStatus(r) \cup CutInTimes(r) \cup CutInPrint(r)
    \cup CutInPeriod(r)

(* The registry a command is about to write. *)
NewRegistry == IF pc = "register" THEN Append(registry, NewRecord) ELSE WithStatus(NextToMark)

(* The file was truncated and rows are written one after the other.        *)
CrashWritingRegistry ==
  /\ \/ pc = "register"
     \/ pc = "record" /\ job.todo # {} /\ EveryRowOf(NextToMark) # {}
  /\ \E n \in 0 .. Len(NewRegistry) - 1 :
       \/ registry' = SubSeq(NewRegistry, 1, n)
       \/ \E r \in CutsOf(NewRegistry[n + 1]) :
            registry' = Append(SubSeq(NewRegistry, 1, n), r)
  /\ Abort /\ UNCHANGED << outputs, dataset, summary, inventory >>

(* The source's row is the last one: it is lost, or cut in its status, in  *)
(* its assembly status or in its reference.                                *)
CutInventory(i) ==
  {NoInventory}
    \cup {[i EXCEPT !.assembly = a, !.ref = FALSE] : a \in {"unset", i.assembly}}

CrashWritingInventory ==
  /\ pc = "record" /\ job.todo = {} /\ ~TimesUnreadable
  /\ inventory' \in CutInventory(Reduced(job.request))
  /\ Abort /\ UNCHANGED << registry, outputs, dataset, summary >>

CrashWritingMirrors ==
  /\ pc = "mirrors"
  /\ outputs' = [u \in Uids |-> IF u \in job.todo THEN "torn" ELSE outputs[u]]
  /\ Abort /\ UNCHANGED << registry, dataset, summary, inventory >>

(* The generated files are unlinked, then written, one after the other.    *)
CrashAssembling ==
  /\ \/ pc = "remove" /\ dataset # Nothing /\ dataset' = Torn /\ UNCHANGED summary
     \/ pc = "merge" /\ dataset' = Torn /\ UNCHANGED summary
     \/ pc = "summary" /\ summary' = Torn /\ UNCHANGED dataset
  /\ Abort /\ UNCHANGED << registry, outputs, inventory >>

Crash == \/ CrashBetweenSteps \/ CrashWritingRegistry \/ CrashWritingInventory
         \/ CrashWritingMirrors \/ CrashAssembling

-----------------------------------------------------------------------------

CommandStep ==
  \/ CopyFiles \/ WriteCaptureMetadata \/ AppendCaptureRecord
  \/ WriteMirrors \/ NormalizeRaises
  \/ RemoveGenerated \/ Merge \/ MergeRaises \/ WriteAssemblySummary
  \/ AppendCaptureStatus \/ UpdateSourceInventory \/ InventoryRaises \/ EndCommand

Next ==
  \/ \E d \in Drops : StartApply(d)
  \/ \E u \in Uids : StartProfile(u) \/ StartNormalize(u) \/ RemoveOutput(u)
  \/ StartAssemble
  \/ CommandStep
  \/ Crash

Spec == Init /\ [][Next]_vars

-----------------------------------------------------------------------------
(* Properties. *)

(* Registry rows, roots and outputs are of captures that were attempted; the *)
(* running command is one of the four.                                       *)
TypeOK ==
  /\ registry \in Seq([uid : Uids, source : BOOLEAN, status : RowStatuses,
                       timed : BOOLEAN,
                       print : {d.print : d \in Drops} \cup {NoPrint},
                       period : (Nat \X Nat) \cup {NoPeriod}])
  /\ roots \in [Uids -> {"absent", "files", "complete"}]
  /\ contents \in [Uids -> Drops \cup {Nothing}]
  /\ outputs \in [Uids -> OutputStates]
  /\ inventory \in [status : SourceStatuses,
                    assembly : {"unset", "pending", "excluded", "assembled"}, ref : BOOLEAN]
  /\ issued \in 0 .. MaxCaptures
  /\ pc \in {"idle", "copy", "metadata", "register", "mirrors", "remove", "merge", "summary",
             "record", "done"}
  /\ job \in Jobs \cup {Nothing} /\ (pc = "idle" <=> job = Nothing)
  /\ crashes \in 0 .. MaxMishaps /\ removals \in 0 .. MaxMishaps

(* A crash cut a row of the capture in its status.                           *)
StatusCut(u) == \E n \in RowsOf(u) : registry[n].status \in {"unset", "cut"}

(* A crash cut a row of the capture before its status: the row has no source *)
(* and hides every status that is appended after it.                         *)
SourceCut(u) == \E n \in EveryRowOf(u) : ~registry[n].source

(* The fingerprints the capture's rows still tell.                           *)
PrintsOf(u) == {registry[n].print : n \in RowsOf(u)} \ {NoPrint}

(* Once a capture has been normalized it stays includable: no later profile,  *)
(* normalize, assembly or missing output, and no crash that loses the tail of *)
(* the registry or cuts one of its rows, can turn its history into an         *)
(* excluded or a pending one, except a cut in a status of the capture itself. *)
NormalizedStaysIncludable ==
  \A u \in Registered :
    "normalized" \in StatusesOf(u) /\ ~StatusCut(u) => Includable(u) /\ ~PolicyExcluded(u)

(* A source dataset never holds one drop twice: whatever crashed before, of   *)
(* two captures merged by a finished assembly whose roots hold one drop the   *)
(* first has no row left that tells its fingerprint, and each was normalized. *)
NoDoubleCount ==
  pc = "done" /\ job.op = "assemble" =>
    \A u, v \in DOMAIN dataset :
      /\ "normalized" \in StatusesOf(u)
      /\ u < v /\ contents[u].print = contents[v].print => PrintsOf(u) = {}

(* A finished assembly settles the source, also after crashes: assembling     *)
(* again would include the same captures, the registry's verdicts are the     *)
(* summary's, save for a capture whose later statuses a cut row hides, and    *)
(* the inventory says "assembled" exactly when the dataset has a capture in   *)
(* it.                                                                        *)
AssembleSettles ==
  pc = "done" /\ job.op = "assemble" =>
    /\ {u \in Registered : Includable(u)} = job.included
    /\ {u \in Registered : PolicyExcluded(u) /\ ~Includable(u)} = job.excluded
    /\ \A u \in Registered :
         ~SourceCut(u) => (LatestStatus(u) = "assembly_included" <=> u \in summary.included)
    /\ DOMAIN dataset = summary.included
    /\ inventory.status = "assembled" <=> summary.included # {}
    /\ inventory.ref <=> summary.included # {}
    /\ inventory.assembly = "excluded" => summary.excluded # {}

(* Without crashes the inventory keeps up with the registry between commands: *)
(* it promises a dataset only when there is one and never forgets that a      *)
(* capture was profiled or normalized.                                        *)
InventoryKeepsUp ==
  Idle /\ crashes = 0 =>
    /\ inventory.status = "assembled" => dataset # Nothing /\ inventory.assembly = "assembled"
    /\ inventory.ref <=> inventory.assembly = "assembled"
    /\ \A u \in Registered :
         /\ "normalized" \in StatusesOf(u) => Rank(inventory.status) >= Rank("normalized")
         /\ "profiled" \in StatusesOf(u) => Rank(inventory.status) >= Rank("profiled")

(* As documented: a source is "normalized" when at least one capture has      *)
(* normalized output.                                                         *)
NormalizedHasOutput ==
  inventory.status = "normalized" => \E u \in Uids : outputs[u] = "mirrors"

(* As documented: assembly preserves the union of the evidence of the         *)
(* captures it accepts; each one it reports included put its mirrors in.      *)
IncludedContribute ==
  pc = "done" /\ job.op = "assemble" =>
    \A u \in summary.included : dataset[u] = "mirrors"
=============================================================================
