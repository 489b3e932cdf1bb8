------------------------- MODULE NormalizeContract -------------------------
(* What `source normalize` promises to whoever reads a capture's products,  *)
(* however the rerun engine gets there: the plan on record changes at once, *)
(* to exactly the plan that building everything from the raw capture would  *)
(* record, and at that moment the kernel files hold the products it names.  *)
(* A run that does not get that far leaves the plan as it was, or none.     *)
CONSTANTS
  Contents,     \* what the raw capture may hold
  Refs,         \* product refs
  Values,       \* what a kernel file may hold
  Absent,       \* no such product
  Nothing,      \* no plan on record
  PlanFor(_)    \* the plan that building from a raw capture records

VARIABLES
  content,      \* the raw capture
  phase,        \* of the run: "idle", "working", or "published"
  plan,         \* the plan on record
  kernels       \* [ref -> what its kernel file holds]
vars == << content, phase, plan, kernels >>

Named(p) == {r \in Refs : p.products[r] # Absent}
Holds(p) == \A r \in Named(p) : kernels[r] = p.products[r]

Init ==
  /\ content \in Contents /\ phase = "idle" /\ plan = Nothing
  /\ kernels \in [Refs -> Values]

(* Between runs the operator edits the capture; files may get damaged.      *)
Edit ==
  /\ phase = "idle" /\ content' \in Contents
  /\ UNCHANGED << phase, plan, kernels >>

Damage ==
  /\ phase = "idle" /\ kernels' \in [Refs -> Values]
  /\ UNCHANGED << content, phase, plan >>

Start ==
  /\ phase = "idle" /\ phase' = "working"
  /\ UNCHANGED << content, plan, kernels >>

Work ==
  /\ phase = "working" /\ kernels' \in [Refs -> Values]
  /\ UNCHANGED << content, phase, plan >>

Publish ==
  /\ phase = "working" /\ phase' = "published"
  /\ Holds(PlanFor(content)) /\ plan' = PlanFor(content)
  /\ UNCHANGED << content, kernels >>

(* The run is blocked or dies; the plan it was replacing may be lost.       *)
Abandon ==
  /\ phase = "working" /\ phase' = "idle"
  /\ plan' \in {plan, Nothing} /\ kernels' \in [Refs -> Values]
  /\ UNCHANGED content

Finish ==
  /\ phase = "published" /\ phase' = "idle"
  /\ UNCHANGED << content, plan, kernels >>

Next == Edit \/ Damage \/ Start \/ Work \/ Publish \/ Abandon \/ Finish

Spec == Init /\ [][Next]_vars
=============================================================================
