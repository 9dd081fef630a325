-------------------------- MODULE ReconcileHelper --------------------------
(***************************************************************************)
(* The generated Reconcile<Kind>s functions (the template of              *)
(* codegen/reconcile/main.go) as a controller calls them on every         *)
(* reconcile: for each named creator in order, EnsureNamedObject Gets the *)
(* object, Creates it when absent, leaves it alone when the creator does  *)
(* not change it, and otherwise Updates it, or, for a kind generated with *)
(* RequiresRecreate, Deletes it and Creates it again.  The first error    *)
(* ends the call; the caller's reconcile is requeued.                      *)
(*                                                                         *)
(* Objects are written concurrently by others (users, other controllers,  *)
(* the garbage collector): they edit, delete or create them.              *)
(***************************************************************************)
EXTENDS Naturals, Sequences

CONSTANTS
  Objects,    \* the names the creator getters return, in order
  MaxEdits,   \* bound on writes of the objects by others
  MaxFaults   \* bound on transient errors and controller crashes

ASSUME Len(Objects) > 0 /\ MaxEdits \in Nat /\ MaxFaults \in Nat

VARIABLES
  recreate,  \* the kind was generated with RequiresRecreate
  store,     \* each object in the API server: Absent, Desired or Drifted
  pc,        \* step of the reconciler: "idle", "get", "write", "create"
  i,         \* index of the creator the loop is at
  rd,        \* what the Get of Objects[i] returned
  dirty,     \* Objects[i] was written since that Get
  edits,     \* writes by others so far
  faults     \* errors and crashes so far

vars == <<recreate, store, pc, i, rd, dirty, edits, faults>>

\* Desired: what the creator returns for the object (it is a fixpoint of
\* the creator); Drifted: meaningful fields differ from that.
Absent == "absent"
Desired == "desired"
Drifted == "drifted"
States == {Absent, Desired, Drifted}

Names == {Objects[k] : k \in 1..Len(Objects)}
Name == Objects[i]

Init ==
  /\ recreate \in BOOLEAN
  /\ store \in [Names -> States]
  /\ pc = "idle" /\ i = 1 /\ rd = Absent /\ dirty = FALSE
  /\ edits = 0 /\ faults = 0

\* The next creator of the loop, or the end of the call.
Advance ==
  IF i = Len(Objects)
    THEN pc' = "idle" /\ i' = 1
    ELSE pc' = "get" /\ i' = i + 1

\* Any error is returned at once: the rest of the loop is not reached.
Abort == pc' = "idle" /\ i' = 1

Start ==
  /\ pc = "idle"
  /\ pc' = "get"
  /\ UNCHANGED <<recreate, store, i, rd, dirty, edits, faults>>

\* client.Get of the object; NotFound is not an error.
Get ==
  /\ pc = "get"
  /\ rd' = store[Name]
  /\ dirty' = FALSE
  /\ pc' = "write"
  /\ UNCHANGED <<recreate, store, i, edits, faults>>

\* The create path, from the creator applied to the zero object: refused
\* with AlreadyExists when someone created the object in between.
Create ==
  IF store[Name] = Absent
    THEN store' = [store EXCEPT ![Name] = Desired] /\ Advance
    ELSE UNCHANGED store /\ Abort

\* Plausible bug: the semantic comparison of the existing object with the
\* creator's output ignores the fields others changed, so a drifted
\* object is taken as unchanged.
UnchangedIgnoringDrift(s) == s /= Absent

\* The creator's output deep-equals the existing object.
Unchanged(s) == s = Desired

\* The write EnsureNamedObject chooses after its Get.  Update carries the
\* Get's resourceVersion; Delete is issued for the object the Get returned.
Write ==
  /\ pc = "write"
  /\ CASE rd = Absent -> Create /\ UNCHANGED dirty
       [] Unchanged(rd) -> Advance /\ UNCHANGED <<store, dirty>>
       [] ~recreate ->
            IF dirty \/ store[Name] = Absent
              THEN Abort /\ UNCHANGED <<store, dirty>>
              ELSE store' = [store EXCEPT ![Name] = Desired]
                   /\ Advance /\ UNCHANGED dirty
       [] OTHER ->
            IF store[Name] = Absent
              THEN Abort /\ UNCHANGED <<store, dirty>>
              ELSE /\ store' = [store EXCEPT ![Name] = Absent]
                   /\ pc' = "create" /\ UNCHANGED <<i, dirty>>
  /\ UNCHANGED <<recreate, rd, edits, faults>>

\* The Create after the Delete of a RequiresRecreate kind.
Recreate ==
  /\ pc = "create"
  /\ Create
  /\ UNCHANGED <<recreate, rd, dirty, edits, faults>>

\* A transient error or a crash of the controller at any step.
Fail ==
  /\ pc /= "idle"
  /\ faults < MaxFaults
  /\ Abort
  /\ faults' = faults + 1
  /\ UNCHANGED <<recreate, store, rd, dirty, edits>>

\* Someone else changes, deletes or creates an object.
Edit(n, s) ==
  /\ edits < MaxEdits
  /\ store[n] /= s
  /\ store' = [store EXCEPT ![n] = s]
  /\ dirty' = (dirty \/ (pc \in {"write", "create"} /\ Name = n))
  /\ edits' = edits + 1
  /\ UNCHANGED <<recreate, pc, i, rd, faults>>

Next ==
  \/ Start \/ Get \/ Write \/ Recreate \/ Fail
  \/ \E n \in Names, s \in States : Edit(n, s)

\* The caller is requeued after every error and resynced periodically.
Fairness ==
  WF_vars(Start) /\ WF_vars(Get) /\ WF_vars(Write) /\ WF_vars(Recreate)

Spec == Init /\ [][Next]_vars /\ Fairness

(***************************************************************************)
(* Properties                                                              *)
(***************************************************************************)
\* Every object the creators name ends up, and stays, as its creator wants
\* it, from any starting state, whatever others edited, deleted or
\* created, and although each error ends the loop before the later
\* objects (spec 4.1: level-triggered, converges eventually).
Converges == <>[](\A n \in Names : store[n] = Desired)

=============================================================================
