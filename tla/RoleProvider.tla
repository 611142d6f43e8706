---------------------------- MODULE RoleProvider ----------------------------
(***************************************************************************)
(* What writing and deleting a role promise, with no read and no storage:  *)
(* a request takes effect once, in one step, or not at all.  A write then  *)
(* puts in place a sound role, the request merged into an entry that was   *)
(* in force since it came; which one is open, because writes that overlap  *)
(* may undo each other.  A delete leaves nothing in place.                 *)
(***************************************************************************)
EXTENDS Backend, RoleEntry

CONSTANT RoleNames

VARIABLES
  roles,  \* the entry in force under each name
  call    \* the role request of each process

vars == <<roles, call>>

NoCall == [op |-> "none"]

Init ==
  /\ roles = [r \in RoleNames |-> NoRole]
  /\ call = [p \in Procs |-> NoCall]

Busy(p) == call[p].op # "none"

\* since is what has been in force under the name from then on.
Ask(p, op, r, q) ==
  /\ ~Busy(p)
  /\ call' = [call EXCEPT ![p] = [op |-> op, name |-> r, req |-> q, since |-> {roles[r]}]]
  /\ UNCHANGED roles

Outcomes(c) ==
  IF c.op = "delete" THEN {NoRole}
  ELSE {e \in {Merge(OrEmpty(old), c.req) : old \in c.since} : Sound(e)}

\* Whoever has a request about the name under way may have read this entry.
Replace(p, entry) ==
  /\ roles' = [roles EXCEPT ![call[p].name] = entry]
  /\ call' = [q \in Procs |->
       IF q = p THEN NoCall
       ELSE IF Busy(q) /\ call[q].name = call[p].name
              THEN [call[q] EXCEPT !.since = @ \cup {entry}]
              ELSE call[q]]

TakeEffect(p) ==
  /\ Busy(p)
  /\ \E entry \in Outcomes(call[p]) : Replace(p, entry)

\* The request is refused, the storage fails, or the plugin dies.
GiveUp(p) ==
  /\ Busy(p)
  /\ call' = [call EXCEPT ![p] = NoCall]
  /\ UNCHANGED roles

Next ==
  \E p \in Procs :
     \/ \E r \in RoleNames, q \in Requests : Ask(p, "write", r, q)
     \/ \E r \in RoleNames : Ask(p, "delete", r, NoRequest)
     \/ TakeEffect(p) \/ GiveUp(p)

Spec == Init /\ [][Next]_vars
=============================================================================
