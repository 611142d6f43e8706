---------------------------- MODULE PasswordLife ----------------------------
(***************************************************************************)
(* What the engine promises about the passwords it makes, without saying   *)
(* how: a password is set on an account at most once, is handed to a       *)
(* caller only after it was set, and is reported revoked only when the     *)
(* account it was issued for has moved on to another.                      *)
(***************************************************************************)
EXTENDS Naturals

CONSTANTS Accounts, Passwords

VARIABLES
  current,   \* the password of each account; 0 is the one from before
  used,      \* the passwords that were ever set
  handed,    \* the passwords callers were given
  retired    \* the issued credentials reported revoked

vars == <<current, used, handed, retired>>

Init ==
  /\ current = [a \in Accounts |-> 0]
  /\ used = {}
  /\ handed = {}
  /\ retired = {}

Set(a, w) ==
  /\ w \notin used
  /\ current' = [current EXCEPT ![a] = w]
  /\ used' = used \cup {w}
  /\ UNCHANGED <<handed, retired>>

HandOut(w) ==
  /\ w \in used
  /\ handed' = handed \cup {w}
  /\ UNCHANGED <<current, used, retired>>

Retire(a, w) ==
  /\ w \in handed
  /\ current[a] # w
  /\ retired' = retired \cup {[at |-> a, pw |-> w]}
  /\ UNCHANGED <<current, used, handed>>

Next ==
  \E w \in Passwords :
    HandOut(w) \/ \E a \in Accounts : Set(a, w) \/ Retire(a, w)

Spec == Init /\ [][Next]_vars

-----------------------------------------------------------------------------
(* What this amounts to: a credential that was reported revoked is not, and *)
(* will not be, what opens its account.                                     *)
RetiredIsDead == \A r \in retired : current[r.at] # r.pw
=============================================================================
