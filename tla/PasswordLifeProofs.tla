------------------------- MODULE PasswordLifeProofs -------------------------
(***************************************************************************)
(* What PasswordLife promises, for any accounts and passwords, and hence   *)
(* whatever implements it.                                                 *)
(***************************************************************************)
EXTENDS PasswordLife, TLAPS

(* What was handed out or retired was set, so that it is not set again. *)
LifeInv ==
  /\ current \in [Accounts -> Nat]
  /\ handed \subseteq used
  /\ \A r \in retired : r.at \in Accounts /\ r.pw \in used
  /\ RetiredIsDead

LEMMA LifeInvStep ==
  ASSUME Passwords \subseteq Nat
  PROVE  LifeInv /\ [Next]_vars => LifeInv'
<1> SUFFICES ASSUME LifeInv, [Next]_vars PROVE LifeInv'
  OBVIOUS
<1> USE DEF LifeInv, RetiredIsDead
<1>1. ASSUME NEW w \in Passwords, HandOut(w) PROVE LifeInv'
  BY <1>1 DEF HandOut
<1>2. ASSUME NEW w \in Passwords, NEW a \in Accounts, Set(a, w) PROVE LifeInv'
  BY <1>2 DEF Set
<1>3. ASSUME NEW w \in Passwords, NEW a \in Accounts, Retire(a, w) PROVE LifeInv'
  BY <1>3 DEF Retire
<1>4. ASSUME UNCHANGED vars PROVE LifeInv'
  BY <1>4 DEF vars
<1> QED
  BY <1>1, <1>2, <1>3, <1>4 DEF Next

(* The rules for single steps are enough: an implementation of PasswordLife *)
(* never lets a credential reported revoked open its account again, whoever *)
(* it is for (path_credentials.go:143-166).                                 *)
THEOREM LifeIsFinal ==
  ASSUME Passwords \subseteq Nat
  PROVE  Spec => []RetiredIsDead
<1>1. Init => LifeInv
  BY DEF Init, LifeInv, RetiredIsDead
<1>2. LifeInv => RetiredIsDead
  BY DEF LifeInv
<1> QED
  BY <1>1, <1>2, LifeInvStep, PTL DEF Spec

=============================================================================
