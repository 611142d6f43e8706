------------------------------ MODULE KVLemmas ------------------------------
(***************************************************************************)
(* What the requests of writeKVSecret (kv_sync.go:49-69) do to the         *)
(* secrets, for any secrets and keys.                                      *)
(***************************************************************************)
EXTENDS KVSync, TLAPS

Value == [Keys -> Nat]
Holds(s, k, w) == HasKey(s, k) /\ kv[s][k] = w
Strayed(w) == \E m \in late : m.pw = w

(* What a PATCH and a PUT leave of the values there were. *)
LEMMA WriteEffect ==
  ASSUME kv \in [Secrets -> Value \cup {NoSecret}],
         NEW r, r.secret \in Secrets, r.key \in Keys, r.pw \in Nat,
         \/ Exists(r) /\ kv' = Merged(r)
         \/ kv' = Created(r)
  PROVE  /\ kv' \in [Secrets -> Value \cup {NoSecret}]
         /\ \A s \in Secrets : kv[s] # NoSecret => kv'[s] # NoSecret
         /\ kv'[r.secret] # NoSecret /\ kv'[r.secret][r.key] = r.pw
         /\ \A s \in Secrets, k \in Keys : \A w :
              Holds(s, k, w)' => Holds(s, k, w) \/ (s = r.secret /\ k = r.key /\ w = r.pw)
<1>0. NoSecret \notin Value
  BY KVAssumption DEF Value
<1>1. PICK v \in Value :
        /\ kv' = [kv EXCEPT ![r.secret] = v]
        /\ v[r.key] = r.pw
        /\ \A k \in Keys \ {r.key} :
             v[k] # NoValue => kv[r.secret] # NoSecret /\ v[k] = kv[r.secret][k]
  <2>1. CASE Exists(r) /\ kv' = Merged(r)
    <3> DEFINE v == [kv[r.secret] EXCEPT ![r.key] = r.pw]
    <3>1. kv[r.secret] \in Value
      BY <2>1 DEF Exists
    <3>2. v \in Value /\ v[r.key] = r.pw /\ \A k \in Keys \ {r.key} : v[k] = kv[r.secret][k]
      BY <3>1 DEF Value
    <3>3. kv' = [kv EXCEPT ![r.secret] = v]
      BY <2>1 DEF Merged
    <3> HIDE DEF v
    <3> QED
      BY <2>1, <3>2, <3>3 DEF Exists
  <2>2. CASE kv' = Created(r)
    <3> DEFINE v == [k \in Keys |-> IF k = r.key THEN r.pw ELSE NoValue]
    <3>1. v \in Value /\ v[r.key] = r.pw /\ \A k \in Keys \ {r.key} : v[k] = NoValue
      BY DEF Value, NoValue
    <3>2. kv' = [kv EXCEPT ![r.secret] = v]
      BY <2>2 DEF Created
    <3> HIDE DEF v
    <3> QED
      BY <3>1, <3>2
  <2> QED
    BY <2>1, <2>2
<1>2. kv'[r.secret] = v /\ \A s \in Secrets \ {r.secret} : kv'[s] = kv[s]
  BY <1>1
<1>3. ASSUME NEW s \in Secrets, NEW k \in Keys, NEW w, Holds(s, k, w)'
      PROVE  Holds(s, k, w) \/ (s = r.secret /\ k = r.key /\ w = r.pw)
  <2>1. kv'[s] # NoSecret /\ kv'[s][k] # NoValue /\ kv'[s][k] = w
    BY <1>3 DEF Holds, HasKey
  <2> QED
    BY <1>1, <1>2, <2>1 DEF Holds, HasKey
<1> QED
  BY <1>0, <1>1, <1>2, <1>3

(* The request that costs a key its value is one for that key, or creates   *)
(* the secret for a call that began without it.                             *)
LEMMA KeyLost ==
  ASSUME kv \in [Secrets -> Value \cup {NoSecret}],
         NEW r, r.secret \in Secrets, r.key \in Keys, r.pw \in Nat,
         r.phase = "put" => ~r.existed,
         \/ r.phase = "patch" /\ Exists(r) /\ kv' = Merged(r)
         \/ r.phase = "put" /\ kv' = Created(r),
         NEW s \in Secrets, NEW k \in Keys,
         HasKey(s, k), ~(HasKey(s, k)' /\ kv'[s][k] = kv[s][k])
  PROVE  r.secret = s /\ (r.key = k \/ ~r.existed)
<1>0. NoSecret \notin Value
  BY KVAssumption DEF Value
<1>1. CASE r.phase = "patch" /\ Exists(r) /\ kv' = Merged(r)
  <2>1. /\ kv[r.secret] \in Value
        /\ kv' = [kv EXCEPT ![r.secret] = [kv[r.secret] EXCEPT ![r.key] = r.pw]]
    BY <1>1 DEF Merged, Exists
  <2>2. CASE s # r.secret
    BY <2>1, <2>2 DEF HasKey
  <2>3. CASE s = r.secret /\ k # r.key
    <3>1. kv'[s] = [kv[s] EXCEPT ![r.key] = r.pw]
      BY <2>1, <2>3
    <3>2. kv'[s] \in Value /\ kv'[s][k] = kv[s][k]
      BY <2>1, <2>3, <3>1 DEF Value
    <3> QED
      BY <1>0, <2>3, <3>2 DEF HasKey
  <2> QED
    BY <2>2, <2>3
<1>2. CASE r.phase = "put" /\ kv' = Created(r)
  BY <1>0, <1>2 DEF Created, HasKey
<1> QED
  BY <1>1, <1>2

=============================================================================
