--------------------------- MODULE ClientProvider ---------------------------
(***************************************************************************)
(* What getClient promises, with no cache and no lock: a call is answered  *)
(* with the client of some configuration that was in force at or after the *)
(* last change acknowledged before the call began, is refused only if such *)
(* a configuration was missing or unusable, and may fail with the storage. *)
(***************************************************************************)
EXTENDS Backend, Config, Naturals, Sequences

CONSTANT NoConfig

VARIABLES
  versions,   \* every configuration ever stored, oldest first
  acked,      \* the newest version whose change was acknowledged
  call        \* the getClient of each process, until it is done with it

vars == <<versions, acked, call>>

NoCall == [kind |-> "none"]

Init ==
  /\ versions = <<NoConfig>>
  /\ acked = 1
  /\ call = [p \in Procs |-> NoCall]

Pending(p) == call[p].kind = "asked"

Current(p) == call[p].floor .. Len(versions)

\* Any configuration may follow; it is read off the next state, because the
\* set of all configurations is too large to enumerate.
Change ==
  /\ Len(versions') = Len(versions) + 1
  /\ LET config == versions'[Len(versions')]
     IN  /\ config \in Config \cup {NoConfig}
         /\ versions' = Append(versions, config)
  /\ UNCHANGED <<acked, call>>

Acknowledge(v) ==
  /\ acked' = v
  /\ UNCHANGED <<versions, call>>

Ask(p) ==
  /\ call[p] = NoCall
  /\ call' = [call EXCEPT ![p] = [kind |-> "asked", floor |-> acked]]
  /\ UNCHANGED <<versions, acked>>

Give(p) ==
  /\ Pending(p)
  /\ \E v \in Current(p) :
       /\ versions[v] # NoConfig
       /\ Usable(versions[v])
       /\ call' = [call EXCEPT ![p] =
                     [kind |-> "client", client |-> ClientOf(versions[v])]]
  /\ UNCHANGED <<versions, acked>>

Refuse(p) ==
  /\ Pending(p)
  /\ \E v \in Current(p) : versions[v] = NoConfig \/ ~Usable(versions[v])
  /\ call' = [call EXCEPT ![p] = [kind |-> "refused"]]
  /\ UNCHANGED <<versions, acked>>

\* The storage reported an error.
Fail(p) ==
  /\ Pending(p)
  /\ call' = [call EXCEPT ![p] = [kind |-> "failed"]]
  /\ UNCHANGED <<versions, acked>>

Done(p) ==
  /\ call[p] # NoCall /\ ~Pending(p)
  /\ call' = [call EXCEPT ![p] = NoCall]
  /\ UNCHANGED <<versions, acked>>

\* The plugin dies with every call in it.
Crash ==
  /\ call' = [p \in Procs |-> NoCall]
  /\ UNCHANGED <<versions, acked>>

Next ==
  \/ Change
  \/ \E v \in acked .. Len(versions) : Acknowledge(v)
  \/ \E p \in Procs : Ask(p) \/ Give(p) \/ Refuse(p) \/ Fail(p) \/ Done(p)
  \/ Crash

Spec == Init /\ [][Next]_vars
=============================================================================
