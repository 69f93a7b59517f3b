----------------------------- MODULE MCCoreNode -----------------------------
(***************************************************************************)
(* Instances of CoreNode for TLC: eight kinds of call, of which up to      *)
(* MaxCalls arrive, and a bound on the handlers dropped and the crashes.   *)
(***************************************************************************)
EXTENDS CoreNode

CONSTANTS MaxCalls, MaxCancels, MaxCrashes

VARIABLES cancels, crashes

\* tx and again repeat one transaction of two statements, and broken is the same
\* id with a statement that cannot be decoded; each and mixed are independent
\* statements, the second of mixed cannot be decoded; one has no id; the two
\* others are empty.
SomeCalls == {"tx", "again", "broken", "each", "mixed", "one", "emptytx", "empty"}
SomeIdOf ==
  [c \in SomeCalls |-> CASE c \in {"tx", "again", "broken"} -> "a"
                         [] c \in {"each", "mixed", "emptytx"} -> "b"
                         [] OTHER -> "none"]
SomeAtomic == {"tx", "again", "broken", "emptytx"}
SomeSize ==
  [c \in SomeCalls |-> CASE c \in {"emptytx", "empty"} -> 0
                         [] c \in {"one", "broken"} -> 1
                         [] OTHER -> 2]
SomeMalformed ==
  [c \in SomeCalls |-> CASE c = "broken" -> {1} [] c = "mixed" -> {2} [] OTHER -> {}]

Arrived == {c \in Calls : pc[c] # "new"}

MCInit == Init /\ cancels = 0 /\ crashes = 0

MCNext ==
  \/ /\ Cardinality(Arrived) < MaxCalls
     /\ \E c \in Calls : Start(c)
     /\ UNCHANGED <<cancels, crashes>>
  \/ (Work \/ Restart) /\ UNCHANGED <<cancels, crashes>>
  \/ /\ cancels < MaxCancels
     /\ \E c \in Calls : Cancel(c)
     /\ cancels' = cancels + 1 /\ UNCHANGED crashes
  \/ /\ crashes < MaxCrashes
     /\ Crash
     /\ crashes' = crashes + 1 /\ UNCHANGED cancels

MCSpec == MCInit /\ [][MCNext]_<<vars, cancels, crashes>>

=============================================================================
