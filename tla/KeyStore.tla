------------------------------ MODULE KeyStore ------------------------------
(***************************************************************************)
(* What callers of the trait Store (boring-store/src/traits.rs) may rely   *)
(* on while others write: a call to put or delete takes effect at once, or *)
(* fails and may have taken effect; a call to list takes time, and what it *)
(* returns has every key that was there all along, once, none that never   *)
(* was, and is in order.  It need not be what was there at any one time,   *)
(* and a key that goes and comes again may be in it more than once.        *)
(***************************************************************************)
EXTENDS FiniteSets, Integers, Sequences, SequencesExt

CONSTANTS
  Order,            \* the keys, paths of segments, in the order of their text
  Directories       \* what list is called with: directories, <<>> for all

Keys == Range(Order)
Under(prefix) == {k \in Keys : IsPrefix(prefix, k)}
Rank(k) == CHOOSE i \in DOMAIN Order : Order[i] = k

\* A list of the keys in S, each once.
IsListing(s, S) ==
  s \in Seq(S) /\ Range(s) = S /\ \A i, j \in DOMAIN s : i < j => Rank(s[i]) < Rank(s[j])
Listings(S) == {s \in [1..Cardinality(S) -> S] : IsListing(s, S)}

InOrder(s) == \A i, j \in DOMAIN s : i < j => Rank(s[i]) <= Rank(s[j])
Once(s, S) == \A i, j \in DOMAIN s : i < j /\ s[i] \in S => s[i] # s[j]

VARIABLES
  present,          \* the keys that have a value
  since, ever,      \* of a list call: there all along, there at some time
  call,             \* "idle", "listing", "listed" or "failed"
  answer            \* what the last call returned

vars == <<present, since, ever, call, answer>>

Init ==
  /\ present \in SUBSET Keys
  /\ since = {} /\ ever = {}
  /\ call = "idle" /\ answer = <<>>

Put(k) ==
  /\ present' = present \cup {k}
  /\ ever' = IF call = "listing" THEN ever \cup {k} ELSE ever
  /\ UNCHANGED <<since, call, answer>>

Delete(k) ==
  /\ present' = present \ {k}
  /\ since' = since \ {k}
  /\ UNCHANGED <<ever, call, answer>>

Begin(prefix) ==
  /\ call \in {"idle", "listed", "failed"}
  /\ call' = "listing"
  /\ since' = present \cap Under(prefix)
  /\ ever' = present
  /\ answer' = <<>>
  /\ UNCHANGED present

Return ==
  /\ call = "listing" /\ call' = "listed"
  /\ answer' \in Seq(ever)
  /\ since \subseteq Range(answer')
  /\ InOrder(answer') /\ Once(answer', since)
  /\ UNCHANGED <<present, since, ever>>

Fail ==
  /\ call = "listing" /\ call' = "failed"
  /\ UNCHANGED <<present, since, ever, answer>>

Next ==
  \/ \E k \in Keys : Put(k) \/ Delete(k)
  \/ \E p \in Directories : Begin(p)
  \/ Return \/ Fail

Spec == Init /\ [][Next]_vars
=============================================================================
