------------------------------- MODULE MCAgent -------------------------------
(* What the commands of the pods may emit, and symmetry of the pods.       *)
EXTENDS Agent, TLC

Call(kind, text) == [kind |-> kind, text |-> text]

\* Nothing, an event and a note, or an event and completion; a raw text is one
\* that does not survive the file.
SomeEmits ==
  {<<>>,
   <<Call("note", "plain"), Call("event", "raw"), Call("event", "plain")>>,
   <<Call("event", "plain"), Call("event", "empty"), Call("complete", "plain")>>}
NoEmits == {<<>>}

\* Pods differ in nothing but their names.
PodSymmetry == Permutations(Pods)
=============================================================================
