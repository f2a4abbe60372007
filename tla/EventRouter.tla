---------------------------- MODULE EventRouter ----------------------------
(***************************************************************************)
(* Which hats an event activates, and in which order:                      *)
(* boring-controller/src/event_router.rs.                                  *)
(***************************************************************************)
EXTENDS Topic, FiniteSets

CONSTANTS
  Hats,             \* the hat ids of the configuration
  Triggers,         \* Triggers[h]: the trigger patterns of hat h
  MaxActivations,   \* on the hats that set max_activations, its value
  NoTarget          \* Event.target = None

ASSUME HatsAssumption ==
  /\ IsFiniteSet(Hats)
  /\ Hats # {}
  /\ NoTarget \notin Hats

ASSUME LimitAssumption ==
  /\ DOMAIN MaxActivations \subseteq Hats
  /\ \A h \in DOMAIN MaxActivations : MaxActivations[h] \in Nat

\* Event::is_system: the topic starts with "_system.".
IsSystem(topic) == Len(topic) > 1 /\ topic[1] = "_system"

MatchingTriggers(h, topic) == {p \in Triggers[h] : Matches(p, topic)}

\* The best specificity of h's triggers that match, when one does.
BestSpecificity(h, topic) ==
  LET scores == {Specificity(p) : p \in MatchingTriggers(h, topic)}
  IN  CHOOSE best \in scores : \A other \in scores : other <= best

\* EventRouter::route, as a set: who is interested in the event.
Interested(event) ==
  {h \in Hats : /\ ~IsSystem(event.topic)
                /\ event.target \in {NoTarget, h}
                /\ MatchingTriggers(h, event.topic) # {}}

\* Mutation: the limit is tested after the fact.
BelowLimitLate(h, activations) ==
  h \in DOMAIN MaxActivations => activations[h] <= MaxActivations[h]

\* The filter of route_with_state: max_activations is not used up.
BelowLimit(h, activations) ==
  h \in DOMAIN MaxActivations => activations[h] < MaxActivations[h]

\* Every way of listing S without repetition.
Orders(S) ==
  {order \in [1..Cardinality(S) -> S] :
     \A i, j \in 1..Cardinality(S) : order[i] = order[j] => i = j}

(***************************************************************************)
(* EventRouter::route_with_state.  Filtering a sorted list is sorting the  *)
(* filtered set.  The sort is stable over a HashMap's iteration order, so  *)
(* hats of equal specificity come in any order.                            *)
(***************************************************************************)
RouteWithState(event, activations) ==
  LET eligible == {h \in Interested(event) : BelowLimit(h, activations)}
  IN  {order \in Orders(eligible) :
         \A i, j \in DOMAIN order :
            i < j => BestSpecificity(order[i], event.topic)
                       >= BestSpecificity(order[j], event.topic)}
=============================================================================
