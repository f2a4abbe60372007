---------------------------- MODULE MCTopicScan ----------------------------
(* Bounded instance of TopicScan: every pattern of up to three segments    *)
(* over one word and both wildcards, every subject of up to four segments  *)
(* over two words, and the empty string on both sides.                     *)
EXTENDS TopicScan

UpTo(n, segments) == UNION {[1..k -> segments] : k \in 1..n}

AllPatterns == UpTo(3, {"a", Star, Chevron}) \cup {<<"">>}
AllSubjects == UpTo(4, {"a", "b"}) \cup {<<"">>}
=============================================================================
