------------------------------ MODULE S3Store -------------------------------
(***************************************************************************)
(* boring-store/src/s3.rs: put, delete and list over a bucket, list page   *)
(* by page, while pods and other runs write.  A page is what the bucket    *)
(* holds after the last key of the page before, in the order of the keys.  *)
(***************************************************************************)
EXTENDS KeyStore

CONSTANTS
  PageSize,         \* keys of a page, 1000 in S3
  MaxFaults         \* bound: requests that fail

VARIABLES
  prefix,           \* of the call
  token,            \* continuation_token: keys up to this rank are over, 0 none
  keys,             \* collected so far
  faults

s3Vars == <<present, since, ever, call, answer, prefix, token, keys, faults>>

TypeOK ==
  /\ present \subseteq Keys
  /\ since \subseteq ever /\ ever \subseteq Keys
  /\ call \in {"idle", "listing", "listed", "failed"}
  /\ prefix \in Directories
  /\ token \in 0..Len(Order)
  /\ keys \in Seq(Under(prefix))
  /\ Len(keys) <= Len(Order)
  /\ token > 0 => Rank(Last(keys)) = token
  /\ faults \in 0..MaxFaults

S3Init ==
  /\ Init
  /\ prefix \in Directories
  /\ token = 0 /\ keys = <<>> /\ faults = 0

Fault == faults < MaxFaults /\ faults' = faults + 1

\* A failed request may have done its work.
S3Put(k) ==
  /\ Put(k)
  /\ UNCHANGED <<prefix, token, keys>> /\ (UNCHANGED faults \/ Fault)

S3Delete(k) ==
  /\ Delete(k)
  /\ UNCHANGED <<prefix, token, keys>> /\ (UNCHANGED faults \/ Fault)

ListBegins(p) ==
  /\ Begin(p)
  /\ prefix' = p /\ token' = 0 /\ keys' = <<>>
  /\ UNCHANGED faults

-----------------------------------------------------------------------------
\* list_objects_v2, external: what is left, and a page of the first keys of it.
Left == {k \in present \cap Under(prefix) : Rank(k) > token}

Truncated == Cardinality(Left) > PageSize

IsPageOf(S) ==
  /\ IF Truncated THEN Cardinality(S) = PageSize ELSE S = Left
  /\ \A k \in S, later \in Left \ S : Rank(k) < Rank(later)
Pages == UNION {Listings(S) : S \in {S \in SUBSET Left : IsPageOf(S)}}

NextToken(page) == Rank(Last(page))

Collected(page) == keys \o page

Advance(page) == keys' = Collected(page) /\ token' = NextToken(page)

NextPage ==
  /\ call = "listing"
  /\ Truncated
  /\ \E page \in Pages : Advance(page)
  /\ UNCHANGED <<present, since, ever, call, answer, prefix, faults>>

\* The same elements, as often each, in the order of the keys.
Sorted(s) ==
  LET n == Len(s) IN
  {t \in {[i \in 1..n |-> s[p[i]]] : p \in Bijection(1..n, 1..n)} :
     \A i, j \in 1..n : i < j => Rank(t[i]) <= Rank(t[j])}

LastPage ==
  /\ call = "listing"
  /\ ~Truncated
  /\ \E page \in Pages : keys' = Collected(page)
  /\ answer' \in Sorted(keys')
  /\ call' = "listed"
  /\ token' = 0
  /\ UNCHANGED <<present, since, ever, prefix, faults>>

RequestFails ==
  /\ call = "listing"
  /\ Fault
  /\ call' = "failed"
  /\ UNCHANGED <<present, since, ever, answer, prefix, token, keys>>

TakePage == NextPage \/ LastPage

S3Next ==
  \/ \E k \in Keys : S3Put(k) \/ S3Delete(k)
  \/ \E p \in Directories : ListBegins(p)
  \/ TakePage \/ RequestFails

S3Spec == S3Init /\ [][S3Next]_s3Vars

-----------------------------------------------------------------------------
\* list keeps the promise of Store, in any number of pages and whatever is
\* written or deleted between two of them; besides, it returns no key twice.
KeepsPromise ==
  /\ [Next]_vars
  /\ call = "listing" /\ call' = "listed" => Once(answer', Keys)
Contract == Init /\ [][KeepsPromise]_vars
=============================================================================
