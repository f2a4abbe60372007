------------------------------ MODULE Services ------------------------------
(***************************************************************************)
(* The services a controller is handed: either store, and a subscription.  *)
(* Each behaviour is of one of them, "part"; the variables of the others   *)
(* keep one value.                                                         *)
(***************************************************************************)
EXTENDS Integers, Sequences

CONSTANTS
  LocalOrder, LocalDirectories,   \* the keys of the local store
  S3Order, S3Directories,         \* and of the bucket
  PageSize,
  MaxFaults,                      \* of a store
  Publishers, MaxEvents, ClientBuffer, Channel, MaxDisconnects

ASSUME BoundsAssumption ==
  /\ PageSize \in Nat \ {0}
  /\ MaxFaults \in Nat /\ MaxEvents \in Nat /\ MaxDisconnects \in Nat
  /\ ClientBuffer \in Nat /\ Channel \in Nat

\* Keys are paths of names.
Paths == Seq(STRING)
ASSUME KeysAssumption == LocalOrder \in Seq(Paths) /\ S3Order \in Seq(Paths)

VARIABLES
  part,
  present, since, ever, call, answer, keys, faults,   \* of both stores
  dirs, stack, current, owed, late, twice,            \* the directory walk
  prefix, token,                                      \* the paged listing
  stream, unconfirmed, stage, subscribed, connected, buffer, forwarding, channel,
  taken, dropped, disconnects                         \* the subscription

Local == INSTANCE LocalStore WITH Order <- LocalOrder, Directories <- LocalDirectories
Bucket == INSTANCE S3Store WITH Order <- S3Order, Directories <- S3Directories
Broker == INSTANCE Subscription

\* No file has the name of a directory, and no directory the name of none.
ASSUME DirectoriesAssumption ==
  \A k, l \in Local!Keys : k \notin Local!Parents(l) /\ Local!NoDir \notin Local!Parents(l)

walkVars == <<dirs, stack, current, owed, late, twice>>
pageVars == <<prefix, token>>
storeVars == <<present, since, ever, call, answer, keys, faults>>
brokerVars == <<stream, unconfirmed, stage, subscribed, connected, buffer, forwarding, channel,
                taken, dropped, disconnects>>
vars == <<part, storeVars, walkVars, pageVars, brokerVars>>

NoWalk ==
  dirs = {} /\ stack = <<>> /\ current = <<>> /\ owed = {} /\ late = {} /\ twice = {}
NoPages == prefix = <<>> /\ token = 0
NoStore == present = {} /\ since = {} /\ ever = {} /\ call = "idle" /\ answer = <<>> /\ keys = {} /\ faults = 0
NoBroker ==
  /\ stream = <<>> /\ unconfirmed = {} /\ stage = "" /\ subscribed = 0
  /\ connected = TRUE /\ disconnects = 0
  /\ buffer = <<>> /\ forwarding = <<>> /\ channel = <<>> /\ taken = <<>> /\ dropped = {}

Init ==
  \/ part = "local" /\ Local!LocalInit /\ NoPages /\ NoBroker
  \/ part = "s3" /\ Bucket!S3Init /\ NoWalk /\ NoBroker
  \/ part = "broker" /\ Broker!Init /\ NoStore /\ NoWalk /\ NoPages

InLocal == part = "local" /\ UNCHANGED <<part, pageVars, brokerVars>>
InBucket == part = "s3" /\ UNCHANGED <<part, walkVars, brokerVars>>
InBroker == part = "broker" /\ UNCHANGED <<part, storeVars, walkVars, pageVars>>

Next ==
  \/ InLocal /\ Local!LocalNext
  \/ InBucket /\ Bucket!S3Next
  \/ InBroker /\ Broker!Next

Spec ==
  /\ Init /\ [][Next]_vars
  /\ WF_vars(InBroker /\ Broker!Receive)
  /\ WF_vars(InBroker /\ (Broker!Send \/ Broker!SendFails))
  /\ WF_vars(InBroker /\ Broker!GoOn)

-----------------------------------------------------------------------------
TypeOK ==
  CASE part = "local" -> Local!TypeOK
    [] part = "s3" -> Bucket!TypeOK
    [] part = "broker" -> Broker!TypeOK

\* Every variable of the part has its type, and the loop is given what reached
\* the client once, in order, without gaps.
TakenInOrder == TypeOK /\ (part = "broker" => Broker!InOrderWithoutGaps)

(***************************************************************************)
(* Between the steps of a directory walk and between two pages, whatever   *)
(* is written, deleted or created meanwhile, list returns every key that   *)
(* is there throughout and none that never was.                            *)
(***************************************************************************)
ListContract ==
  [][/\ part = "local" => Local!KeepsPromise
     /\ part = "s3" => Bucket!KeepsPromise]_vars

\* What the client holds is given to the loop in the end, unless the loop has
\* returned; and then the task that would forward it ends.
ServicesFinish == part = "broker" => Broker!EventuallyTaken /\ Broker!TaskEnds
=============================================================================
