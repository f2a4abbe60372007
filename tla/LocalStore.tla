----------------------------- MODULE LocalStore -----------------------------
(***************************************************************************)
(* boring-store/src/local.rs: put and delete of files under a base         *)
(* directory, and list, which walks the directories while others write.    *)
(* put creates the directories it needs; nothing removes one.              *)
(***************************************************************************)
EXTENDS KeyStore

CONSTANT
  MaxFaults         \* bound: file operations that fail

VARIABLES
  dirs,             \* the directories there are
  stack,            \* of the walk: directories to read
  current,          \* the one it reads, or NoDir
  owed,             \* its entries that were there when it was opened, unread
  late,             \* those that have come since, unread
  keys,             \* files found so far
  twice,            \* those found more than once, which counts as two
  faults

localVars ==
  <<present, since, ever, call, answer, dirs, stack, current, owed, late, keys, twice, faults>>

NoDir == <<"none">>

\* The directories a key lies in, the base directory among them.
Parents(k) == {SubSeq(k, 1, n) : n \in 0..Len(k) - 1}

Entries(dir) == {e \in present \cup dirs : Len(e) = Len(dir) + 1 /\ IsPrefix(dir, e)}

TypeOK ==
  /\ present \subseteq Keys
  /\ \A k \in present : Parents(k) \subseteq dirs
  /\ since \subseteq ever /\ ever \subseteq Keys
  /\ call \in {"idle", "listing", "listed", "failed"}
  /\ ToSet(stack) \subseteq dirs /\ IsInjective(stack)
  /\ current \in (dirs \ ToSet(stack)) \cup {NoDir}
  /\ call # "listing" => current = NoDir /\ stack = <<>>
  /\ twice \subseteq keys /\ keys \subseteq Keys
  /\ faults \in 0..MaxFaults

LocalInit ==
  /\ Init
  /\ dirs = UNION {Parents(k) : k \in present}
  /\ stack = <<>> /\ current = NoDir /\ owed = {} /\ late = {} /\ keys = {} /\ twice = {}
  /\ faults = 0

Fault == faults < MaxFaults /\ faults' = faults + 1
walkVars == <<stack, current, keys, twice>>

\* What the directory that is read is given meanwhile.
Comes == late' = late \cup (Entries(current)' \ Entries(current))

\* create_dir_all, then the file.
CreateDirs(k) ==
  /\ ~(Parents(k) \subseteq dirs)
  /\ dirs' = dirs \cup Parents(k)
  /\ UNCHANGED <<vars, walkVars, owed, faults>>
  /\ Comes

WriteFile(k) ==
  /\ Parents(k) \subseteq dirs
  /\ Put(k)
  /\ UNCHANGED <<dirs, walkVars, owed>> /\ (UNCHANGED faults \/ Fault)
  /\ Comes

RemoveFile(k) ==
  /\ Delete(k)
  /\ owed' = owed \ {k} /\ late' = late \ {k}
  /\ UNCHANGED <<dirs, walkVars>> /\ (UNCHANGED faults \/ Fault)

-----------------------------------------------------------------------------
\* A directory that is not there is an empty list.
ListBegins(p) ==
  /\ Begin(p)
  /\ stack' = <<p>> /\ p \in dirs
  /\ current' = NoDir /\ owed' = {} /\ late' = {} /\ keys' = {} /\ twice' = {}
  /\ UNCHANGED <<dirs, faults>>

ListsNothing(p) ==
  /\ call # "listing"
  /\ p \notin dirs
  /\ call' = "listed" /\ answer' = <<>>
  /\ since' = {} /\ ever' = {}
  /\ UNCHANGED <<present, dirs, walkVars, owed, late, faults>>

Popped == Front(stack)

OpenDir ==
  /\ call = "listing" /\ current = NoDir /\ stack # <<>>
  /\ current' = Last(stack)
  /\ stack' = Popped
  /\ owed' = Entries(Last(stack)) /\ late' = {}
  /\ UNCHANGED <<vars, dirs, keys, twice, faults>>

\* Mutation: directories below are passed over.
PassedOver(e) == stack
Pushed(e) == Append(stack, e)

(***************************************************************************)
(* read_dir, external: it returns what was there when it was opened and    *)
(* still is, and may or may not return what has come since; so a file that *)
(* went and came again may be returned again.                              *)
(***************************************************************************)
FileFound(e) ==
  /\ keys' = keys \cup {e}
  /\ twice' = twice \cup ({e} \cap keys)

NextEntry ==
  /\ current # NoDir
  /\ \E e \in owed \cup late :
       /\ IF e \in dirs
          THEN stack' = Pushed(e) /\ UNCHANGED <<keys, twice>>
          ELSE FileFound(e) /\ UNCHANGED stack
       /\ owed' = owed \ {e} /\ late' = late \ {e}
  /\ UNCHANGED <<vars, dirs, current, faults>>

CloseDir ==
  /\ current # NoDir /\ owed = {}
  /\ current' = NoDir /\ late' = {}
  /\ UNCHANGED <<vars, dirs, stack, owed, keys, twice, faults>>

NothingLeft == current = NoDir /\ stack = <<>>

\* What was found, in order: sort leaves in what is there twice.
Found ==
  {s \in [1..Cardinality(keys) + Cardinality(twice) -> keys] :
     /\ InOrder(s) /\ Once(s, keys \ twice)
     /\ Range(s) = keys
     /\ \A k \in twice : ~Once(s, {k})}

ListReturns ==
  /\ call = "listing" /\ NothingLeft
  /\ call' = "listed"
  /\ answer' \in Found
  /\ UNCHANGED <<present, since, ever, dirs, walkVars, owed, late, faults>>

ReadFails ==
  /\ call = "listing"
  /\ Fault
  /\ call' = "failed"
  /\ stack' = <<>> /\ current' = NoDir /\ owed' = {} /\ late' = {}
  /\ UNCHANGED <<present, since, ever, answer, dirs, keys, twice>>

Walk == OpenDir \/ NextEntry \/ CloseDir \/ ListReturns

LocalNext ==
  \/ \E k \in Keys : CreateDirs(k) \/ WriteFile(k) \/ RemoveFile(k)
  \/ \E p \in Directories : ListBegins(p) \/ ListsNothing(p)
  \/ Walk \/ ReadFails

LocalSpec == LocalInit /\ [][LocalNext]_localVars

-----------------------------------------------------------------------------
\* list keeps the promise of Store, whatever is written, deleted or created
\* while it walks; a list of nothing is one that begins and returns at once.
KeepsPromise == [Next]_vars \/ \E p \in Directories : ListsNothing(p)
Contract == Init /\ [][KeepsPromise]_vars
=============================================================================
