------------------------------ MODULE Recovery ------------------------------
(***************************************************************************)
(* The bounded repair passes of the maintenance worker.  Each of four      *)
(* scans walks the rows that are due in key order, a page at a time,       *)
(* behind a cursor in feedback_maintenance_checkpoints that all replicas   *)
(* share.  A page is allocated under the cursor's row lock and processed   *)
(* after the commit, so a dead worker skips what it was allocated.         *)
(***************************************************************************)
EXTENDS Integers, FiniteSets, FiniteSetsExt

CONSTANTS
  Keys,            \* positions a row can have in the order of its scan
  Poison,          \* rows whose wake-up can never be published
  Replica,         \* maintenance workers
  PageSize,        \* FEEDBACK_*_RECOVERY_BATCH_SIZE
  ScanLimit,       \* rows one pass may examine
  MaxPassCrashes   \* bound: workers that die inside a pass

ASSUME RecoveryAssumption ==
  /\ Keys \in Nat /\ Poison \subseteq 1..Keys
  /\ PageSize \in Nat \ {0} /\ ScanLimit \in Nat \ {0} /\ MaxPassCrashes \in Nat

VARIABLES
  scan,       \* which of the scans this behaviour is about
  due,        \* rows that are due
  cursorKey,  \* the row's cursor, {} when it has none
  pass,       \* replica -> the pass it is in
  seenRows,   \* rows examined since they last became due
  deaths      \* crashes so far

recoveryVars == <<scan, due, cursorKey, pass, seenRows, deaths>>

Key  == 1..Keys
Scan == {"ingress_pending", "conversation_due", "summary_pending", "summary_auto"}

\* stale: rows of the page that became due again after it was read.
NoPass == [step |-> "idle", page |-> {}, stale |-> {}, examined |-> 0, tail |-> FALSE]

RecoveryInit ==
  /\ scan \in Scan
  /\ due = {} /\ cursorKey = {}
  /\ pass = [r \in Replica |-> NoPass]
  /\ seenRows = {} /\ deaths = 0

\* A row becomes due: an ingress row grows old, a conversation is dated, a wake-up
\* is lost or a campaign has closed its last conversation.
BecomesDue(k) ==
  /\ k \notin due
  /\ due' = due \cup {k} /\ seenRows' = seenRows \ {k}
  /\ pass' = [r \in Replica |->
       [pass[r] EXCEPT !.stale = IF k \in pass[r].page THEN @ \cup {k} ELSE @]]
  /\ UNCHANGED <<scan, cursorKey, deaths>>

\* Somebody else serves it.
Served(k) ==
  /\ k \in due
  /\ due' = due \ {k}
  /\ UNCHANGED <<scan, cursorKey, pass, seenRows, deaths>>

Begin(r) ==
  /\ pass[r].step = "idle"
  /\ pass' = [pass EXCEPT ![r] = [NoPass EXCEPT !.step = "allocate"]]
  /\ UNCHANGED <<scan, due, cursorKey, seenRows, deaths>>

Smallest(rows, n) ==
  {k \in rows : Cardinality({j \in rows : j < k}) < n}

After(c) == {k \in due : \A j \in c : k > j}

\* Where the next page begins: at the front after a short page, except that the
\* scan of pending summaries learns it from the empty page that follows.
TailCursor(page, size) ==
  IF Cardinality(page) < size /\ scan # "summary_pending" THEN {} ELSE {Max(page)}

\* Mutant: an empty page behind a cursor ends the pass.
AllocateForward(r) ==
  LET size == IF scan = "ingress_pending" THEN PageSize
              ELSE Min({PageSize, ScanLimit - pass[r].examined})
      page == Smallest(After(cursorKey), size)
  IN /\ pass[r].step = "allocate"
     /\ IF page = {}
        THEN UNCHANGED cursorKey /\ pass' = [pass EXCEPT ![r] = NoPass]
        ELSE /\ cursorKey' = TailCursor(page, size)
             /\ pass' = [pass EXCEPT ![r].step = "publish", ![r].page = page,
                  ![r].examined = @ + Cardinality(page),
                  ![r].tail = Cardinality(page) < size]
     /\ UNCHANGED <<scan, due, seenRows, deaths>>

\* One page under the cursor's lock.  An empty page behind a cursor clears it, and
\* the first page of a pass starts again at the front.
Allocate(r) ==
  LET size == IF scan = "ingress_pending" THEN PageSize
              ELSE Min({PageSize, ScanLimit - pass[r].examined})
      behind == Smallest(After(cursorKey), size)
      first == pass[r].examined = 0
      page == IF behind = {} /\ first THEN Smallest(due, size) ELSE behind
  IN /\ pass[r].step = "allocate"
     /\ IF page = {}
        THEN cursorKey' = {} /\ pass' = [pass EXCEPT ![r] = NoPass]
        ELSE /\ cursorKey' = TailCursor(page, size)
             /\ pass' = [pass EXCEPT ![r].step = "publish", ![r].page = page,
                  ![r].examined = @ + Cardinality(page),
                  ![r].tail = Cardinality(page) < size]
     /\ UNCHANGED <<scan, due, seenRows, deaths>>

\* The rows of a page are published one by one; a failure is collected and the next
\* row follows.
Publish1(r) ==
  /\ pass[r].step = "publish" /\ pass[r].page # {}
  /\ LET k == Min(pass[r].page)
     IN /\ seenRows' = seenRows \cup ({k} \ (Poison \cup pass[r].stale))
        /\ pass' = [pass EXCEPT ![r].page = @ \ {k}, ![r].stale = @ \ {k}]
  /\ UNCHANGED <<scan, due, cursorKey, deaths>>

\* Another page, or the end of the pass.
EndPage(r) ==
  /\ pass[r].step = "publish" /\ pass[r].page = {}
  /\ pass' = [pass EXCEPT ![r] =
       IF scan = "ingress_pending" \/ pass[r].tail \/ pass[r].examined >= ScanLimit
       THEN NoPass ELSE [@ EXCEPT !.step = "allocate"]]
  /\ UNCHANGED <<scan, due, cursorKey, seenRows, deaths>>

PassDies(r) ==
  /\ pass[r].step = "publish" /\ deaths < MaxPassCrashes
  /\ deaths' = deaths + 1
  /\ pass' = [pass EXCEPT ![r] = NoPass]
  /\ UNCHANGED <<scan, due, cursorKey, seenRows>>

PassStep(r) == Begin(r) \/ Allocate(r) \/ Publish1(r) \/ EndPage(r)

RecoveryNext ==
  \/ \E k \in Key : BecomesDue(k) \/ Served(k)
  \/ \E r \in Replica : PassStep(r) \/ PassDies(r)

RecoverySpec == RecoveryInit /\ [][RecoveryNext]_recoveryVars

-----------------------------------------------------------------------------
\* Every variable keeps its type; a pass never examines more than its limit.
RecoveryTypeOK ==
  /\ scan \in Scan /\ due \subseteq Key /\ seenRows \subseteq Key
  /\ cursorKey \in {{}} \cup {{k} : k \in Key}
  /\ pass \in [Replica -> [step : {"idle", "allocate", "publish"}, page : SUBSET Key,
                           stale : SUBSET Key, examined : 0..(ScanLimit + PageSize), tail : BOOLEAN]]
  /\ \A r \in Replica : scan # "ingress_pending" => pass[r].examined <= ScanLimit
  /\ deaths \in 0..MaxPassCrashes

\* A row that stays due is examined, although others become due before it and after
\* it all the time, poisonous rows stand in front of it, other replicas move the
\* cursor and workers die with its page.
DueRowIsExamined ==
  \A k \in Key \ Poison : k \in due ~> k \in seenRows \/ k \notin due
=============================================================================
