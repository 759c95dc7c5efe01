------------------------------ MODULE PtrChase ------------------------------
(***************************************************************************)
(* The lock server's work per request (clients/lockserver-ng.c): an array  *)
(* of pointers is linked at random into one cycle, the debug build checks  *)
(* the cycle with assertions, and every request follows the pointers until *)
(* they lead back to the first entry.                                      *)
(***************************************************************************)
EXTENDS Integers, FiniteSets

CONSTANT Lens  \* the lengths that the command line may ask for

ASSUME LensAssumption == Lens \subseteq Nat \ {0}  \* parse_arg_arg(&args.len, 'l', 1)

NULL == -1

VARIABLES
  len,        \* args->len
  arr,        \* the entries: the index each one points to, or NULL
  curr,       \* curr of the linking loop, then cur of the walks
  count,      \* the loop counters
  stage,
  path,       \* history: the entries in the order they were linked
  touched     \* history: the entries read by the current request

chasevars == <<len, arr, curr, count, stage, path, touched>>

Idx == 0..(len - 1)
Ptr == Idx \cup {NULL}

ChaseTypeOK ==
  /\ len \in Lens
  /\ arr \in [Idx -> Ptr]
  /\ curr \in Idx
  /\ count \in 1..len
  /\ stage \in {"link", "check", "walk", "recv", "chase", "reply", "abort"}
  /\ path \in [Idx -> Ptr]
  /\ touched \in SUBSET Idx

\* The mapping is anonymous and the caller has not written to it.
ChaseInit ==
  /\ len \in Lens
  /\ arr = [i \in Idx |-> NULL]
  /\ curr = 0
  /\ count = 1
  /\ stage = "link"
  /\ path = [i \in Idx |-> IF i = 0 THEN 0 ELSE NULL]
  /\ touched = {}

-----------------------------------------------------------------------------
(* ptrchase_setup *)

SelfLoop ==
  /\ stage = "link" /\ len = 1
  /\ arr' = [arr EXCEPT ![0] = 0]
  /\ stage' = "recv"
  /\ UNCHANGED <<len, curr, count, path, touched>>

\* One iteration: rand() is drawn again until the target is neither the
\* current entry nor linked already.
Link ==
  /\ stage = "link" /\ count < len
  /\ \E tgt \in Idx :
       /\ tgt # curr /\ arr[tgt] = NULL
       /\ arr' = [arr EXCEPT ![curr] = tgt]
       /\ path' = [path EXCEPT ![count] = tgt]
       /\ curr' = tgt
  /\ count' = count + 1
  /\ UNCHANGED <<len, stage, touched>>

Close ==
  /\ stage = "link" /\ len > 1 /\ count = len
  /\ arr' = [arr EXCEPT ![curr] = 0]
  /\ stage' = "check"
  /\ UNCHANGED <<len, curr, count, path, touched>>

\* The assertions on every entry; they also start the walk.
CheckEntries ==
  /\ stage = "check"
  /\ stage' = IF \A i \in Idx : arr[i] \in Idx \ {i} THEN "walk" ELSE "abort"
  /\ curr' = 0
  /\ count' = 1
  /\ UNCHANGED <<len, arr, path, touched>>

CheckWalk ==
  /\ stage = "walk" /\ count < len
  /\ curr' = arr[curr]
  /\ count' = count + 1
  /\ stage' = IF arr[curr] = 0 THEN "abort" ELSE "walk"
  /\ UNCHANGED <<len, arr, path, touched>>

CheckLast ==
  /\ stage = "walk" /\ count = len
  /\ stage' = IF arr[curr] = 0 THEN "recv" ELSE "abort"
  /\ UNCHANGED <<len, arr, curr, count, path, touched>>

-----------------------------------------------------------------------------
(* experiment: what happens to the packets is in LockProtocol *)

Receive ==
  /\ stage = "recv"
  /\ stage' = "chase"
  /\ curr' = 0
  /\ touched' = {}
  /\ UNCHANGED <<len, arr, count, path>>

\* Mutant: the chase stops when it has left the first entry.
ChaseOneStep ==
  /\ stage = "chase"
  /\ touched' = touched \cup {curr}
  /\ curr' = arr[curr]
  /\ stage' = IF curr = 0 THEN "reply" ELSE "chase"
  /\ UNCHANGED <<len, arr, count, path>>

Chase ==
  /\ stage = "chase"
  /\ touched' = touched \cup {curr}
  /\ curr' = arr[curr]
  /\ stage' = IF arr[curr] = 0 THEN "reply" ELSE "chase"
  /\ UNCHANGED <<len, arr, count, path>>

Reply ==
  /\ stage = "reply"
  /\ stage' = "recv"
  /\ UNCHANGED <<len, arr, curr, count, path, touched>>

Setup == SelfLoop \/ Link \/ Close \/ CheckEntries \/ CheckWalk \/ CheckLast
Serve == Chase \/ Reply

ChaseNext == Setup \/ Receive \/ Serve

ChaseSpec == ChaseInit /\ [][ChaseNext]_chasevars

-----------------------------------------------------------------------------
(* Properties *)

\* No assertion of the debug build fails, whatever rand() draws: the linking
\* loop closes one cycle through all the entries.
NoAssertFails == stage # "abort"

\* The loop that draws until it finds a free target never runs out of
\* targets: without this ptrchase_setup would spin for ever.
TargetExists ==
  stage = "link" /\ count < len => \E tgt \in Idx : tgt # curr /\ arr[tgt] = NULL

\* The answer to a request is sent after every entry of the array has been
\* read: the latency measured is that of the whole working set.
RequestTouchesAll == stage = "reply" => touched = Idx

\* No entry is read twice for one request: a chase that meets a smaller cycle
\* would never end.
ReadOnce == [][stage = "chase" => curr \notin touched]_chasevars
=============================================================================
