---------------------------- MODULE WaitForAlloc ----------------------------
(***************************************************************************)
(* waitforalloc of network_rtt: the script learns that the server is up    *)
(* from the number of free huge pages, which it polls while the server,    *)
(* already started in the background, allocates them.                      *)
(***************************************************************************)
EXTENDS Naturals

CONSTANTS MaxPages   \* bound on the free huge pages at the start

ASSUME PagesAssumption == MaxPages \in Nat \ {0}

VARIABLES
  total, need, numpages,   \* free at the start, taken by the server, the argument
  free,                    \* HugePages_Free
  wpc, orig,                \* the script: program counter, last count kept
  seen                     \* history: the first count was taken before any allocation

allocvars == <<total, need, numpages, free, wpc, orig, seen>>

AllocInit ==
  /\ total \in 1..MaxPages /\ need \in 1..total /\ numpages \in 0..MaxPages
  /\ free = total
  /\ wpc = "count" /\ orig = 0 /\ seen = FALSE

\* The server takes another page.
Allocate ==
  /\ free > total - need
  /\ free' = free - 1
  /\ UNCHANGED <<total, need, numpages, wpc, orig, seen>>

countfreepages ==
  /\ wpc = "count"
  /\ orig' = free
  /\ seen' = (free = total)
  /\ wpc' = "drop"
  /\ UNCHANGED <<total, need, numpages, free>>

\* Mutant: the comparison with the argument is left out.
DropOnly ==
  /\ wpc = "drop"
  /\ free # orig
  /\ wpc' = "stable"
  /\ UNCHANGED <<total, need, numpages, free, orig, seen>>

\* The first loop: until the count differs from the first one.
Drop ==
  /\ wpc = "drop"
  /\ free # orig \/ orig = numpages
  /\ wpc' = "stable"
  /\ UNCHANGED <<total, need, numpages, free, orig, seen>>

\* The second loop compares a count with the one kept a second ago.
Stable ==
  /\ wpc = "stable"
  /\ wpc' = IF free = orig THEN "done" ELSE "keep"
  /\ UNCHANGED <<total, need, numpages, free, orig, seen>>

Keep ==
  /\ wpc = "keep"
  /\ orig' = free
  /\ wpc' = "stable"
  /\ UNCHANGED <<total, need, numpages, free, seen>>

Waiting == countfreepages \/ Drop \/ Stable \/ Keep

\* A turn of the first loop that finds nothing new, and the script after the call.
Poll == wpc = "drop" /\ UNCHANGED allocvars
Returned == wpc = "done" /\ UNCHANGED allocvars

AllocNext == Waiting \/ Allocate \/ Poll \/ Returned

\* The script polls, and the server allocates what it needs.
AllocFairness == WF_allocvars(Waiting) /\ WF_allocvars(Allocate)

-----------------------------------------------------------------------------
(* Properties *)

\* waitforalloc returns when its first count came before the server's first page, and
\* when the pages left over are the argument.
ReturnsWhenSeen == (seen \/ (wpc = "drop" /\ orig = numpages)) ~> wpc = "done"

\* "Wait for the number of free hugepages to drop.  Now wait for it to
\* stabilize!": once the server has its pages, the wait is over.
Returns == (free = total - need) ~> wpc = "done"
=============================================================================
