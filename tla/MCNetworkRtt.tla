---------------------------- MODULE MCNetworkRtt ----------------------------
(***************************************************************************)
(* The script with every configuration and a few inputs; and, in           *)
(* behaviours of its own, the wait of spawnserver for the server's pages.  *)
(***************************************************************************)
EXTENDS NetworkRtt, WaitForAlloc

CONSTANT Parts
VARIABLE part

mcvars == <<rttvars, allocvars, part>>

\* The part that is not looked at keeps the first of its initial states.
MCInit ==
  /\ part \in Parts
  /\ RttInit /\ AllocInit
  /\ part = "waitforalloc" => conf = CHOOSE c \in Configurations : TRUE
  /\ part = "script" => total = 1 /\ numpages = 0

MCNext ==
  /\ UNCHANGED part
  /\ \/ part = "script" /\ RttNext /\ UNCHANGED allocvars
     \/ part = "waitforalloc" /\ AllocNext /\ UNCHANGED rttvars

MCSpec ==
  /\ MCInit /\ [][MCNext]_mcvars
  /\ WF_rttvars(part = "script" /\ Script) /\ WF_rttvars(part = "script" /\ ContendersExit)
  /\ part = "waitforalloc" => AllocFairness

BothParts == {"script", "waitforalloc"}
OnlyScript == {"script"}
OnlyWait == {"waitforalloc"}
=============================================================================
