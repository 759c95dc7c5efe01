----------------------------- MODULE NetworkRtt -----------------------------
(***************************************************************************)
(* The driver script network_rtt: for every value of the independent       *)
(* variable it records up to four trials, one per data series.  A trial    *)
(* starts the server and the contending processes, each in the cache       *)
(* partition (resource group) that the shell is in when it forks them,     *)
(* waits for the remote client, measures, and takes everything down.       *)
(***************************************************************************)
EXTENDS Naturals, Sequences

CONSTANTS Inputs,       \* number of values of the independent variable
          MaxTimeouts   \* bound on the client's start-up timeouts

ASSUME InputsAssumption == Inputs \in Nat \ {0} /\ MaxTimeouts \in Nat

Series == <<"baseline", "basealloc", "contention", "allocation">>
Root == "root"
None == "none"

\* The command line (options can be combined) and the hook file.
Configurations ==
  [independent : {"num_trash", "cache_ways", "other"}, mite : BOOLEAN,
   spawn : {"oninit", "onwarmup", "onmainprocessing"}]

VARIABLES
  conf, input, series, firstrun,   \* the main loop; series is an index in Series
  pc, redo, exitcode,              \* recordtrial and runtrial
  groups,                          \* resource groups that exist, besides Root
  shell, server, trash,            \* group of the script, the server, the contenders
  dying,                           \* groups of contenders signalled and not yet gone
  written,                         \* history: rtt_perf was written by this run
  timeouts, lost, rejected,        \* history: connection lost, rejection announced
  rows, last                       \* the inputs of the rows of each series; the last row

trialVars == <<redo, exitcode, timeouts, lost, rejected>>
loopVars == <<conf, input, series, firstrun>>
partVars == <<groups, shell, server, trash, dying>>
rttvars == <<loopVars, pc, trialVars, partVars, written, rows, last>>

\* The arguments of runtrial for the current series.
contenders == Series[series] \in {"contention", "allocation"}
mask == Series[series] \in {"basealloc", "allocation"}

Row == [fresh : BOOLEAN, lost : BOOLEAN, rejected : BOOLEAN]

RttTypeOK ==
  /\ conf \in Configurations
  /\ input \in 1..(Inputs + 1) /\ series \in 1..4 /\ firstrun \in BOOLEAN
  /\ pc \in {"decide", "runtrial", "server", "unset", "client", "read", "warmup", "main",
             "measure", "cleanup", "mgdelete", "extract", "record", "done", "exit"}
  /\ redo \in 0..1 /\ exitcode \in 0..1
  /\ groups \subseteq {"lockserver", "trash"}
  /\ shell \in groups \cup {Root}
  /\ server \in groups \cup {Root, None} /\ trash \in groups \cup {Root, None}
  /\ dying \subseteq groups \cup {Root}
  /\ written \in BOOLEAN
  /\ timeouts \in 0..MaxTimeouts /\ lost \in BOOLEAN /\ rejected \in BOOLEAN
  /\ rows \in [1..4 -> Seq(1..Inputs)] /\ last \in Row

RttInit ==
  /\ conf \in Configurations
  /\ input = 1 /\ series = 1 /\ firstrun = TRUE
  /\ pc = "decide" /\ redo = 0 /\ exitcode = 0
  /\ groups = {} /\ shell = Root /\ server = None /\ trash = None /\ dying = {}
  /\ written = FALSE
  /\ timeouts = 0 /\ lost = FALSE /\ rejected = FALSE
  /\ rows = [s \in 1..4 |-> <<>>]
  /\ last = [fresh |-> TRUE, lost |-> FALSE, rejected |-> FALSE]

-----------------------------------------------------------------------------
(* Resource groups.  A failing mkdir or rmdir is ignored. *)

setdefaultmask(group) == groups' = groups \cup {group} /\ shell' = group

\* Tasks of a deleted group go back to the root group.
mgdelete(names) ==
  LET moved(g) == IF g \in names THEN Root ELSE g
  IN  /\ groups' = groups \ names
      /\ shell' = moved(shell) /\ server' = moved(server) /\ trash' = moved(trash)
      /\ dying' = {moved(g) : g \in dying}

\* Mutant: the contenders are started before the shell changes its group.
spawncontendersEarly ==
  /\ groups' = IF contenders /\ mask THEN groups \cup {"trash"} ELSE groups
  /\ trash' = IF contenders THEN shell ELSE None
  /\ shell' = IF mask THEN Root ELSE shell
  /\ UNCHANGED <<server, dying>>

\* The shell enters the group of the contenders, starts them, and leaves it.
spawncontenders ==
  LET inside == IF contenders /\ mask THEN "trash" ELSE shell
  IN  /\ groups' = groups \cup ({inside} \ {Root})
      /\ trash' = IF contenders THEN inside ELSE None
      /\ shell' = IF mask THEN Root ELSE shell
      /\ UNCHANGED <<server, dying>>

SpawnAt(hook) == IF conf.spawn = hook THEN spawncontenders ELSE UNCHANGED partVars

-----------------------------------------------------------------------------
(* The main loop *)

\* Series that do not depend on the independent variable are recorded once.
Recorded(s) ==
  \/ firstrun
  \/ CASE Series[s] = "baseline" -> conf.independent \notin {"num_trash", "cache_ways"}
       [] Series[s] = "basealloc" -> conf.independent # "num_trash"
       [] Series[s] = "contention" -> conf.independent # "cache_ways"
       [] OTHER -> TRUE

\* Mutant: the first trial ends the first round.
NextTrialEndsRound ==
  /\ series' = IF series = 4 THEN 1 ELSE series + 1
  /\ input' = IF series = 4 THEN input + 1 ELSE input
  /\ firstrun' = FALSE
  /\ pc' = IF series = 4 /\ input = Inputs THEN "done" ELSE "decide"
  /\ UNCHANGED conf

NextTrial ==
  /\ series' = IF series = 4 THEN 1 ELSE series + 1
  /\ input' = IF series = 4 THEN input + 1 ELSE input
  /\ firstrun' = (firstrun /\ series < 4)
  /\ pc' = IF series = 4 /\ input = Inputs THEN "done" ELSE "decide"
  /\ UNCHANGED conf

Skip ==
  /\ pc = "decide" /\ ~Recorded(series)
  /\ NextTrial
  /\ UNCHANGED <<trialVars, partVars, written, rows, last>>

recordtrial ==
  /\ pc = "decide" /\ Recorded(series)
  /\ redo' = 1
  /\ lost' = FALSE /\ rejected' = FALSE
  /\ pc' = "runtrial"
  /\ UNCHANGED <<loopVars, partVars, exitcode, timeouts, written, rows, last>>

-----------------------------------------------------------------------------
(* runtrial *)

SetServerMask ==
  /\ pc = "runtrial"
  /\ exitcode' = 0
  /\ written' = FALSE
  /\ IF mask /\ conf.mite THEN setdefaultmask("lockserver") ELSE UNCHANGED <<groups, shell>>
  /\ pc' = "server"
  /\ UNCHANGED <<loopVars, redo, timeouts, lost, rejected, server, trash, dying, rows, last>>

SpawnServer ==
  /\ pc = "server"
  /\ server' = shell
  /\ pc' = "unset"
  /\ UNCHANGED <<loopVars, trialVars, groups, shell, trash, dying, written, rows, last>>

unsetmask ==
  /\ pc = "unset"
  /\ shell' = Root
  /\ pc' = "client"
  /\ UNCHANGED <<loopVars, trialVars, groups, server, trash, dying, written, rows, last>>

SpawnClient ==
  /\ pc = "client"
  /\ SpawnAt("oninit")
  /\ pc' = "read"
  /\ UNCHANGED <<loopVars, trialVars, written, rows, last>>

ReadReady ==
  /\ pc = "read"
  /\ pc' = "warmup"
  /\ UNCHANGED <<loopVars, trialVars, partVars, written, rows, last>>

\* Mutant: the trial is taken down but not marked as failed.
ReadTimeoutUnmarked ==
  /\ pc = "read" /\ timeouts < MaxTimeouts
  /\ timeouts' = timeouts + 1
  /\ pc' = "cleanup"
  /\ UNCHANGED <<loopVars, partVars, redo, exitcode, lost, rejected, written, rows, last>>

\* The client did not come up within 120 s: the trial is run again.
ReadTimeout ==
  /\ pc = "read" /\ timeouts < MaxTimeouts
  /\ timeouts' = timeouts + 1
  /\ exitcode' = 1
  /\ pc' = "cleanup"
  /\ UNCHANGED <<loopVars, partVars, redo, lost, rejected, written, rows, last>>

\* The connection is gone before a line was read: the loop is not entered
\* and the trial counts as a success.
ReadNothing ==
  /\ pc = "read"
  /\ lost' = TRUE
  /\ pc' = "cleanup"
  /\ UNCHANGED <<loopVars, partVars, redo, exitcode, timeouts, rejected, written, rows, last>>

\* Any other line ends the script, and leaves everything running.
ReadUnexpected ==
  /\ pc = "read"
  /\ pc' = "exit"
  /\ UNCHANGED <<loopVars, trialVars, partVars, written, rows, last>>

WarmUp ==
  /\ pc = "warmup"
  /\ SpawnAt("onwarmup")
  /\ pc' = "main"
  /\ UNCHANGED <<loopVars, trialVars, written, rows, last>>

MainProcessing ==
  /\ pc = "main"
  /\ SpawnAt("onmainprocessing")
  /\ pc' = "measure"
  /\ UNCHANGED <<loopVars, trialVars, written, rows, last>>

\* The end of the contenders that do a fixed amount of work.
ContendersExit ==
  /\ pc = "measure" /\ conf.spawn = "onmainprocessing" /\ trash # None
  /\ trash' = None
  /\ UNCHANGED <<loopVars, pc, trialVars, groups, shell, server, dying, written, rows, last>>

\* The hook waits for those contenders, or sleeps; then rtt_perf is written.
Stop ==
  /\ pc = "measure"
  /\ conf.spawn = "onmainprocessing" => trash = None
  /\ written' = TRUE
  /\ pc' = "cleanup"
  /\ UNCHANGED <<loopVars, trialVars, partVars, rows, last>>

\* The server's end is waited for; the contenders only get a signal.
KillAll ==
  /\ pc = "cleanup"
  /\ server' = None /\ trash' = None
  /\ dying' = dying \cup ({trash} \ {None})
  /\ pc' = "mgdelete"
  /\ UNCHANGED <<loopVars, trialVars, groups, shell, written, rows, last>>

\* Signalled contenders end at any later time, maybe in the middle of another trial.
ContendersDie ==
  /\ dying # {}
  /\ dying' = {}
  /\ UNCHANGED <<loopVars, pc, trialVars, groups, shell, server, trash, written, rows, last>>

\* Mutant: the group of the contenders is kept.
DeleteGroupsPartly ==
  /\ pc = "mgdelete"
  /\ IF mask THEN mgdelete({"lockserver"}) ELSE UNCHANGED partVars
  /\ pc' = IF exitcode = 0 THEN "extract" ELSE "runtrial"
  /\ UNCHANGED <<loopVars, trialVars, written, rows, last>>

\* runtrial ends here; recordtrial runs it again until it succeeds.
DeleteGroups ==
  /\ pc = "mgdelete"
  /\ IF mask THEN mgdelete({"lockserver", "trash"}) ELSE UNCHANGED partVars
  /\ pc' = IF exitcode = 0 THEN "extract" ELSE "runtrial"
  /\ UNCHANGED <<loopVars, trialVars, written, rows, last>>

-----------------------------------------------------------------------------
(* recordtrial: the output of the server decides *)

Extract ==
  /\ pc = "extract"
  /\ \/ rejected' = TRUE /\ redo' = redo - 1
     \/ redo' = 0 /\ UNCHANGED rejected
  /\ pc' = IF redo' > 0 THEN "runtrial" ELSE "record"
  /\ UNCHANGED <<loopVars, partVars, exitcode, timeouts, lost, written, rows, last>>

Record ==
  /\ pc = "record"
  /\ rows' = [rows EXCEPT ![series] = Append(@, input)]
  /\ last' = [fresh |-> written, lost |-> lost, rejected |-> rejected]
  /\ NextTrial
  /\ UNCHANGED <<trialVars, partVars, written>>

Trial ==
  \/ SetServerMask \/ SpawnServer \/ unsetmask \/ SpawnClient
  \/ ReadReady \/ ReadTimeout \/ ReadNothing \/ ReadUnexpected
  \/ WarmUp \/ MainProcessing \/ Stop \/ KillAll \/ DeleteGroups

Script == Skip \/ recordtrial \/ Trial \/ Extract \/ Record

Terminated == pc \in {"done", "exit"} /\ UNCHANGED rttvars

RttNext == Script \/ ContendersExit \/ ContendersDie \/ Terminated

\* The script runs, and contenders with a fixed amount of work finish it.
RttSpec == RttInit /\ [][RttNext]_rttvars /\ WF_rttvars(Script) /\ WF_rttvars(ContendersExit)

-----------------------------------------------------------------------------
(* Properties *)

\* While a trial is measured the server runs in the partition of the trial
\* and the contenders in theirs; without a mask both run in the root group.
PartitionInForce ==
  pc = "measure" =>
    /\ server = IF mask /\ conf.mite THEN "lockserver" ELSE Root
    /\ trash \in {None, IF mask THEN "trash" ELSE Root}
    /\ conf.spawn # "onmainprocessing" => (trash = None) = ~contenders

\* A trial, and a repetition of one, starts without a group and a server of
\* the run before.  Contenders of that run may still be there (killall does not
\* wait for them), but in the root group; and through all of the next trial
\* they never share the partition that it measures in.
StartsClean ==
  /\ pc \in {"decide", "runtrial", "done"} => groups = {} /\ shell = Root /\ server = None /\ trash = None
  /\ pc # "mgdelete" => dying \subseteq {Root}

\* A recorded row holds the counters of its own run, however often the run
\* was repeated, unless the connection to the client was lost.
RowsFresh == last.lost \/ last.fresh

\* At the end every series has its rows, in the order of the inputs: one for
\* each input, or a single one where the series does not depend on it.
SeriesComplete ==
  pc = "done" => \A s \in 1..4 :
    rows[s] = [i \in 1..(IF Recorded(s) THEN Inputs ELSE 1) |-> i]

\* The script always ends.
Ends == <>(pc \in {"done", "exit"})

\* "Rejecting trial due to mysterious queueing behavior!": a trial that was
\* rejected is not recorded.
RejectedNotRecorded == ~last.rejected
=============================================================================
