---------------------------- MODULE LockProtocol ----------------------------
(***************************************************************************)
(* clients/lockclient.c and clients/lockserver-ng.c over an Ethernet that  *)
(* may lose frames and carries frames of others.  The client measures one  *)
(* round trip per trial and gives up a trial when its alarm goes off; the  *)
(* server answers every request and, on SIGTERM, prints an average.        *)
(* A frame is the number of its transmission and the trial it is for;      *)
(* frames of others have the number 0.  The chase itself is in PtrChase.   *)
(***************************************************************************)
EXTENDS Integers, Sequences

CONSTANTS ITERATIONS, WARMUP, TIMING_BUFFER_LEN,
          MaxRetries,   \* bound on the timeouts of the first trial
          MaxForeign    \* bound on the foreign frames

ASSUME LengthAssumption ==
  /\ ITERATIONS \in Nat \ {0} /\ WARMUP \in Nat /\ TIMING_BUFFER_LEN \in Nat
  /\ MaxRetries \in Nat /\ MaxForeign \in Nat

\* One client and its retries stay within the server's buffer.
ASSUME BufferAssumption == ITERATIONS + MaxRetries <= TIMING_BUFFER_LEN + 1

Frame == [no : Nat, trial : 0..ITERATIONS]
Foreign == [no |-> 0, trial |-> 0]
Own(f) == f.no > 0

VARIABLES
  toServer, toClient,   \* frames on their way, in order
  cpc, times, cret,     \* client: program counter, trial, exit status
  timeout, armed,       \* the flag of sigalrm_handler; the alarm is pending
  spc, packet, sret,    \* server: program counter, frame held, exit status
  iter, summed, loop,   \* server: requests counted, deltas added, flag of SIGINT
  sent, retries,        \* history: transmissions, timeouts of the first trial
  foreign,              \* history: foreign frames sent
  answered,             \* history: the frame that ended the last trial
  fresh                 \* history: the flag was set by the alarm of this trial

netVars == <<toServer, toClient, foreign>>
clientVars == <<cpc, times, cret, timeout, armed, sent, retries, answered, fresh>>
serverVars == <<spc, packet, sret, iter, summed, loop>>
vars == <<netVars, clientVars, serverVars>>

TypeOK ==
  /\ toServer \in Seq(Frame) /\ toClient \in Seq(Frame)
  /\ cpc \in {"alloc", "send", "clear", "arm", "poll", "check", "exit"}
  /\ times \in 0..ITERATIONS
  /\ cret \in 0..5
  /\ timeout \in BOOLEAN /\ armed \in BOOLEAN /\ fresh \in BOOLEAN
  /\ spc \in {"recv", "add", "count", "send", "exit", "abort"}
  /\ packet \in Frame
  /\ sret \in 0..2
  /\ iter \in Nat /\ summed \in Nat
  /\ loop \in BOOLEAN
  /\ sent \in Nat /\ retries \in 0..MaxRetries /\ foreign \in 0..MaxForeign
  /\ answered \in Frame

Init ==
  /\ toServer = <<>> /\ toClient = <<>>
  /\ cpc = "alloc" /\ times = 0 /\ cret = 0
  /\ timeout = FALSE /\ armed = FALSE
  /\ spc = "recv" /\ packet = Foreign /\ sret = 0
  /\ iter = 0 /\ summed = 0 /\ loop = TRUE
  /\ sent = 0 /\ retries = 0 /\ foreign = 0
  /\ answered = Foreign /\ fresh = FALSE

-----------------------------------------------------------------------------
(* lockclient.c: experiment *)

ClientExit(status) == cpc' = "exit" /\ cret' = status

\* The packet and the transmit buffer are allocated anew in every trial.
Alloc ==
  /\ cpc = "alloc"
  /\ \/ cpc' = "send" /\ UNCHANGED cret
     \/ \E status \in {2, 3} : ClientExit(status)
  /\ UNCHANGED <<netVars, serverVars, times, timeout, armed, sent, retries, answered, fresh>>

Send ==
  /\ cpc = "send"
  /\ \/ /\ toServer' = Append(toServer, [no |-> sent + 1, trial |-> times])
        /\ sent' = sent + 1
        /\ cpc' = "clear"
        /\ UNCHANGED cret
     \/ ClientExit(4) /\ UNCHANGED <<toServer, sent>>
  /\ UNCHANGED <<toClient, foreign, serverVars, times, timeout, armed, retries, answered, fresh>>

ClearTimeout ==
  /\ cpc = "clear"
  /\ timeout' = FALSE
  /\ fresh' = FALSE
  /\ cpc' = "arm"
  /\ UNCHANGED <<netVars, serverVars, times, cret, armed, sent, retries, answered>>

\* Mutant: only the first trial, the one that is tried again, has an alarm.
AlarmFirstOnly ==
  /\ cpc = "arm"
  /\ armed' = (times = 0)
  /\ cpc' = "poll"
  /\ UNCHANGED <<netVars, serverVars, times, cret, timeout, sent, retries, answered, fresh>>

\* alarm() replaces an alarm that is still pending.
Alarm ==
  /\ cpc = "arm"
  /\ armed' = TRUE
  /\ cpc' = "poll"
  /\ UNCHANGED <<netVars, serverVars, times, cret, timeout, sent, retries, answered, fresh>>

\* The signal arrives between any two steps of the client.
sigalrm_handler ==
  /\ armed /\ cpc # "exit"
  /\ armed' = FALSE
  /\ timeout' = TRUE
  /\ fresh' = (cpc \in {"poll", "check"})
  /\ UNCHANGED <<netVars, serverVars, cpc, times, cret, sent, retries, answered>>

\* Any frame ends the trial.
PollGot ==
  /\ cpc = "poll" /\ toClient # <<>>
  /\ toClient' = Tail(toClient)
  /\ answered' = Head(toClient)
  /\ times' = times + 1
  /\ IF times + 1 < ITERATIONS THEN cpc' = "alloc" /\ UNCHANGED cret ELSE ClientExit(0)
  /\ UNCHANGED <<toServer, foreign, serverVars, timeout, armed, sent, retries, fresh>>

PollEmpty ==
  /\ cpc = "poll" /\ toClient = <<>>
  /\ cpc' = "check"
  /\ UNCHANGED <<netVars, serverVars, times, cret, timeout, armed, sent, retries, answered, fresh>>

\* Mutant: every trial is tried again.
CheckTimeoutRetries ==
  /\ cpc = "check"
  /\ \/ ~timeout /\ cpc' = "poll" /\ UNCHANGED retries
     \/ timeout /\ cpc' = "send" /\ UNCHANGED retries /\ times > 0
     \/ timeout /\ times = 0 /\ retries < MaxRetries
          /\ cpc' = "send" /\ retries' = retries + 1
  /\ UNCHANGED <<netVars, serverVars, times, cret, timeout, armed, sent, answered, fresh>>

\* Only the first trial is tried again, with the same packet.
CheckTimeout ==
  /\ cpc = "check"
  /\ \/ ~timeout /\ cpc' = "poll" /\ UNCHANGED <<cret, retries>>
     \/ timeout /\ times > 0 /\ ClientExit(5) /\ UNCHANGED retries
     \/ timeout /\ times = 0 /\ retries < MaxRetries
          /\ cpc' = "send" /\ retries' = retries + 1 /\ UNCHANGED cret
  /\ UNCHANGED <<netVars, serverVars, times, timeout, armed, sent, answered, fresh>>

-----------------------------------------------------------------------------
(* lockserver-ng.c: experiment *)

\* A frame for somebody else is dropped (its buffer is not given back).
Receive ==
  /\ spc = "recv" /\ loop /\ toServer # <<>>
  /\ toServer' = Tail(toServer)
  /\ packet' = Head(toServer)
  /\ spc' = IF Own(Head(toServer)) THEN "add" ELSE "recv"
  /\ UNCHANGED <<toClient, foreign, clientVars, sret, iter, summed, loop>>

\* The chase, the addresses, and the time added to the sum after the warm-up.
AddDelta ==
  /\ spc = "add"
  /\ summed' = IF iter >= WARMUP THEN summed + 1 ELSE summed
  /\ spc' = "count"
  /\ UNCHANGED <<netVars, clientVars, packet, sret, iter, loop>>

Count ==
  /\ spc = "count"
  /\ iter' = iter + 1
  /\ spc' = "send"
  /\ UNCHANGED <<netVars, clientVars, packet, sret, summed, loop>>

\* Mutant: the assertion without room for the discarded trial.
AnswerStrict ==
  /\ spc = "send"
  /\ \/ /\ toClient' = Append(toClient, packet)
        /\ spc' = IF loop /\ iter > TIMING_BUFFER_LEN THEN "abort" ELSE "recv"
        /\ UNCHANGED sret
     \/ spc' = "exit" /\ sret' = 2 /\ UNCHANGED toClient
  /\ UNCHANGED <<toServer, foreign, clientVars, packet, iter, summed, loop>>

\* The answer, and the assertion at the head of the loop.
Answer ==
  /\ spc = "send"
  /\ \/ /\ toClient' = Append(toClient, packet)
        /\ spc' = IF loop /\ iter > TIMING_BUFFER_LEN + 1 THEN "abort" ELSE "recv"
        /\ UNCHANGED sret
     \/ spc' = "exit" /\ sret' = 2 /\ UNCHANGED toClient
  /\ UNCHANGED <<toServer, foreign, clientVars, packet, iter, summed, loop>>

sigint_handler ==
  /\ loop /\ spc \notin {"exit", "abort"}
  /\ loop' = FALSE
  /\ UNCHANGED <<netVars, clientVars, spc, packet, sret, iter, summed>>

StopLoop ==
  /\ spc = "recv" /\ ~loop
  /\ spc' = "exit" /\ sret' = 0
  /\ UNCHANGED <<netVars, clientVars, packet, iter, summed, loop>>

\* What sigterm_handler divides the sum by.
Divisor == iter - WARMUP

\* It ends the program between any two steps.
sigterm_handler ==
  /\ spc \notin {"exit", "abort"}
  /\ spc' = "exit"
  /\ sret' = IF Divisor = 0 THEN 1 ELSE 0
  /\ UNCHANGED <<netVars, clientVars, packet, iter, summed, loop>>

-----------------------------------------------------------------------------
(* The network *)

Lose ==
  /\ \/ toServer # <<>> /\ toServer' = Tail(toServer) /\ UNCHANGED toClient
     \/ toClient # <<>> /\ toClient' = Tail(toClient) /\ UNCHANGED toServer
  /\ UNCHANGED <<foreign, clientVars, serverVars>>

ForeignFrame ==
  /\ foreign < MaxForeign
  /\ foreign' = foreign + 1
  /\ \/ toServer' = Append(toServer, Foreign) /\ UNCHANGED toClient
     \/ toClient' = Append(toClient, Foreign) /\ UNCHANGED toServer
  /\ UNCHANGED <<clientVars, serverVars>>

Client ==
  \/ Alloc \/ Send \/ ClearTimeout \/ Alarm \/ PollGot \/ PollEmpty \/ CheckTimeout

Server == Receive \/ AddDelta \/ Count \/ Answer \/ StopLoop

Next ==
  \/ Client \/ sigalrm_handler \/ Server \/ sigint_handler \/ sigterm_handler
  \/ Lose \/ ForeignFrame

\* The client runs and its alarm goes off; nothing is asked of the network,
\* of the server or of whoever sends it signals.
Spec == Init /\ [][Next]_vars /\ WF_vars(Client) /\ WF_vars(sigalrm_handler)

-----------------------------------------------------------------------------
(* Properties *)

\* Without foreign frames, the frame that ends a trial answers a request of
\* that trial or, after timeouts of the first one, of a trial at most that
\* many trials back: late answers to the first trial shift all the later
\* measurements, by no more than the number of timeouts.
LagBounded ==
  foreign = 0 /\ times > 0 => /\ answered.trial <= times - 1
                              /\ (times - 1) - answered.trial <= retries

\* A single client whose trials and retries fit in the buffer never makes the
\* server's assertion on the number of requests fail, whatever is lost.
NoServerAbort == spc # "abort"

\* The sum that sigterm_handler divides has exactly as many terms as the
\* divisor says, or one more when the signal comes between the addition and
\* the count; before the end of the warm-up it has none.
SumMatchesDivisor ==
  IF Divisor >= 0 THEN summed - Divisor \in {0, 1} ELSE summed = 0

\* After the first trial the client always returns, whatever is lost.
ClientReturns == times > 0 ~> cpc = "exit"

\* The message of a timeout: the alarm of the current iteration went off.
TimedOutInThisIteration == cret = 5 => fresh
=============================================================================
