--------------------------- MODULE NetworkProofs ---------------------------
(***************************************************************************)
(* Proofs about the networked experiment: the lock client and server, for  *)
(* any number of trials, retries and foreign frames, and the driver that   *)
(* runs them, for any number of inputs and timeouts.                       *)
(***************************************************************************)
EXTENDS LockProtocol, NetworkRtt, TLAPS

-----------------------------------------------------------------------------
(* The lock protocol.  The inductive invariant says that the client's own frames
stay in the order of their transmissions along the way
client -> toServer -> server -> toClient -> client, so that the frame that ends
the n-th trial was transmitted n-th or later, and the server has counted no
more requests than were transmitted. *)

Waiting == cpc \in {"clear", "arm", "poll", "check"}

\* How many transmissions the client has made.
Counting ==
  /\ cpc # "exit" => times < ITERATIONS
  /\ Waiting => sent = times + retries + 1
  /\ cpc \in {"alloc", "send"} => sent = times + retries
  /\ sent <= ITERATIONS + retries

Pending == spc \in {"add", "count", "send"}

\* Requests received, counted or about to be.
Seen == iter + IF spc \in {"add", "count"} THEN 1 ELSE 0

\* A request is for a trial that is not over-counted by its number.
Dated(f) == f.trial <= times /\ f.no <= f.trial + 1 + retries

Increasing(q) ==
  \A i, j \in 1..Len(q) : i < j /\ Own(q[i]) /\ Own(q[j]) => q[i].no < q[j].no

InServerQueue ==
  \A i \in 1..Len(toServer) : Own(toServer[i]) =>
    /\ toServer[i].no <= sent
    /\ toServer[i].no > Seen
    /\ toServer[i].no > answered.no
    /\ Pending => toServer[i].no > packet.no
    /\ Dated(toServer[i])

InServer ==
  /\ Seen <= sent
  /\ Pending => /\ Own(packet)
                /\ packet.no <= sent /\ packet.no >= Seen
                /\ packet.no > answered.no
                /\ Dated(packet)

InClientQueue ==
  \A i \in 1..Len(toClient) : Own(toClient[i]) =>
    /\ toClient[i].no <= sent
    /\ toClient[i].no > answered.no
    /\ Pending => toClient[i].no < packet.no
    /\ Dated(toClient[i])

Across ==
  \A i \in 1..Len(toClient), j \in 1..Len(toServer) :
    Own(toClient[i]) /\ Own(toServer[j]) => toClient[i].no < toServer[j].no

NoForeign ==
  foreign = 0 => /\ \A i \in 1..Len(toServer) : Own(toServer[i])
                 /\ \A i \in 1..Len(toClient) : Own(toClient[i])
                 /\ answered.no >= times

Ordering ==
  /\ Increasing(toServer) /\ Increasing(toClient) /\ Across
  /\ InServerQueue /\ InServer /\ InClientQueue
  /\ answered.no <= sent
  /\ NoForeign

\* The terms of the sum, by where the server is between adding and counting.
Tallying ==
  /\ spc = "count" => summed = IF iter >= WARMUP THEN iter - WARMUP + 1 ELSE 0
  /\ spc \notin {"count", "exit"} => summed = IF iter >= WARMUP THEN iter - WARMUP ELSE 0
  /\ SumMatchesDivisor

IInv == TypeOK /\ Counting /\ Ordering /\ Tallying /\ LagBounded /\ NoServerAbort

-----------------------------------------------------------------------------
(* Queues *)

\* Receiving takes the first frame of a queue and keeps the others in order.
LEMMA TailFacts ==
  ASSUME NEW S, NEW q \in Seq(S), q # <<>>
  PROVE  /\ Head(q) = q[1] /\ Head(q) \in S /\ 1 \in 1..Len(q)
         /\ Tail(q) \in Seq(S) /\ Len(q) \in Nat /\ Len(Tail(q)) = Len(q) - 1
         /\ \A i \in 1..Len(Tail(q)) : i + 1 \in 1..Len(q) /\ Tail(q)[i] = q[i + 1]
  OBVIOUS

\* Sending puts a frame behind the frames of a queue.
LEMMA AppendFacts ==
  ASSUME NEW S, NEW q \in Seq(S), NEW f \in S
  PROVE  /\ Append(q, f) \in Seq(S) /\ Len(q) \in Nat /\ Len(Append(q, f)) = Len(q) + 1
         /\ Append(q, f)[Len(q) + 1] = f
         /\ \A i \in 1..Len(q) : Append(q, f)[i] = q[i]
  OBVIOUS

\* Every frame of a queue is a frame.
LEMMA ElementFacts ==
  ASSUME NEW S, NEW q \in Seq(S)
  PROVE  Len(q) \in Nat /\ \A i \in 1..Len(q) : q[i] \in S
  OBVIOUS

\* The fields of a frame.
LEMMA FrameFacts ==
  /\ Foreign \in Frame /\ ~Own(Foreign) /\ Foreign.no = 0 /\ Foreign.trial = 0
  /\ \A f \in Frame : f.no \in Nat /\ f.trial \in 0..ITERATIONS
  /\ \A n \in Nat, t \in 0..ITERATIONS : [no |-> n, trial |-> t] \in Frame
  BY LengthAssumption DEF Foreign, Frame, Own

\* Taking the first frame of an ordered queue leaves an ordered queue.
LEMMA TailIncreasing ==
  ASSUME NEW q \in Seq(Frame), q # <<>>, Increasing(q)
  PROVE  Increasing(Tail(q))
<1> SUFFICES ASSUME NEW i \in 1..Len(Tail(q)), NEW j \in 1..Len(Tail(q)), i < j,
                    Own(Tail(q)[i]), Own(Tail(q)[j])
             PROVE  Tail(q)[i].no < Tail(q)[j].no
  BY DEF Increasing
<1>1. /\ i + 1 \in 1..Len(q) /\ Tail(q)[i] = q[i + 1]
      /\ j + 1 \in 1..Len(q) /\ Tail(q)[j] = q[j + 1] /\ i + 1 < j + 1
  BY TailFacts
<1> QED BY <1>1 DEF Increasing

\* A foreign frame, or one with a greater number, can be put behind the others.
LEMMA AppendIncreasing ==
  ASSUME NEW q \in Seq(Frame), NEW f \in Frame, Increasing(q),
         \A i \in 1..Len(q) : Own(q[i]) /\ Own(f) => q[i].no < f.no
  PROVE  Increasing(Append(q, f))
<1> SUFFICES ASSUME NEW i \in 1..Len(Append(q, f)), NEW j \in 1..Len(Append(q, f)), i < j,
                    Own(Append(q, f)[i]), Own(Append(q, f)[j])
             PROVE  Append(q, f)[i].no < Append(q, f)[j].no
  BY DEF Increasing
<1>1. i \in 1..Len(q) /\ Append(q, f)[i] = q[i]
  BY AppendFacts
<1>2. CASE j \in 1..Len(q)
  BY <1>1, <1>2, AppendFacts DEF Increasing
<1>3. CASE j = Len(q) + 1
  BY <1>1, <1>3, AppendFacts
<1> QED BY <1>2, <1>3, AppendFacts

-----------------------------------------------------------------------------
(* One lemma for each conjunct of the invariant *)

\* The initial states satisfy the invariant.
LEMMA InitIInv == Init => IInv
<1> SUFFICES ASSUME Init PROVE IInv
  OBVIOUS
<1> USE LengthAssumption, FrameFacts
<1>1. TypeOK
  <2>1. <<>> \in Seq(Frame)
    OBVIOUS
  <2>2. toServer \in Seq(Frame) /\ toClient \in Seq(Frame)
    BY <2>1 DEF Init
  <2>3. timeout \in BOOLEAN /\ armed \in BOOLEAN /\ fresh \in BOOLEAN /\ loop \in BOOLEAN
    BY Zenon, ZenonT(40) DEF Init
  <2>4. answered \in Frame /\ packet \in Frame
    BY DEF Init
  <2> QED BY <2>2, <2>3, <2>4 DEF Init, TypeOK
<1>2. Counting
  BY DEF Init, Counting, Waiting
<1>3. Ordering
  BY DEF Init, Ordering, Increasing, Across, InServerQueue, InServer, InClientQueue,
         NoForeign, Seen, Pending
<1>4. Tallying
  BY DEF Init, Tallying, SumMatchesDivisor, Divisor
<1>5. LagBounded /\ NoServerAbort
  BY DEF Init, LagBounded, NoServerAbort
<1> QED BY <1>1, <1>2, <1>3, <1>4, <1>5 DEF IInv

\* Types are preserved.
LEMMA TypeStep == TypeOK /\ Counting /\ [Next]_vars => TypeOK'
<1> SUFFICES ASSUME TypeOK, Counting, [Next]_vars PROVE TypeOK'
  OBVIOUS
<1> USE LengthAssumption, FrameFacts DEF TypeOK, clientVars, serverVars, netVars
<1>1. CASE Alloc
  BY <1>1 DEF Alloc, ClientExit
<1>2. CASE Send
  <2>1. [no |-> sent + 1, trial |-> times] \in Frame
    OBVIOUS
  <2>2. toServer' \in Seq(Frame)
    <3>1. Append(toServer, [no |-> sent + 1, trial |-> times]) \in Seq(Frame)
      BY <2>1, AppendFacts
    <3> QED BY <1>2, <3>1, Zenon, ZenonT(40) DEF Send
  <2> QED BY <1>2, <2>2, SMTT(30), SMTT(60) DEF Send, ClientExit
<1>3. CASE ClearTimeout
  BY <1>3, Zenon, ZenonT(40) DEF ClearTimeout
<1>4. CASE Alarm
  BY <1>4 DEF Alarm
<1>5. CASE PollGot
  <2>1. toClient' \in Seq(Frame) /\ answered' \in Frame
    BY <1>5, TailFacts DEF PollGot
  <2>2. times < ITERATIONS
    BY <1>5 DEF PollGot, Counting
  <2>3. times' \in 0..ITERATIONS
    BY <1>5, <2>2 DEF PollGot
  <2> QED BY <1>5, <2>1, <2>3 DEF PollGot, ClientExit
<1>6. CASE PollEmpty
  BY <1>6 DEF PollEmpty
<1>7. CASE CheckTimeout
  BY <1>7 DEF CheckTimeout, ClientExit
<1>8. CASE sigalrm_handler
  <2>1. fresh' \in BOOLEAN
    <3>1. fresh' = (cpc \in {"poll", "check"})
      BY <1>8 DEF sigalrm_handler
    <3>2. CASE cpc \in {"poll", "check"}
      BY ONLY <3>1, <3>2
    <3>3. CASE cpc \notin {"poll", "check"}
      BY ONLY <3>1, <3>3
    <3> QED BY <3>2, <3>3
  <2> QED BY <1>8, <2>1, Zenon, ZenonT(40) DEF sigalrm_handler
<1>9. CASE Receive
  <2>1. toServer' \in Seq(Frame) /\ packet' \in Frame
    BY <1>9, TailFacts DEF Receive
  <2> QED BY <1>9, <2>1 DEF Receive
<1>10. CASE AddDelta
  BY <1>10 DEF AddDelta
<1>11. CASE Count
  BY <1>11 DEF Count
<1>12. CASE Answer
  <2>1. toClient' \in Seq(Frame)
    <3>1. Append(toClient, packet) \in Seq(Frame)
      BY AppendFacts
    <3> QED BY <1>12, <3>1, SMTT(30), SMTT(60) DEF Answer
  <2> QED BY <1>12, <2>1 DEF Answer
<1>13. CASE StopLoop \/ sigint_handler \/ sigterm_handler
  <2>1. CASE StopLoop
    BY <2>1 DEF StopLoop
  <2>2. CASE sigint_handler
    BY <2>2, Zenon, ZenonT(40) DEF sigint_handler
  <2>3. CASE sigterm_handler
    <3>1. sret' \in 0..2
      BY <2>3 DEF sigterm_handler
    <3> QED BY <2>3, <3>1 DEF sigterm_handler
  <2> QED BY <1>13, <2>1, <2>2, <2>3
<1>14. CASE Lose
  <2>1. toServer' \in Seq(Frame) /\ toClient' \in Seq(Frame)
    <3>1. toServer \in Seq(Frame) /\ toClient \in Seq(Frame)
      OBVIOUS
    <3>2. \A q \in Seq(Frame) : q # <<>> => Tail(q) \in Seq(Frame)
      BY TailFacts, Zenon, ZenonT(40)
    <3> QED BY <1>14, <3>1, <3>2, Zenon, ZenonT(40) DEF Lose
  <2> QED BY <1>14, <2>1 DEF Lose
<1>15. CASE ForeignFrame
  <2>1. toServer' \in Seq(Frame) /\ toClient' \in Seq(Frame)
    <3>1. Append(toServer, Foreign) \in Seq(Frame) /\ Append(toClient, Foreign) \in Seq(Frame)
      BY AppendFacts
    <3> QED BY <1>15, <3>1, Zenon, ZenonT(40) DEF ForeignFrame
  <2> QED BY <1>15, <2>1 DEF ForeignFrame
<1>16. CASE UNCHANGED vars
  BY <1>16 DEF vars
<1> QED
  BY Zenon, ZenonT(40), <1>1, <1>2, <1>3, <1>4, <1>5, <1>6, <1>7, <1>8, <1>9, <1>10, <1>11, <1>12,
     <1>13, <1>14, <1>15, <1>16 DEF Next, Client, Server

\* The client transmits once for each trial and once for each retry.
LEMMA CountingStep == TypeOK /\ Counting /\ [Next]_vars => Counting'
<1> SUFFICES ASSUME TypeOK, Counting, [Next]_vars PROVE Counting'
  OBVIOUS
<1> USE LengthAssumption DEF TypeOK, Counting, Waiting, clientVars
<1>1. CASE Client
  <2>1. CASE Alloc
    BY <2>1 DEF Alloc, ClientExit
  <2>2. CASE Send
    BY <2>2 DEF Send, ClientExit
  <2>3. CASE ClearTimeout \/ Alarm \/ PollEmpty
    BY <2>3, SMTT(30), SMTT(60) DEF ClearTimeout, Alarm, PollEmpty
  <2>4. CASE PollGot
    BY <2>4 DEF PollGot, ClientExit
  <2>5. CASE CheckTimeout
    BY <2>5 DEF CheckTimeout, ClientExit
  <2> QED BY <1>1, <2>1, <2>2, <2>3, <2>4, <2>5 DEF Client
<1>2. CASE sigalrm_handler
  BY <1>2 DEF sigalrm_handler
<1>3. CASE ~Client /\ ~sigalrm_handler
  <2>1. UNCHANGED clientVars
    BY <1>3 DEF Next, Server, Receive, AddDelta, Count, Answer, StopLoop, sigint_handler,
                sigterm_handler, Lose, ForeignFrame, vars
  <2> QED BY <2>1
<1> QED BY <1>1, <1>2, <1>3

\* The sum has one term for each request counted after the warm-up.
LEMMA TallyingStep == TypeOK /\ Tallying /\ [Next]_vars => Tallying'
<1> SUFFICES ASSUME TypeOK, Tallying, [Next]_vars PROVE Tallying'
  OBVIOUS
<1> USE LengthAssumption DEF TypeOK, Tallying, SumMatchesDivisor, Divisor, serverVars
<1>1. CASE AddDelta
  BY <1>1 DEF AddDelta
<1>2. CASE Count
  BY <1>2 DEF Count
<1>3. CASE Receive \/ Answer \/ StopLoop \/ sigint_handler \/ sigterm_handler
  BY <1>3, SMTT(30), SMTT(60) DEF Receive, Answer, StopLoop, sigint_handler, sigterm_handler
<1>4. CASE Client \/ sigalrm_handler \/ Lose \/ ForeignFrame \/ UNCHANGED vars
  <2>1. UNCHANGED serverVars
    BY <1>4 DEF Client, Alloc, Send, ClearTimeout, Alarm, PollGot, PollEmpty, CheckTimeout,
                sigalrm_handler, Lose, ForeignFrame, vars
  <2> QED BY <2>1
<1> QED BY <1>1, <1>2, <1>3, <1>4 DEF Next, Server

\* The frame that ends a trial is an answer to it or to one of the trials before.
LEMMA LagStep == IInv /\ [Next]_vars => LagBounded'
<1> SUFFICES ASSUME IInv, [Next]_vars PROVE LagBounded'
  BY SMTT(30), SMTT(60)
<1> USE LengthAssumption, FrameFacts DEF IInv, TypeOK, LagBounded
<1>1. CASE PollGot
  <2>1. /\ Head(toClient) = toClient[1] /\ Head(toClient) \in Frame
        /\ 1 \in 1..Len(toClient)
    BY <1>1, TailFacts DEF PollGot
  <2>2. SUFFICES ASSUME foreign = 0
                 PROVE  /\ answered'.trial <= times
                        /\ times - answered'.trial <= retries
    BY <1>1 DEF PollGot, clientVars, netVars
  <2>3. Own(toClient[1])
    BY <2>1, <2>2 DEF Ordering, NoForeign
  <2>4. Dated(toClient[1]) /\ toClient[1].no > answered.no /\ answered.no >= times
    BY <2>1, <2>2, <2>3 DEF Ordering, NoForeign, InClientQueue
  <2> QED BY <1>1, <2>1, <2>4, SMTT(90) DEF PollGot, Dated
<1>2. CASE ~PollGot
  <2>1. answered' = answered /\ times' = times /\ foreign' >= foreign /\ retries' >= retries
        /\ retries' \in Nat
    <3>1. CASE Client \/ sigalrm_handler
      BY <1>2, <3>1, SMTT(30), SMTT(60) DEF Client, Alloc, Send, ClearTimeout, Alarm, PollEmpty, CheckTimeout,
                        ClientExit, sigalrm_handler, netVars
    <3>2. CASE Server \/ sigint_handler \/ sigterm_handler
      BY <3>2, SMTT(30), SMTT(60) DEF Server, Receive, AddDelta, Count, Answer, StopLoop, sigint_handler,
                  sigterm_handler, clientVars, netVars
    <3>3. CASE Lose \/ ForeignFrame \/ UNCHANGED vars
      BY <3>3, SMTT(30), SMTT(60) DEF Lose, ForeignFrame, vars, clientVars, netVars
    <3> QED BY <3>1, <3>2, <3>3 DEF Next
  <2>2. foreign' \in Nat
    BY <2>1, TypeStep DEF TypeOK
  <2> QED BY <2>1, <2>2
<1> QED BY <1>1, <1>2

\* The server counts no more requests than the buffer has room for.
LEMMA AbortStep == IInv /\ [Next]_vars => NoServerAbort'
<1> SUFFICES ASSUME IInv, [Next]_vars PROVE NoServerAbort'
  OBVIOUS
<1>1. iter <= TIMING_BUFFER_LEN + 1
  <2>1. iter <= sent
    BY DEF IInv, TypeOK, Ordering, InServer, Seen
  <2>2. sent <= ITERATIONS + MaxRetries
    BY LengthAssumption DEF IInv, TypeOK, Counting
  <2> QED BY <2>1, <2>2, LengthAssumption, BufferAssumption DEF IInv, TypeOK
<1>2. CASE Answer
  BY <1>1, <1>2, LengthAssumption, SMTT(30), SMTT(60) DEF IInv, TypeOK, NoServerAbort, Answer
<1>3. CASE ~Answer
  BY <1>3 DEF IInv, NoServerAbort, Next, Client, Server, Alloc, Send, ClearTimeout, Alarm,
              PollGot, PollEmpty, CheckTimeout, sigalrm_handler, Receive, AddDelta, Count,
              StopLoop, sigint_handler, sigterm_handler, Lose, ForeignFrame, vars, serverVars
<1> QED BY <1>2, <1>3


\* The client's frames stay in the order of their transmissions.
LEMMA OrderingStep == IInv /\ [Next]_vars => Ordering'
<1> SUFFICES ASSUME IInv, [Next]_vars PROVE Ordering'
  OBVIOUS
<1>t. TypeOK /\ TypeOK' /\ Counting /\ Ordering
  BY TypeStep DEF IInv
<1>o. /\ Increasing(toServer) /\ Increasing(toClient) /\ Across
      /\ InServerQueue /\ InServer /\ InClientQueue
      /\ answered.no <= sent
      /\ NoForeign
  BY <1>t, SMTT(30), SMTT(60) DEF Ordering
<1>s. /\ Len(toServer) \in Nat
      /\ \A i \in 1..Len(toServer) : toServer[i].no \in Nat /\ toServer[i].trial \in Nat
  <2>1. toServer \in Seq(Frame)
    BY <1>t DEF TypeOK
  <2>2. Len(toServer) \in Nat /\ \A i \in 1..Len(toServer) : toServer[i] \in Frame
    BY <2>1, ElementFacts
  <2> QED BY <2>2, FrameFacts, LengthAssumption
<1>c. /\ Len(toClient) \in Nat
      /\ \A i \in 1..Len(toClient) : toClient[i].no \in Nat /\ toClient[i].trial \in Nat
  <2>1. toClient \in Seq(Frame)
    BY <1>t DEF TypeOK
  <2>2. Len(toClient) \in Nat /\ \A i \in 1..Len(toClient) : toClient[i] \in Frame
    BY <2>1, ElementFacts
  <2> QED BY <2>2, FrameFacts, LengthAssumption
<1>n. /\ sent \in Nat /\ times \in Nat /\ retries \in Nat /\ iter \in Nat /\ foreign \in Nat
      /\ answered.no \in Nat /\ packet.no \in Nat /\ packet.trial \in Nat
      /\ Seen \in Nat
  BY <1>t, FrameFacts, LengthAssumption, SMTT(30), SMTT(60) DEF TypeOK, Seen
<1>1. CASE \/ Alloc \/ ClearTimeout \/ Alarm \/ PollEmpty \/ CheckTimeout
           \/ sigalrm_handler \/ UNCHANGED vars
  <2>1. /\ UNCHANGED <<toServer, toClient, spc, iter, packet, answered, sent, times, foreign>>
        /\ retries' \in Nat /\ retries' >= retries
    <3>1. UNCHANGED <<toServer, toClient, spc, iter, packet, answered, sent, times, foreign>>
      BY <1>1, Zenon, ZenonT(40) DEF Alloc, ClearTimeout, Alarm, PollEmpty, CheckTimeout, sigalrm_handler,
                         vars, clientVars, serverVars, netVars
    <3>2. retries' = retries \/ retries' = retries + 1
      BY <1>1, Zenon, ZenonT(40) DEF Alloc, ClearTimeout, Alarm, PollEmpty, CheckTimeout, sigalrm_handler,
                         vars, clientVars
    <3> QED BY <1>n, <3>1, <3>2
  <2>2. Seen' = Seen /\ (Pending' => Pending)
    BY <2>1 DEF Seen, Pending
  <2>3. (Increasing(toServer) /\ Increasing(toClient) /\ Across)'
    BY <2>1, <1>t, Zenon, ZenonT(40) DEF Own, Ordering, Increasing, Across
  <2>4. InServerQueue'
    <3> SUFFICES ASSUME NEW i \in 1..Len(toServer), toServer[i].no > 0
                 PROVE  /\ toServer[i].no <= sent
                        /\ toServer[i].no > Seen
                        /\ toServer[i].no > answered.no
                        /\ Pending => toServer[i].no > packet.no
                        /\ toServer[i].trial <= times
                        /\ toServer[i].no <= toServer[i].trial + 1 + retries'
      BY <2>1, <2>2, ZenonT(40), ZenonT(60) DEF InServerQueue, Own, Dated
    <3>1. /\ toServer[i].no <= sent
          /\ toServer[i].no > Seen
          /\ toServer[i].no > answered.no
          /\ Pending => toServer[i].no > packet.no
          /\ toServer[i].trial <= times
          /\ toServer[i].no <= toServer[i].trial + 1 + retries
      BY <1>o, Zenon, ZenonT(40) DEF InServerQueue, Own, Dated
    <3>2. toServer[i].no \in Nat /\ toServer[i].trial \in Nat
      BY <1>s
    <3>3. toServer[i].no <= toServer[i].trial + 1 + retries'
      <4>1. retries \in Nat /\ retries' \in Nat /\ retries' >= retries
        BY <2>1, <1>n
      <4> QED BY ONLY <3>1, <3>2, <4>1
    <3> QED BY <3>1, <3>3, SMTT(30), SMTT(60)
  <2>5. InServer'
    BY <2>1, <2>2, <1>t, <1>n DEF Own, Ordering, InServer, Dated
  <2>6. InClientQueue'
    BY <2>1, <2>2, <1>t, <1>n, <1>c, SMTT(30), SMTT(60) DEF Own, Ordering, InClientQueue, Dated
  <2>7. (answered.no <= sent)' /\ NoForeign'
    BY <2>1, <1>t DEF Own, Ordering, NoForeign
  <2> QED BY <2>3, <2>4, <2>5, <2>6, <2>7 DEF Ordering
<1>2. CASE AddDelta \/ Count \/ StopLoop \/ sigint_handler \/ sigterm_handler
  <2>1. /\ UNCHANGED <<toServer, toClient, packet, answered, sent, times, retries, foreign>>
    BY <1>2 DEF AddDelta, Count, StopLoop, sigint_handler, sigterm_handler, clientVars, netVars
  <2>2. Seen' \in Nat /\ Seen' <= Seen /\ Seen \in Nat /\ (Pending' => Pending)
    BY <1>2, <1>n DEF AddDelta, Count, StopLoop, sigint_handler, sigterm_handler, Seen, Pending
  <2>3. (Increasing(toServer) /\ Increasing(toClient) /\ Across)'
    BY <2>1, <1>t, SMTT(30), SMTT(60) DEF Own, Ordering, Increasing, Across
  <2>4. InServerQueue'
    BY <2>1, <2>2, <1>t, <1>n, <1>s, SMTT(30), SMTT(60) DEF Own, Ordering, InServerQueue, Dated
  <2>5. InServer'
    BY <2>1, <2>2, <1>t, <1>n DEF Own, Ordering, InServer, Dated
  <2>6. InClientQueue'
    BY <2>1, <2>2, <1>t, <1>n, <1>c, SMTT(30), SMTT(60) DEF Own, Ordering, InClientQueue, Dated
  <2>7. (answered.no <= sent)' /\ NoForeign'
    BY <2>1, <1>t DEF Own, Ordering, NoForeign
  <2> QED BY <2>3, <2>4, <2>5, <2>6, <2>7 DEF Ordering
<1>3. CASE Send
  <2> DEFINE f == [no |-> sent + 1, trial |-> times]
  <2>1. CASE UNCHANGED toServer
    <3>1. UNCHANGED <<toServer, toClient, spc, iter, packet, answered, times, retries, foreign>>
      BY <1>3, <2>1 DEF Send, serverVars
    <3>2. sent' = sent
      BY <1>3, <2>1, <1>s DEF Send
    <3> QED BY <3>1, <3>2, <1>t DEF Own, Ordering, Increasing, Across, InServerQueue, InServer,
                 InClientQueue, NoForeign, Dated, Seen, Pending
  <2>2. CASE toServer' = Append(toServer, f) /\ sent' = sent + 1
    <3>1. UNCHANGED <<toClient, spc, iter, packet, answered, times, retries, foreign>>
      BY <1>3 DEF Send, serverVars
    <3>2. Seen' = Seen /\ (Pending' => Pending)
      BY <3>1 DEF Seen, Pending
    <3>3. f \in Frame /\ f.no = sent + 1 /\ f.trial = times
      BY <1>t, FrameFacts, SMTT(30), SMTT(60) DEF TypeOK
    <3>4. /\ Len(toServer') = Len(toServer) + 1
          /\ toServer'[Len(toServer) + 1].no = sent + 1
          /\ toServer'[Len(toServer) + 1].trial = times
          /\ \A i \in 1..Len(toServer) : toServer'[i] = toServer[i]
      <4> HIDE DEF f
      <4>1. toServer \in Seq(Frame)
        BY <1>t DEF TypeOK
      <4> QED BY <2>2, <3>3, <4>1, AppendFacts
    <3> HIDE DEF f
    <3>5. sent = times + retries
      BY <1>3, <1>t DEF Send, Counting
    <3>5a. \A i \in 1..Len(toServer') : i \in 1..Len(toServer) \/ i = Len(toServer) + 1
      BY <3>4, <1>s
    <3>6. Increasing(toServer)'
      <4> SUFFICES ASSUME NEW i \in 1..Len(toServer'), NEW j \in 1..Len(toServer'),
                          i < j, toServer'[i].no > 0, toServer'[j].no > 0
                   PROVE  toServer'[i].no < toServer'[j].no
        BY DEF Increasing, Own
      <4>1. i \in 1..Len(toServer)
        BY <3>4, <1>s
      <4>2. CASE j \in 1..Len(toServer)
        BY <4>1, <4>2, <3>4, <1>o, SMTT(30), SMTT(60) DEF Increasing, Own
      <4>3. CASE j = Len(toServer) + 1
        <5>1. toServer[i].no <= sent
          BY <4>1, <3>4, <1>o DEF InServerQueue, Own
        <5> QED BY <4>1, <4>3, <5>1, <3>4, <1>n, <1>s, SMTT(30), SMTT(60)
      <4> QED BY <3>5a, <4>2, <4>3
    <3>7. Increasing(toClient)'
      BY <3>1, <1>o DEF Increasing
    <3>8. Across'
      <4> SUFFICES ASSUME NEW i \in 1..Len(toClient), NEW j \in 1..Len(toServer'),
                          toClient[i].no > 0, toServer'[j].no > 0
                   PROVE  toClient[i].no < toServer'[j].no
        BY <3>1 DEF Across, Own
      <4>1. CASE j \in 1..Len(toServer)
        BY <4>1, <3>4, <1>o DEF Across, Own
      <4>2. CASE j = Len(toServer) + 1
        <5>1. toClient[i].no <= sent
          BY <1>o DEF InClientQueue, Own
        <5> QED BY <4>2, <5>1, <3>4, <1>n, <1>c, SMTT(30), SMTT(60)
      <4> QED BY <3>5a, <4>1, <4>2
    <3>9. InServerQueue'
      <4> SUFFICES ASSUME NEW i \in 1..Len(toServer'), toServer'[i].no > 0
                   PROVE  /\ toServer'[i].no <= sent + 1
                          /\ toServer'[i].no > Seen
                          /\ toServer'[i].no > answered.no
                          /\ Pending => toServer'[i].no > packet.no
                          /\ toServer'[i].trial <= times
                          /\ toServer'[i].no <= toServer'[i].trial + 1 + retries
        BY <2>2, <3>1, <3>2, SMTT(30), SMTT(60) DEF InServerQueue, Own, Dated
      <4>1. CASE i \in 1..Len(toServer)
        BY <4>1, <3>4, <1>o, <1>n, <1>s, SMTT(90) DEF InServerQueue, Own, Dated
      <4>2. CASE i = Len(toServer) + 1
        BY <4>2, <3>4, <3>5, <1>o, <1>n DEF InServer
      <4> QED BY <3>5a, <4>1, <4>2, SMTT(30), SMTT(60)
    <3>10. InServer' /\ (answered.no <= sent)'
      BY <2>2, <3>1, <3>2, <1>o, <1>n DEF InServer, Own, Dated
    <3>11. InClientQueue'
      BY <2>2, <3>1, <3>2, <1>o, <1>n, <1>c, SMTT(30), SMTT(60) DEF InClientQueue, Own, Dated
    <3>12. NoForeign'
      <4> SUFFICES ASSUME foreign = 0
                   PROVE  /\ \A i \in 1..Len(toServer') : toServer'[i].no > 0
                          /\ \A i \in 1..Len(toClient) : toClient[i].no > 0
                          /\ answered.no >= times
        BY <3>1 DEF NoForeign, Own
      <4>1. \A i \in 1..Len(toServer) : toServer'[i].no > 0
        BY <3>4, <1>o DEF NoForeign, Own
      <4>2. toServer'[Len(toServer) + 1].no > 0
        BY <3>4, <1>n
      <4> QED BY <4>1, <4>2, <3>5a, <1>o DEF NoForeign, Own
    <3> QED BY <3>6, <3>7, <3>8, <3>9, <3>10, <3>11, <3>12 DEF Ordering
  <2> QED BY <1>3, <2>1, <2>2, SMTT(30), SMTT(60) DEF Send
<1>4. CASE PollGot
  <2>1. /\ UNCHANGED <<toServer, spc, iter, packet, sent, retries, foreign>>
        /\ answered' = Head(toClient) /\ times' = times + 1
    BY <1>4 DEF PollGot, serverVars
  <2>2. /\ Seen' = Seen /\ (Pending' => Pending)
    BY <2>1 DEF Seen, Pending
  <2>3. /\ 1 \in 1..Len(toClient) /\ answered' = toClient[1]
        /\ Len(toClient') = Len(toClient) - 1
        /\ \A i \in 1..Len(toClient') :
             i + 1 \in 1..Len(toClient) /\ toClient'[i] = toClient[i + 1]
    <3>1. toClient \in Seq(Frame) /\ toClient # <<>> /\ toClient' = Tail(toClient)
      BY <1>4, <1>t DEF PollGot, TypeOK
    <3> QED BY <2>1, <3>1, TailFacts
  <2>4. answered'.no \in Nat
    BY <2>3, <1>c
  <2>5. Increasing(toServer)'
    BY <2>1, <1>o DEF Increasing
  <2>6. Increasing(toClient)' /\ Across'
    <3>1. Increasing(Tail(toClient))
      BY <1>4, <1>t, <1>o, TailIncreasing DEF PollGot, TypeOK
    <3>2. Increasing(toClient)'
      BY <1>4, <3>1, Zenon, ZenonT(40) DEF PollGot, Increasing
    <3>3. Across'
      BY <2>1, <2>3, <1>o, SMTT(30), SMTT(60) DEF Across, Own
    <3> QED BY <3>2, <3>3
  <2>7. InServerQueue'
    <3> SUFFICES ASSUME NEW i \in 1..Len(toServer), toServer[i].no > 0
                 PROVE  /\ toServer[i].no <= sent
                        /\ toServer[i].no > Seen
                        /\ toServer[i].no > toClient[1].no
                        /\ Pending => toServer[i].no > packet.no
                        /\ toServer[i].trial <= times + 1
                        /\ toServer[i].no <= toServer[i].trial + 1 + retries
      BY <2>1, <2>2, <2>3 DEF InServerQueue, Own, Dated
    <3>1. toServer[i].no > toClient[1].no
      <4>1. CASE toClient[1].no > 0
        BY <4>1, <2>3, <1>o DEF Across, Own
      <4>2. CASE ~(toClient[1].no > 0)
        <5>1. toClient[1].no \in Nat
          BY <2>3, <1>c
        <5>2. toServer[i].no \in Nat
          BY <1>s
        <5> QED BY ONLY <4>2, <5>1, <5>2, toServer[i].no > 0
      <4> QED BY <4>1, <4>2, SMTT(30), SMTT(60)
    <3> QED BY <3>1, <1>o, <1>n, <1>s, SMTT(30), SMTT(60) DEF InServerQueue, Own, Dated
  <2>8. InServer'
    <3> SUFFICES ASSUME Pending
                 PROVE  /\ packet.no > 0
                        /\ packet.no <= sent /\ packet.no >= Seen
                        /\ packet.no > toClient[1].no
                        /\ packet.trial <= times + 1
                        /\ packet.no <= packet.trial + 1 + retries
      BY <2>1, <2>2, <2>3, <1>o, SMTT(30), SMTT(60) DEF InServer, Own, Dated
    <3>1. packet.no > toClient[1].no
      BY <2>3, <1>o, <1>n, <1>c, SMTT(30), SMTT(60) DEF InClientQueue, InServer, Own
    <3> QED BY <3>1, <1>o, <1>n, SMTT(30), SMTT(60) DEF InServer, Own, Dated
  <2>9. InClientQueue'
    <3> SUFFICES ASSUME NEW i \in 1..Len(toClient'), toClient'[i].no > 0
                 PROVE  /\ toClient'[i].no <= sent
                        /\ toClient'[i].no > toClient[1].no
                        /\ Pending => toClient'[i].no < packet.no
                        /\ toClient'[i].trial <= times + 1
                        /\ toClient'[i].no <= toClient'[i].trial + 1 + retries
      BY <2>1, <2>2, <2>3, SMTT(30), SMTT(60) DEF InClientQueue, Own, Dated
    <3> DEFINE k == i + 1
    <3>1. k \in 1..Len(toClient) /\ 1 < k /\ toClient'[i] = toClient[k]
      BY <2>3, <1>c, SMTT(30), SMTT(60)
    <3> HIDE DEF k
    <3>2. toClient[k].no > toClient[1].no
      BY <3>1, <2>3, <1>o, <1>c, SMTT(30), SMTT(60) DEF Increasing, Own
    <3> QED BY <3>1, <3>2, <1>o, <1>n, <1>c, SMTT(30), SMTT(60) DEF InClientQueue, Own, Dated
  <2>10. (answered.no <= sent)'
    BY <2>1, <2>3, <1>o, <1>n, <1>c, SMTT(30), SMTT(60) DEF InClientQueue, Own
  <2>11. NoForeign'
    <3> SUFFICES ASSUME foreign = 0
                 PROVE  /\ \A i \in 1..Len(toServer) : toServer[i].no > 0
                        /\ \A i \in 1..Len(toClient') : toClient'[i].no > 0
                        /\ toClient[1].no >= times + 1
      BY <2>1, <2>3 DEF NoForeign, Own
    <3>1. toClient[1].no > answered.no
      BY <2>3, <1>o DEF NoForeign, InClientQueue, Own
    <3> QED BY <3>1, <2>3, <1>o, <1>n, <1>c, SMTT(30), SMTT(60) DEF NoForeign, Own
  <2> QED BY <2>5, <2>6, <2>7, <2>8, <2>9, <2>10, <2>11 DEF Ordering
<1>5. CASE Receive
  <2>1. /\ UNCHANGED <<toClient, iter, answered, times, sent, retries, foreign>>
        /\ spc = "recv" /\ Seen = iter
    BY <1>5, <1>n DEF Receive, clientVars, Seen
  <2>2. /\ 1 \in 1..Len(toServer) /\ packet' = toServer[1]
        /\ Len(toServer') = Len(toServer) - 1
        /\ \A i \in 1..Len(toServer') :
             i + 1 \in 1..Len(toServer) /\ toServer'[i] = toServer[i + 1]
    <3>1. /\ toServer \in Seq(Frame) /\ toServer # <<>> /\ toServer' = Tail(toServer)
          /\ packet' = Head(toServer)
      BY <1>5, <1>t DEF Receive, TypeOK
    <3> QED BY <3>1, TailFacts
  <2>3. /\ Pending' => toServer[1].no > 0
        /\ Seen' = IF toServer[1].no > 0 THEN iter + 1 ELSE iter
    <3>1. Head(toServer) = toServer[1]
      BY <1>5, <1>t, TailFacts, SMTT(30), SMTT(60) DEF Receive, TypeOK
    <3> QED BY <1>5, <2>1, <3>1, <1>n, SMTT(30), SMTT(60) DEF Receive, Pending, Seen, Own
  <2>4. toServer[1].no > 0 => /\ toServer[1].no <= sent
                              /\ toServer[1].no >= iter + 1
                              /\ toServer[1].no > answered.no
                              /\ Dated(toServer[1])
    BY <2>1, <2>2, <1>o, <1>n, <1>s, SMTT(30), SMTT(60) DEF InServerQueue, Own
  <2>5. Increasing(toServer)'
    <3>1. Increasing(Tail(toServer))
      BY <1>5, <1>t, <1>o, TailIncreasing, SMTT(30), SMTT(60) DEF Receive, TypeOK
    <3> QED BY <1>5, <3>1, SMTT(30), SMTT(60) DEF Receive, Increasing
  <2>6. Increasing(toClient)' /\ Across'
    BY <2>1, <2>2, <1>o, <1>s, SMTT(30), SMTT(60) DEF Increasing, Across, Own
  <2>7. InServerQueue'
    <3> SUFFICES ASSUME NEW i \in 1..Len(toServer'), toServer'[i].no > 0
                 PROVE  /\ toServer'[i].no <= sent
                        /\ toServer'[i].no > Seen'
                        /\ toServer'[i].no > answered.no
                        /\ Pending' => toServer'[i].no > toServer[1].no
                        /\ toServer'[i].trial <= times
                        /\ toServer'[i].no <= toServer'[i].trial + 1 + retries
      BY <2>1, <2>2 DEF InServerQueue, Own, Dated
    <3> DEFINE k == i + 1
    <3>1. k \in 1..Len(toServer) /\ 1 < k /\ toServer'[i] = toServer[k]
      BY <2>2, <1>s
    <3> HIDE DEF k
    <3>2. toServer[1].no > 0 => toServer[k].no > toServer[1].no
      BY <3>1, <2>2, <1>o, SMTT(30), SMTT(60) DEF Increasing, Own
    <3>3. toServer[k].no > iter
      BY <3>1, <2>1, <1>o, Zenon, ZenonT(40) DEF InServerQueue, Own
    <3>4. toServer'[i].no > Seen'
      BY <2>2, <2>3, <2>4, <3>1, <3>2, <3>3, <1>n, <1>s, SMTT(30), SMTT(60)
    <3> QED BY <2>3, <3>1, <3>2, <3>4, <1>o, SMTT(30), SMTT(60) DEF InServerQueue, Own, Dated
  <2>8. InServer'
    <3>1. Seen' <= sent
      <4>1. iter <= sent
        BY <2>1, <1>o, Zenon, ZenonT(40) DEF InServer
      <4>2. toServer[1].no \in Nat
        BY <2>2, <1>s, Zenon, ZenonT(40)
      <4> QED BY <2>3, <2>4, <4>1, <4>2, <1>n
    <3>2. ASSUME Pending'
          PROVE  /\ packet'.no > 0
                 /\ packet'.no <= sent /\ packet'.no >= Seen'
                 /\ packet'.no > answered.no
                 /\ Dated(packet)'
      BY <3>2, <2>1, <2>2, <2>3, <2>4, SMTT(30), SMTT(60) DEF Dated
    <3> QED BY <2>1, <3>1, <3>2 DEF InServer, Own
  <2>9. InClientQueue'
    <3> SUFFICES ASSUME NEW i \in 1..Len(toClient), toClient[i].no > 0
                 PROVE  /\ toClient[i].no <= sent
                        /\ toClient[i].no > answered.no
                        /\ Pending' => toClient[i].no < toServer[1].no
                        /\ toClient[i].trial <= times
                        /\ toClient[i].no <= toClient[i].trial + 1 + retries
      BY <2>1, <2>2, SMTT(30), SMTT(60) DEF InClientQueue, Own, Dated
    <3>1. toServer[1].no > 0 => toClient[i].no < toServer[1].no
      BY <2>2, <1>o, SMTT(30), SMTT(60) DEF Across, Own
    <3> QED BY <2>3, <3>1, <1>o, SMTT(30), SMTT(60) DEF InClientQueue, Own, Dated
  <2>10. (answered.no <= sent)' /\ NoForeign'
    BY <2>1, <2>2, <1>o DEF NoForeign, Own
  <2> QED BY <2>5, <2>6, <2>7, <2>8, <2>9, <2>10 DEF Ordering
<1>6. CASE Answer
  <2>1. /\ UNCHANGED <<toServer, iter, packet, answered, times, sent, retries, foreign>>
        /\ spc = "send" /\ Pending /\ ~Pending' /\ Seen' = Seen
    BY <1>6, <1>n, SMTT(30), SMTT(60) DEF Answer, clientVars, Seen, Pending
  <2>2. Increasing(toServer)' /\ InServerQueue' /\ InServer' /\ (answered.no <= sent)'
    BY <2>1, <1>o DEF Increasing, InServerQueue, InServer, Dated
  <2>3. CASE UNCHANGED toClient
    <3>1. Increasing(toClient)' /\ Across' /\ InClientQueue' /\ NoForeign'
      BY <2>1, <2>3, <1>o, Zenon, ZenonT(40) DEF Increasing, Across, InClientQueue, NoForeign, Dated
    <3> QED BY <2>2, <3>1, SMTT(30), SMTT(60) DEF Ordering
  <2>4. CASE toClient' = Append(toClient, packet)
    <3>1. toClient \in Seq(Frame) /\ packet \in Frame
      BY <1>t DEF TypeOK
    <3>2. /\ Len(toClient') = Len(toClient) + 1 /\ toClient'[Len(toClient) + 1] = packet
          /\ \A i \in 1..Len(toClient) : toClient'[i] = toClient[i]
      BY <2>4, <3>1, AppendFacts
    <3>3. \A i \in 1..Len(toClient') : \/ i \in 1..Len(toClient) /\ toClient'[i] = toClient[i]
                                       \/ toClient'[i] = packet
      BY <3>2, <1>c
    <3>4. Increasing(toClient)'
      <4>1. Increasing(Append(toClient, packet))
        BY <2>1, <3>1, <1>o, AppendIncreasing DEF InClientQueue
      <4> QED BY <2>4, <4>1, Zenon, ZenonT(40) DEF Increasing
    <3>5. Across'
      <4> SUFFICES ASSUME NEW i \in 1..Len(toClient'), NEW j \in 1..Len(toServer),
                          toClient'[i].no > 0, toServer[j].no > 0
                   PROVE  toClient'[i].no < toServer[j].no
        BY <2>1 DEF Across, Own
      <4>1. CASE i \in 1..Len(toClient) /\ toClient'[i] = toClient[i]
        BY <4>1, <1>o, SMTT(30), SMTT(60) DEF Across, Own
      <4>2. CASE toClient'[i] = packet
        BY <4>2, <2>1, <1>o, <1>n, <1>s, SMTT(30), SMTT(60) DEF InServerQueue, Own
      <4> QED BY <3>3, <4>1, <4>2
    <3>6. InClientQueue'
      <4> SUFFICES ASSUME NEW i \in 1..Len(toClient'), toClient'[i].no > 0
                   PROVE  /\ toClient'[i].no <= sent
                          /\ toClient'[i].no > answered.no
                          /\ toClient'[i].trial <= times
                          /\ toClient'[i].no <= toClient'[i].trial + 1 + retries
        BY <2>1, SMTT(30), SMTT(60) DEF InClientQueue, Own, Dated
      <4>1. CASE i \in 1..Len(toClient) /\ toClient'[i] = toClient[i]
        BY <4>1, <1>o, SMTT(30), SMTT(60) DEF InClientQueue, Own, Dated
      <4>2. CASE toClient'[i] = packet
        BY <4>2, <2>1, <1>o, SMTT(30), SMTT(60) DEF InServer, Dated
      <4> QED BY <3>3, <4>1, <4>2, SMTT(30), SMTT(60)
    <3>7. NoForeign'
      BY <2>1, <3>3, <1>o DEF NoForeign, InServer, Own
    <3> QED BY <2>2, <3>4, <3>5, <3>6, <3>7, SMTT(30), SMTT(60) DEF Ordering
  <2> QED BY <1>6, <2>3, <2>4 DEF Answer
<1>7. CASE Lose
  <2>1. /\ UNCHANGED <<spc, iter, packet, answered, times, sent, retries, foreign>>
        /\ Seen' = Seen /\ (Pending' => Pending)
    BY <1>7 DEF Lose, clientVars, serverVars, Seen, Pending
  <2>2. InServer' /\ (answered.no <= sent)'
    BY <2>1, <1>o DEF InServer, Dated
  <2>3. CASE toServer # <<>> /\ toServer' = Tail(toServer) /\ UNCHANGED toClient
    <3>1. toServer \in Seq(Frame)
      BY <1>t DEF TypeOK
    <3>2. \A i \in 1..Len(toServer') : \E k \in 1..Len(toServer) : toServer'[i] = toServer[k]
      BY <2>3, <3>1, TailFacts, SMTT(30), SMTT(60)
    <3>3. Increasing(toServer)' /\ Increasing(toClient)'
      <4>1. Increasing(Tail(toServer))
        BY <2>3, <3>1, <1>o, TailIncreasing, SMTT(30), SMTT(60)
      <4> QED BY <2>3, <4>1, <1>o DEF Increasing
    <3>4. Across' /\ InClientQueue' /\ NoForeign'
      <4>1. Across'
        BY <2>3, <3>2, <1>o, Zenon, ZenonT(40) DEF Across, Own
      <4>2. InClientQueue'
        BY <2>1, <2>3, <1>o, Zenon, ZenonT(40) DEF InClientQueue, Dated, Own
      <4>3. NoForeign'
        BY <2>1, <2>3, <3>2, <1>o, Zenon, ZenonT(40) DEF NoForeign, Own
      <4> QED BY <4>1, <4>2, <4>3
    <3>5. InServerQueue'
      BY <2>1, <3>2, <1>o, Zenon, ZenonT(40) DEF InServerQueue, Dated, Own
    <3> QED BY <2>2, <3>3, <3>4, <3>5 DEF Ordering
  <2>4. CASE toClient # <<>> /\ toClient' = Tail(toClient) /\ UNCHANGED toServer
    <3>1. toClient \in Seq(Frame)
      BY <1>t DEF TypeOK
    <3>2. \A i \in 1..Len(toClient') : \E k \in 1..Len(toClient) : toClient'[i] = toClient[k]
      BY <2>4, <3>1, TailFacts
    <3>3. Increasing(toServer)' /\ Increasing(toClient)'
      <4>1. Increasing(Tail(toClient))
        BY <2>4, <3>1, <1>o, TailIncreasing, SMTT(30), SMTT(60)
      <4> QED BY <2>4, <4>1, <1>o DEF Increasing
    <3>4. Across' /\ InServerQueue' /\ NoForeign'
      BY <2>1, <2>4, <3>2, <1>o, ZenonT(40), ZenonT(60) DEF Across, InServerQueue, NoForeign, Dated, Own
    <3>5. InClientQueue'
      BY <2>1, <3>2, <1>o, Zenon, ZenonT(40) DEF InClientQueue, Dated, Own
    <3> QED BY <2>2, <3>3, <3>4, <3>5, SMTT(30), SMTT(60) DEF Ordering
  <2> QED BY <1>7, <2>3, <2>4 DEF Lose
<1>8. CASE ForeignFrame
  <2>1. /\ UNCHANGED <<spc, iter, packet, answered, times, sent, retries>>
        /\ Seen' = Seen /\ (Pending' => Pending) /\ foreign' # 0
    BY <1>8, <1>n, SMTT(30), SMTT(60) DEF ForeignFrame, clientVars, serverVars, Seen, Pending
  <2>2. InServer' /\ (answered.no <= sent)' /\ NoForeign'
    BY <2>1, <1>o, Zenon, ZenonT(40) DEF InServer, Dated, NoForeign
  <2>3. CASE toServer' = Append(toServer, Foreign) /\ UNCHANGED toClient
    <3>1. toServer \in Seq(Frame) /\ Foreign \in Frame /\ ~Own(Foreign)
      BY <1>t, FrameFacts DEF TypeOK
    <3>2. \A i \in 1..Len(toServer') : \/ i \in 1..Len(toServer) /\ toServer'[i] = toServer[i]
                                       \/ ~Own(toServer'[i])
      BY <2>3, <3>1, AppendFacts, SMTT(30), SMTT(60) DEF Own
    <3>3. Increasing(toServer)' /\ Increasing(toClient)'
      <4>1. Increasing(Append(toServer, Foreign))
        BY <3>1, <1>o, AppendIncreasing, SMTT(30), SMTT(60)
      <4> QED BY <2>3, <4>1, <1>o, SMTT(30), SMTT(60) DEF Increasing
    <3>4. Across' /\ InClientQueue'
      BY <2>1, <2>3, <3>2, <1>o, Zenon, ZenonT(40) DEF Across, InClientQueue, Dated, Own
    <3>5. InServerQueue'
      BY <2>1, <3>2, <1>o, Zenon, ZenonT(40) DEF InServerQueue, Dated, Own
    <3> QED BY <2>2, <3>3, <3>4, <3>5, SMTT(30), SMTT(60) DEF Ordering
  <2>4. CASE toClient' = Append(toClient, Foreign) /\ UNCHANGED toServer
    <3>1. toClient \in Seq(Frame) /\ Foreign \in Frame /\ ~Own(Foreign)
      BY <1>t, FrameFacts, SMTT(30), SMTT(60) DEF TypeOK
    <3>2. \A i \in 1..Len(toClient') : \/ i \in 1..Len(toClient) /\ toClient'[i] = toClient[i]
                                       \/ ~Own(toClient'[i])
      BY <2>4, <3>1, AppendFacts DEF Own
    <3>3. Increasing(toServer)' /\ Increasing(toClient)'
      <4>1. Increasing(Append(toClient, Foreign))
        BY <3>1, <1>o, AppendIncreasing, SMTT(30), SMTT(60)
      <4> QED BY <2>4, <4>1, <1>o, SMTT(30), SMTT(60) DEF Increasing
    <3>4. Across' /\ InServerQueue'
      <4>1. Across'
        BY <2>4, <3>2, <1>o, Zenon, ZenonT(40) DEF Across, Own
      <4>2. InServerQueue'
        BY <2>1, <2>4, <1>o, Zenon, ZenonT(40) DEF InServerQueue, Dated, Own
      <4> QED BY <4>1, <4>2
    <3>5. InClientQueue'
      BY <2>1, <3>2, <1>o, Zenon, ZenonT(40) DEF InClientQueue, Dated, Own
    <3> QED BY <2>2, <3>3, <3>4, <3>5, SMTT(30), SMTT(60) DEF Ordering
  <2> QED BY <1>8, <2>3, <2>4 DEF ForeignFrame
<1> QED
  BY <1>1, <1>2, <1>3, <1>4, <1>5, <1>6, <1>7, <1>8 DEF Next, Client, Server

\* The invariant holds in every reachable state.
LEMMA Invariance == Spec => []IInv
<1>1. IInv /\ [Next]_vars => IInv'
  BY TypeStep, CountingStep, OrderingStep, TallyingStep, LagStep, AbortStep DEF IInv
<1> QED BY InitIInv, <1>1, PTL DEF Spec

-----------------------------------------------------------------------------
(* Theorems *)

\* Client, server and network keep their types: in particular the client's
\* loop never goes past ITERATIONS.
THEOREM TypeCorrect == Spec => []TypeOK
<1>1. IInv => TypeOK
  BY DEF IInv
<1> QED BY <1>1, Invariance, PTL

\* Without foreign frames a measurement of lockclient.c is taken against an
\* answer to its own trial or to one at most as many trials back as the
\* first trial timed out, for any number of trials and whatever is lost.
THEOREM MeasurementsLag == Spec => []LagBounded
<1>1. IInv => LagBounded
  BY DEF IInv
<1> QED BY <1>1, Invariance, PTL

\* The assertion at the head of lockserver-ng.c's loop holds as long as the
\* client's trials and retries fit in the buffer.
THEOREM ServerSurvives == Spec => []NoServerAbort
<1>1. IInv => NoServerAbort
  BY DEF IInv
<1> QED BY <1>1, Invariance, PTL

\* Whenever SIGTERM comes, the sum that lockserver-ng.c divides has as many
\* terms as the divisor, or one more.
THEOREM SumsMatch == Spec => []SumMatchesDivisor
<1>1. IInv => SumMatchesDivisor
  BY DEF IInv, Tallying
<1> QED BY <1>1, Invariance, PTL

-----------------------------------------------------------------------------
(* The driver: partitions, clean starts, fresh and complete rows. *)

Groups == {"lockserver", "trash"}
Running == {"server", "unset", "client", "read", "warmup", "main", "measure", "cleanup",
            "mgdelete"}
Between == {"decide", "runtrial", "extract", "record", "done"}

\* The group a server, and contenders that were started, belong in.
ServerGroup == IF mask /\ conf.mite THEN "lockserver" ELSE Root
TrashGroup == IF contenders THEN (IF mask THEN "trash" ELSE Root) ELSE None

Clean == groups = {} /\ shell = Root /\ server = None /\ trash = None

\* Where everything is at each point of a trial; the hooks before that point
\* have started the contenders.
PartInv ==
  /\ conf \in Configurations /\ series \in 1..4
  /\ pc \in Between \union Running \union {"exit"}
  /\ pc \in Between => Clean
  /\ pc \in Running => groups \subseteq Groups /\ (~mask => groups = {})
  /\ pc = "server" => shell = ServerGroup /\ server = None /\ trash = None
  /\ pc = "unset" => shell = ServerGroup /\ server = ServerGroup /\ trash = None
  /\ pc \in {"client", "read", "warmup", "main", "measure"} =>
       shell = Root /\ server = ServerGroup
  /\ pc = "client" => trash = None
  /\ pc \in {"read", "warmup"} => trash = IF conf.spawn = "oninit" THEN TrashGroup ELSE None
  /\ pc = "main" => trash = IF conf.spawn = "onmainprocessing" THEN None ELSE TrashGroup
  /\ pc = "measure" => \/ trash = TrashGroup
                       \/ trash = None /\ conf.spawn = "onmainprocessing"
  /\ pc \in {"cleanup", "mgdelete"} => shell = Root
  /\ pc = "cleanup" => trash \in {None, TrashGroup}
  /\ pc = "mgdelete" => server = None /\ trash = None

\* A hook, at the point where the contenders are started or not yet.
LEMMA SpawnStep ==
  ASSUME NEW hook, SpawnAt(hook), conf \in Configurations, shell = Root,
         groups \subseteq Groups, ~mask => groups = {},
         conf.spawn = hook => trash = None
  PROVE  /\ groups' \subseteq Groups /\ (~mask => groups' = {})
         /\ shell' = Root /\ server' = server
         /\ trash' = IF conf.spawn = hook THEN TrashGroup ELSE trash
<1>1. CASE conf.spawn = hook
  <2> DEFINE inside == IF contenders /\ mask THEN "trash" ELSE shell
  <2>1. /\ groups' = groups \cup ({inside} \ {Root})
        /\ trash' = IF contenders THEN inside ELSE None
        /\ shell' = IF mask THEN Root ELSE shell
        /\ server' = server
    BY <1>1 DEF SpawnAt, spawncontenders
  <2>2. inside = IF contenders /\ mask THEN "trash" ELSE Root
    OBVIOUS
  <2> HIDE DEF inside
  <2>3. groups' \subseteq Groups /\ (~mask => groups' = {})
    BY <2>1, <2>2 DEF Groups, Root
  <2>4. shell' = Root
    BY <2>1
  <2>5. trash' = TrashGroup
    BY <2>1, <2>2 DEF TrashGroup
  <2> QED
    BY <1>1, <2>1, <2>3, <2>4, <2>5
<1>2. CASE conf.spawn # hook
  BY <1>2 DEF SpawnAt, partVars
<1> QED
  BY <1>1, <1>2

\* Configuration and series stay within a trial, and so do the partitions.
LEMMA SameTrial ==
  ASSUME conf' = conf, series' = series
  PROVE  /\ mask' = mask /\ contenders' = contenders
         /\ ServerGroup' = ServerGroup /\ TrashGroup' = TrashGroup
BY SMTT(30), SMTT(60) DEF mask, contenders, ServerGroup, TrashGroup

\* Going to the next trial leaves the partition as it is.
LEMMA NextTrialPart ==
  ASSUME PartInv, pc \in Between, NextTrial, UNCHANGED partVars
  PROVE  PartInv'
<1>1. pc' \in {"done", "decide"} /\ series' \in 1..4 /\ conf' = conf
  BY DEF NextTrial, PartInv
<1>2. Clean'
  BY DEF PartInv, partVars, Clean
<1> QED
  BY <1>1, <1>2, SMTT(30), SMTT(60) DEF PartInv, Between, Running

\* Every step of the script keeps what is where.
LEMMA PartStep ==
  ASSUME PartInv, [RttNext]_rttvars
  PROVE  PartInv'
<1> USE DEF Between, Running
<1>1. CASE Skip
  BY <1>1, NextTrialPart, SMTT(30), SMTT(60) DEF Skip
<1>2. CASE recordtrial \/ Extract
  <2>1. pc \in Between /\ pc' \in {"runtrial", "record"} /\ UNCHANGED <<loopVars, partVars>>
    BY <1>2 DEF recordtrial, Extract
  <2> QED
    BY <2>1 DEF PartInv, loopVars, partVars, Clean
<1>3. CASE Record
  BY <1>3, NextTrialPart, SMTT(30), SMTT(60) DEF Record
<1>4. CASE SetServerMask
  <2>1. pc = "runtrial" /\ pc' = "server" /\ UNCHANGED <<loopVars, server, trash>>
    BY <1>4, SMTT(30), SMTT(60) DEF SetServerMask
  <2>2. groups' = (IF mask /\ conf.mite THEN {"lockserver"} ELSE {})
        /\ shell' = ServerGroup
    BY <1>4, SMTT(30), SMTT(60) DEF SetServerMask, setdefaultmask, PartInv, Clean, ServerGroup
  <2> QED
    BY <2>1, <2>2, SameTrial DEF PartInv, Clean, loopVars, Groups
<1>5. CASE SpawnServer
  BY <1>5, SameTrial, SMTT(30), SMTT(60) DEF SpawnServer, PartInv, loopVars
<1>6. CASE unsetmask
  BY <1>6, SameTrial, SMTT(30), SMTT(60) DEF unsetmask, PartInv, loopVars
<1>7. CASE SpawnClient
  <2>1. pc = "client" /\ pc' = "read" /\ UNCHANGED loopVars /\ SpawnAt("oninit")
    BY <1>7 DEF SpawnClient
  <2>2. /\ groups' \subseteq Groups /\ (~mask => groups' = {})
        /\ shell' = Root /\ server' = server
        /\ trash' = IF conf.spawn = "oninit" THEN TrashGroup ELSE trash
    BY <2>1, SpawnStep, SMTT(30), SMTT(60) DEF PartInv
  <2> QED
    BY <2>1, <2>2, SameTrial DEF PartInv, loopVars
<1>8. CASE WarmUp
  <2>1. pc = "warmup" /\ pc' = "main" /\ UNCHANGED loopVars /\ SpawnAt("onwarmup")
    BY <1>8 DEF WarmUp
  <2>2. /\ groups' \subseteq Groups /\ (~mask => groups' = {})
        /\ shell' = Root /\ server' = server
        /\ trash' = IF conf.spawn = "onwarmup" THEN TrashGroup ELSE trash
    BY <2>1, SpawnStep DEF PartInv
  <2>3. conf.spawn \in {"oninit", "onwarmup", "onmainprocessing"}
    BY SMTT(30), SMTT(60) DEF PartInv, Configurations
  <2> QED
    BY <2>1, <2>2, <2>3, SameTrial DEF PartInv, loopVars
<1>9. CASE MainProcessing
  <2>1. pc = "main" /\ pc' = "measure" /\ UNCHANGED loopVars /\ SpawnAt("onmainprocessing")
    BY <1>9 DEF MainProcessing
  <2>2. /\ groups' \subseteq Groups /\ (~mask => groups' = {})
        /\ shell' = Root /\ server' = server
        /\ trash' = IF conf.spawn = "onmainprocessing" THEN TrashGroup ELSE trash
    BY <2>1, SpawnStep, SMTT(30), SMTT(60) DEF PartInv
  <2> QED
    BY <2>1, <2>2, SameTrial DEF PartInv, loopVars
<1>10. CASE ReadReady \/ ReadTimeout \/ ReadNothing \/ ReadUnexpected
  <2>1. /\ pc = "read" /\ pc' \in {"warmup", "cleanup", "exit"}
        /\ UNCHANGED <<loopVars, partVars>>
    BY <1>10, SMTT(30), SMTT(60) DEF ReadReady, ReadTimeout, ReadNothing, ReadUnexpected
  <2> QED
    BY <2>1, SameTrial, SMTT(30), SMTT(60) DEF PartInv, loopVars, partVars
<1>11. CASE ContendersExit
  BY <1>11, SameTrial, SMTT(30), SMTT(60) DEF ContendersExit, PartInv, loopVars
<1>12. CASE Stop
  BY <1>12, SameTrial, SMTT(30), SMTT(60) DEF Stop, PartInv, loopVars, partVars
<1>13. CASE KillAll
  BY <1>13, SameTrial DEF KillAll, PartInv, loopVars
<1>14. CASE DeleteGroups
  <2>1. /\ pc = "mgdelete" /\ pc' \in {"extract", "runtrial"} /\ UNCHANGED loopVars
        /\ shell = Root /\ server = None /\ trash = None
        /\ groups \subseteq Groups /\ (~mask => groups = {})
    BY <1>14 DEF DeleteGroups, PartInv
  <2>2. CASE mask
    BY <1>14, <2>1, <2>2, Zenon, ZenonT(40) DEF DeleteGroups, mgdelete, PartInv, loopVars, Clean, Groups, Root, None
  <2>3. CASE ~mask
    BY <1>14, <2>1, <2>3, SMTT(30), SMTT(60) DEF DeleteGroups, PartInv, loopVars, partVars, Clean
  <2> QED
    BY <2>2, <2>3
<1>15. CASE Terminated \/ UNCHANGED rttvars
  <2>1. UNCHANGED <<pc, loopVars, partVars>>
    BY <1>15, SMTT(30), SMTT(60) DEF Terminated, rttvars
  <2> QED
    BY <2>1, SameTrial DEF PartInv, loopVars, partVars, Clean
<1>16. CASE ContendersDie
  BY <1>16, SameTrial, SMTT(30), SMTT(60) DEF ContendersDie, PartInv, loopVars, Clean
<1> QED
  BY <1>1, <1>2, <1>3, <1>4, <1>5, <1>6, <1>7, <1>8, <1>9, <1>10, <1>11, <1>12, <1>13, <1>14, <1>15,
     <1>16
  DEF RttNext, Script, Trial

\* PartInv is inductive.
THEOREM PartInvariant == RttSpec => []PartInv
<1>1. RttInit => PartInv
  BY DEF RttInit, PartInv, Clean, Between, Running
<1>2. PartInv /\ [RttNext]_rttvars => PartInv'
  BY PartStep
<1> QED
  BY <1>1, <1>2, PTL DEF RttSpec

\* Partitions: while a trial is measured (runtrial, between the hooks and the
\* end of the client), server and contenders run in the groups of the series.
THEOREM Partitioned == RttSpec => []PartitionInForce
<1>1. PartInv => PartitionInForce
  <2> SUFFICES ASSUME PartInv, pc = "measure"
               PROVE  PartitionInForce
    BY DEF PartitionInForce
  <2>1. /\ server = ServerGroup
        /\ \/ trash = TrashGroup
           \/ trash = None /\ conf.spawn = "onmainprocessing"
    BY SMTT(30), SMTT(60) DEF PartInv
  <2> QED
    BY <2>1 DEF PartitionInForce, ServerGroup, TrashGroup, Root, None
<1> QED
  BY <1>1, PartInvariant, PTL

\* A signalled contender is in its own group until the groups are deleted, and in the root
\* group from then on.
DyingInv ==
  /\ pc # "mgdelete" => dying \subseteq {Root}
  /\ pc = "mgdelete" => dying \subseteq {Root, "trash"} /\ (~mask => dying \subseteq {Root})

\* killall adds the contenders of the trial, mgdelete moves them to the root group.
LEMMA DyingStep ==
  ASSUME PartInv, DyingInv, [RttNext]_rttvars
  PROVE  DyingInv'
<1>1. CASE KillAll
  <2>1. pc = "cleanup" /\ pc' = "mgdelete" /\ UNCHANGED series
    BY <1>1, Zenon, ZenonT(40) DEF KillAll, loopVars
  <2>2. trash \in {None, TrashGroup} /\ dying \subseteq {Root}
    BY <2>1, Zenon, ZenonT(40) DEF PartInv, DyingInv
  <2>3. dying' \subseteq {Root, "trash"} /\ (~mask => dying' \subseteq {Root})
    BY <1>1, <2>2, SMTT(30), SMTT(60) DEF KillAll, TrashGroup, None, Root
  <2> QED
    BY <2>1, <2>3, SMTT(30), SMTT(60) DEF DyingInv, mask
<1>2. CASE DeleteGroups
  <2>1. pc = "mgdelete" /\ pc' \in {"extract", "runtrial"}
    BY <1>2, SMTT(30), SMTT(60) DEF DeleteGroups
  <2>2. dying \subseteq {Root, "trash"} /\ (~mask => dying \subseteq {Root})
    BY <2>1, Zenon, ZenonT(40) DEF DyingInv
  <2>3. CASE mask
    <3>1. dying' = {IF g \in {"lockserver", "trash"} THEN Root ELSE g : g \in dying}
      BY <1>2, <2>3, Zenon, ZenonT(40) DEF DeleteGroups, mgdelete
    <3> QED
      BY <2>1, <2>2, <3>1, SMTT(30), SMTT(60) DEF DyingInv
  <2>4. CASE ~mask
    <3>1. dying' = dying
      BY <1>2, <2>4, Zenon, ZenonT(40) DEF DeleteGroups, partVars
    <3> QED
      BY <2>1, <2>2, <2>4, <3>1, SMTT(30), SMTT(60) DEF DyingInv
  <2> QED
    BY <2>3, <2>4, Zenon, ZenonT(40)
<1>3. CASE ContendersDie
  BY <1>3, SMTT(30), SMTT(60) DEF ContendersDie, DyingInv, loopVars
<1>4. CASE Terminated \/ UNCHANGED rttvars
  BY <1>4, SMTT(30), SMTT(60) DEF Terminated, rttvars, partVars, loopVars, DyingInv, mask
<1>5. CASE Skip \/ recordtrial \/ Extract \/ Record
  <2>1. pc \notin {"mgdelete"} /\ pc' # "mgdelete" /\ dying' = dying
    BY <1>5, SMTT(30), SMTT(60) DEF Skip, recordtrial, Extract, Record, NextTrial, partVars
  <2> QED
    BY <2>1, Zenon, ZenonT(40) DEF DyingInv
<1>6. CASE SetServerMask \/ SpawnServer \/ unsetmask \/ SpawnClient \/ WarmUp \/ MainProcessing
  <2>1. pc # "mgdelete" /\ pc' # "mgdelete" /\ dying' = dying
    BY <1>6, SMTT(30), SMTT(60) DEF SetServerMask, SpawnServer, unsetmask, SpawnClient, WarmUp, MainProcessing,
       SpawnAt, spawncontenders, partVars
  <2> QED
    BY <2>1, Zenon, ZenonT(40) DEF DyingInv
<1>7. CASE ReadReady \/ ReadTimeout \/ ReadNothing \/ ReadUnexpected \/ Stop \/ ContendersExit
  <2>1. pc # "mgdelete" /\ pc' # "mgdelete" /\ dying' = dying
    BY <1>7, SMTT(30), SMTT(60) DEF ReadReady, ReadTimeout, ReadNothing, ReadUnexpected, Stop, ContendersExit,
       partVars
  <2> QED
    BY <2>1, Zenon, ZenonT(40) DEF DyingInv
<1> QED
  BY <1>1, <1>2, <1>3, <1>4, <1>5, <1>6, <1>7, SMTT(30), SMTT(60) DEF RttNext, Script, Trial

\* Clean starts: recordtrial starts no run of a trial while a group or a server of the run
\* before is left, and contenders that outlive killall are in no partition of a later run.
THEOREM CleanStarts == RttSpec => []StartsClean
<1>1. RttInit => PartInv /\ DyingInv
  BY DEF RttInit, PartInv, Clean, Between, Running, DyingInv
<1>2. PartInv /\ DyingInv /\ [RttNext]_rttvars => PartInv' /\ DyingInv'
  BY PartStep, DyingStep, Zenon, ZenonT(40)
<1>3. PartInv /\ DyingInv => StartsClean
  BY SMTT(30), SMTT(60) DEF PartInv, DyingInv, StartsClean, Clean, Between
<1> QED
  BY <1>1, <1>2, <1>3, PTL DEF RttSpec

-----------------------------------------------------------------------------
(* Fresh counters *)

\* A run that is not to be repeated has written its counters, or has lost
\* the client.
FreshInv ==
  /\ exitcode \in 0..1
  /\ pc \in {"server", "unset", "client", "read", "warmup", "main", "measure"} => exitcode = 0
  /\ pc \in {"cleanup", "mgdelete"} => exitcode = 1 \/ lost \/ written
  /\ pc \in {"extract", "record"} => lost \/ written
  /\ RowsFresh

\* Freshness: the counters of a recorded row are those of the last run of its
\* trial, unless that trial lost its client.
THEOREM Fresh == RttSpec => []RowsFresh
<1>1. RttInit => FreshInv
  BY DEF RttInit, FreshInv, RowsFresh
<1>2. ASSUME FreshInv, [RttNext]_rttvars
      PROVE  FreshInv'
  <2>1. CASE Skip
    BY <1>2, <2>1 DEF Skip, NextTrial, trialVars, FreshInv, RowsFresh
  <2>2. CASE recordtrial
    BY <1>2, <2>2 DEF recordtrial, FreshInv, RowsFresh
  <2>3. CASE SetServerMask
    BY <1>2, <2>3, SMTT(30), SMTT(60) DEF SetServerMask, FreshInv, RowsFresh
  <2>4. CASE SpawnServer \/ unsetmask \/ SpawnClient \/ ReadReady \/ WarmUp \/ MainProcessing
    BY <1>2, <2>4, SMTT(30), SMTT(60) DEF SpawnServer, unsetmask, SpawnClient, ReadReady, WarmUp, MainProcessing,
                      trialVars, FreshInv, RowsFresh
  <2>5. CASE ReadTimeout \/ ReadNothing \/ ReadUnexpected
    BY <1>2, <2>5, SMTT(30), SMTT(60) DEF ReadTimeout, ReadNothing, ReadUnexpected, trialVars, FreshInv, RowsFresh
  <2>6. CASE Stop \/ KillAll \/ DeleteGroups \/ ContendersExit \/ ContendersDie
    BY <1>2, <2>6, SMTT(30), SMTT(60) DEF Stop, KillAll, DeleteGroups, ContendersExit, ContendersDie, trialVars, FreshInv, RowsFresh
  <2>7. CASE Extract
    BY <1>2, <2>7, SMTT(30), SMTT(60) DEF Extract, FreshInv, RowsFresh
  <2>8. CASE Record
    BY <1>2, <2>8, SMTT(30), SMTT(60) DEF Record, NextTrial, trialVars, FreshInv, RowsFresh
  <2>9. CASE Terminated \/ UNCHANGED rttvars
    BY <1>2, <2>9 DEF Terminated, rttvars, trialVars, FreshInv, RowsFresh
  <2> QED
    BY <1>2, <2>1, <2>2, <2>3, <2>4, <2>5, <2>6, <2>7, <2>8, <2>9 DEF RttNext, Script, Trial
<1> QED
  BY <1>1, <1>2, PTL DEF RttSpec, FreshInv

-----------------------------------------------------------------------------
(* Complete series *)

\* The series that have a row for every input, and how many rows there are
\* when the main loop stands at the current input and series.
Each(s) ==
  CASE Series[s] = "baseline" -> conf.independent \notin {"num_trash", "cache_ways"}
    [] Series[s] = "basealloc" -> conf.independent # "num_trash"
    [] Series[s] = "contention" -> conf.independent # "cache_ways"
    [] OTHER -> TRUE

RowCount(s) ==
  IF Each(s) THEN (IF s < series THEN input ELSE input - 1)
  ELSE IF firstrun /\ s >= series THEN 0 ELSE 1

UpTo(n) == [i \in 1..n |-> i]

SeriesInv ==
  /\ input \in 1..(Inputs + 1) /\ series \in 1..4
  /\ firstrun \in BOOLEAN /\ (firstrun <=> input = 1)
  /\ pc \notin {"decide", "done"} => Recorded(series)
  /\ pc = "done" <=> input = Inputs + 1
  /\ pc = "done" => series = 1
  /\ rows = [s \in 1..4 |-> UpTo(RowCount(s))]

\* A row more is the list of one number more.
LEMMA AppendNext ==
  ASSUME NEW n \in Nat
  PROVE  Append(UpTo(n), n + 1) = UpTo(n + 1)
BY DEF UpTo

\* A row is recorded in the first run, and in later ones for a series of each input.
LEMMA RecordedEach == ASSUME NEW s PROVE Recorded(s) <=> firstrun \/ Each(s)
BY DEF Recorded, Each

\* The loop variables after a trial, and the rows each series then has.
LEMMA LoopStep ==
  ASSUME SeriesInv, NextTrial, pc # "done"
  PROVE  /\ input' \in 1..(Inputs + 1) /\ series' \in 1..4
         /\ firstrun' \in BOOLEAN /\ (firstrun' <=> input' = 1)
         /\ pc' \in {"decide", "done"}
         /\ pc' = "done" <=> input' = Inputs + 1
         /\ pc' = "done" => series' = 1
         /\ \A s \in 1..4 : RowCount(s)' = IF s = series /\ Recorded(s) THEN RowCount(s) + 1 ELSE RowCount(s)
<1> USE InputsAssumption
<1>1. /\ series' = IF series = 4 THEN 1 ELSE series + 1
      /\ input' = IF series = 4 THEN input + 1 ELSE input
      /\ pc' = IF series = 4 /\ input = Inputs THEN "done" ELSE "decide"
  BY DEF NextTrial
<1>0. firstrun' \in BOOLEAN /\ (firstrun' <=> firstrun /\ series < 4)
  BY Zenon, ZenonT(40) DEF NextTrial
<1>2. input \in 1..Inputs /\ series \in 1..4 /\ firstrun \in BOOLEAN /\ (firstrun <=> input = 1)
  BY DEF SeriesInv
<1>3. ASSUME NEW s \in 1..4
      PROVE  RowCount(s)' = IF s = series /\ Recorded(s) THEN RowCount(s) + 1 ELSE RowCount(s)
  <2>1. Each(s)' <=> Each(s)
    BY DEF NextTrial, Each
  <2>2. Recorded(s) <=> firstrun \/ Each(s)
    BY RecordedEach
  <2>3. CASE Each(s)
    BY <1>0, <1>1, <1>2, <2>1, <2>2, <2>3 DEF RowCount
  <2>4. CASE ~Each(s)
    BY <1>0, <1>1, <1>2, <2>1, <2>2, <2>4 DEF RowCount
  <2> QED
    BY <2>3, <2>4
<1>4. firstrun' <=> input' = 1
  BY <1>0, <1>1, <1>2, SMTT(30), SMTT(60)
<1> QED
  BY <1>0, <1>1, <1>2, <1>3, <1>4

\* A trial that is skipped adds no row, and needs none.
LEMMA SkipRows ==
  ASSUME SeriesInv, Skip
  PROVE  SeriesInv'
<1>1. NextTrial /\ ~Recorded(series) /\ pc # "done" /\ rows' = rows
  BY DEF Skip
<1>2. \A s \in 1..4 : RowCount(s)' = RowCount(s)
  BY <1>1, LoopStep
<1>3. rows' = [s \in 1..4 |-> UpTo(RowCount(s)')]
  BY <1>1, <1>2 DEF SeriesInv
<1>4. pc' \in {"decide", "done"}
  BY <1>1, LoopStep
<1> QED
  BY <1>1, <1>3, <1>4, LoopStep DEF SeriesInv

\* A trial that is recorded adds the row that was missing.
LEMMA RecordRows ==
  ASSUME SeriesInv, Record
  PROVE  SeriesInv'
<1>1. NextTrial /\ Recorded(series) /\ pc # "done"
      /\ rows' = [rows EXCEPT ![series] = Append(@, input)]
  BY DEF Record, SeriesInv
<1>2. RowCount(series) + 1 = input /\ RowCount(series) \in Nat
  BY <1>1, RecordedEach, InputsAssumption DEF SeriesInv, RowCount
<1>3. Append(UpTo(RowCount(series)), input) = UpTo(RowCount(series) + 1)
  BY <1>2, AppendNext, Zenon, ZenonT(40)
<1>4. \A s \in 1..4 : RowCount(s)' = IF s = series THEN RowCount(s) + 1 ELSE RowCount(s)
  BY <1>1, LoopStep
<1>5. rows' = [s \in 1..4 |-> UpTo(RowCount(s)')]
  BY <1>1, <1>3, <1>4, Zenon, ZenonT(40) DEF SeriesInv
<1>6. pc' \in {"decide", "done"}
  BY <1>1, LoopStep
<1> QED
  BY <1>1, <1>5, <1>6, LoopStep, Zenon, ZenonT(40) DEF SeriesInv

\* Every other step keeps the loop's variables and the rows.
LEMMA KeepRows ==
  ASSUME SeriesInv, UNCHANGED <<loopVars, rows>>,
         pc' # "decide", pc' = "done" <=> pc = "done",
         pc = "decide" => Recorded(series)
  PROVE  SeriesInv'
<1>1. conf' = conf /\ input' = input /\ series' = series /\ firstrun' = firstrun /\ rows' = rows
  BY DEF loopVars
<1>2. \A s \in 1..4 : RowCount(s)' = RowCount(s)
  BY <1>1 DEF RowCount, Each
<1>3. Recorded(series)' <=> Recorded(series)
  BY <1>1 DEF Recorded
<1>4. rows' = [s \in 1..4 |-> UpTo(RowCount(s)')]
  BY <1>1, <1>2 DEF SeriesInv
<1> QED
  BY <1>1, <1>3, <1>4 DEF SeriesInv

\* Completeness: when the main loop has ended every series has exactly its
\* rows, in the order of the inputs, whatever was repeated on the way.
THEOREM Complete == RttSpec => []SeriesComplete
<1> USE InputsAssumption
<1>1. RttInit => SeriesInv
  <2> SUFFICES ASSUME RttInit PROVE SeriesInv
    BY SMTT(30), SMTT(60)
  <2>1. \A s \in 1..4 : RowCount(s) = 0
    BY DEF RttInit, RowCount
  <2>2. UpTo(0) = <<>>
    BY DEF UpTo
  <2>3. rows = [s \in 1..4 |-> UpTo(RowCount(s))]
    BY <2>1, <2>2 DEF RttInit
  <2> QED
    BY <2>3 DEF RttInit, SeriesInv
<1>2. ASSUME SeriesInv, [RttNext]_rttvars
      PROVE  SeriesInv'
  <2>1. CASE Skip
    BY <1>2, <2>1, SkipRows
  <2>2. CASE Record
    BY <1>2, <2>2, RecordRows
  <2>3. CASE recordtrial \/ Trial \/ Extract \/ ContendersExit
    <3>1. /\ UNCHANGED <<loopVars, rows>> /\ pc' \notin {"decide", "done"} /\ pc # "done"
          /\ pc = "decide" => Recorded(series)
      <4>1. CASE recordtrial
        BY <4>1 DEF recordtrial
      <4>2. CASE Extract \/ ContendersExit
        BY <4>2, SMTT(30), SMTT(60) DEF Extract, ContendersExit
      <4>3. CASE SetServerMask \/ SpawnServer \/ unsetmask \/ SpawnClient
        BY <4>3, SMTT(30), SMTT(60) DEF SetServerMask, SpawnServer, unsetmask, SpawnClient
      <4>4. CASE ReadReady \/ ReadTimeout \/ ReadNothing \/ ReadUnexpected
        BY <4>4, SMTT(30), SMTT(60) DEF ReadReady, ReadTimeout, ReadNothing, ReadUnexpected
      <4>5. CASE WarmUp \/ MainProcessing \/ Stop \/ KillAll \/ DeleteGroups
        BY <4>5 DEF WarmUp, MainProcessing, Stop, KillAll, DeleteGroups
      <4> QED
        BY <2>3, <4>1, <4>2, <4>3, <4>4, <4>5 DEF Trial
    <3> QED
      BY <1>2, <3>1, KeepRows
  <2>4. CASE ContendersDie \/ Terminated \/ UNCHANGED rttvars
    <3>1. UNCHANGED <<loopVars, pc, rows>>
      BY <2>4, SMTT(30), SMTT(60) DEF ContendersDie, Terminated, rttvars
    <3>2. /\ conf' = conf /\ input' = input /\ series' = series /\ firstrun' = firstrun
          /\ pc' = pc /\ rows' = rows
      BY <3>1 DEF loopVars
    <3>3. rows' = [s \in 1..4 |-> UpTo(RowCount(s)')]
      BY <1>2, <3>2 DEF SeriesInv, RowCount, Each
    <3> QED
      BY <1>2, <3>2, <3>3 DEF SeriesInv, Recorded
  <2> QED
    BY <1>2, <2>1, <2>2, <2>3, <2>4 DEF RttNext, Script
<1>3. SeriesInv => SeriesComplete
  <2> SUFFICES ASSUME SeriesInv, pc = "done", NEW s \in 1..4
               PROVE  rows[s] = [i \in 1..(IF Recorded(s) THEN Inputs ELSE 1) |-> i]
    BY DEF SeriesComplete
  <2>1. input = Inputs + 1 /\ series = 1 /\ ~firstrun
    BY DEF SeriesInv
  <2>2. RowCount(s) = IF Recorded(s) THEN Inputs ELSE 1
    BY <2>1, RecordedEach DEF RowCount
  <2> QED
    BY <2>2 DEF SeriesInv, UpTo
<1> QED
  BY <1>1, <1>2, <1>3, PTL DEF RttSpec
=============================================================================
