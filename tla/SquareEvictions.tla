--------------------------- MODULE SquareEvictions ---------------------------
(***************************************************************************)
(* clients/square_evictions.c: walk a buffer line by line, in the order of *)
(* one or two full-cycle generators, alternating between a contracted and  *)
(* an expanded working set; log counters on the way; and, with -i, do so   *)
(* in the handler of SIGUSR1 until SIGTERM arrives.                        *)
(* Addresses are counted in cache lines, the log in units of 16 bytes.     *)
(***************************************************************************)
EXTENDS Lcg

CONSTANTS Options,   \* the command lines (and cache sizes) to look at
          Seeds,     \* values of rand() for the first generator states
          MINIMUM_GENERATOR_PERIOD,
          LogSize,   \* PERF_LOG_BUFFER_INIT_SIZE in units of 16 bytes
          MaxLogSize, \* above this size mremap always fails
          MaxUsr1,   \* bound on the SIGUSR1 sent
          NULL

LogHeader == 1  \* siz and occ
LogEntry == 2   \* perf_log_buffer_entry_t
GrowFactor == 2 \* PERF_LOG_BUFFER_GROW_FACT

ASSUME LogAssumption == LogSize \in Nat /\ LogSize >= LogHeader /\ MaxLogSize \in Nat
ASSUME UsrAssumption == MaxUsr1 \in Nat

VARIABLES
  opt,                  \* the options
  pc,
  random, randtv,       \* the generators
  cycle, pass, line,    \* the loop counters; line = offset / cache_line_size
  tries, accesses,
  occ, siz,             \* the log buffer
  uninterrupted, usr1,  \* the flag of term_handler; SIGUSR1 is pending
  ret,                  \* main's return value
  touched,              \* history: lines touched in the current pass
  traversed,            \* history: lines touched in the current traversal
  sent                  \* number of SIGUSR1 sent

loopVars == <<cycle, pass, line, tries, accesses>>
logVars == <<occ, siz>>
sigVars == <<uninterrupted, usr1, sent>>
histVars == <<touched, traversed>>
vars == <<opt, pc, random, randtv, loopVars, logVars, sigVars, ret, histVars>>

-----------------------------------------------------------------------------
(* main: what the options make of the cache size *)

lines_contracted == (opt.sets * opt.contracted) \div 100
lines_expanded == (opt.sets * opt.expanded) \div 100

secondrng == opt.second /\ opt.contracted # opt.expanded

pow_of_two(n) == \E k \in 0..30 : n = 2^k

\* The checks made before the cache is looked at.
Valid ==
  /\ ~opt.second \/ opt.factors # <<>> => opt.randomize
  /\ opt.contracted <= opt.expanded
  /\ opt.stride # -1 => opt.log
  /\ opt.accesses # 0 \/ opt.base # 0 => opt.randomize
  /\ ~(opt.infinite /\ opt.accesses # 0)

\* The checks made with it.
Feasible ==
  opt.randomize =>
    /\ pow_of_two(opt.sets)
    /\ opt.factors # <<>> =>
         lines_expanded % FoldFunction(LAMBDA x, y : x * y, 1, opt.factors) = 0

\* Mutant: the size is tested before it is halved.
siz_reducedTooFar ==
  LET halve[s \in Nat] ==
        IF s >= lines_contracted /\ s \div 2 >= MINIMUM_GENERATOR_PERIOD
          THEN halve[s \div 2] ELSE s
  IN  halve[opt.sets]

\* The smallest power of two that holds the contracted lines.
siz_reduced ==
  LET halve[s \in Nat] ==
        IF s \div 2 >= lines_contracted /\ s \div 2 >= MINIMUM_GENERATOR_PERIOD
          THEN halve[s \div 2] ELSE s
  IN  halve[opt.sets]

factors == IF opt.factors # <<>> THEN opt.factors ELSE <<2>>

\* The period of the first generator.
period ==
  LET double[s \in Nat] == IF s < lines_expanded THEN double[2 * s] ELSE s
  IN  IF opt.factors # <<>> THEN lines_expanded ELSE double[siz_reduced]

Increments(p, facts) ==
  IF opt.incr # 0 THEN {opt.incr} ELSE {r \in 0..(p - 1) : Accepted(r, p, facts)}

Advance(g) == [g EXCEPT !.last = rng_lcfc(g)]

\* -b: skip this many draws.
Wasted(g) ==
  LET skip[n \in 0..opt.base] == IF n = 0 THEN g ELSE Advance(skip[n - 1])
  IN  skip[opt.base]

TypeOK ==
  /\ opt \in Options
  /\ pc \in {"main", "async", "start", "cycle", "pass", "exit", "abort", "killed"}
  /\ \A g \in {random, randtv} \ {NULL} : g.last \in 0..(g.mod - 1) \cup Seeds
  /\ cycle \in 0..(2 * opt.periods) /\ pass \in 0..opt.passes
  /\ line \in 0..lines_expanded
  /\ tries \in 0..(period - 1)
  /\ accesses \in 0..(opt.passes * lines_expanded)
  /\ occ \in Nat /\ siz \in Nat
  /\ uninterrupted \in BOOLEAN /\ usr1 \in BOOLEAN /\ sent \in 0..MaxUsr1
  /\ ret \in {0, 1}
  /\ touched \subseteq 0..(lines_expanded - 1) /\ traversed \subseteq 0..(lines_expanded - 1)

Init ==
  /\ opt \in Options
  /\ pc = "main"
  /\ random = NULL /\ randtv = NULL
  /\ cycle = 0 /\ pass = 0 /\ line = 0 /\ tries = 0 /\ accesses = 0
  /\ occ = LogHeader /\ siz = LogSize
  /\ uninterrupted = TRUE /\ usr1 = FALSE /\ sent = 0
  /\ ret = 0
  /\ touched = {} /\ traversed = {}

\* Any of the checks and allocations may fail; Setup needs all of them.
SetupFails ==
  /\ pc = "main"
  /\ pc' = "exit" /\ ret' = 1
  /\ UNCHANGED <<opt, random, randtv, loopVars, logVars, sigVars, histVars>>

\* main up to the call of square_evictions or square_evictions_async.
Setup ==
  /\ pc = "main"
  /\ Valid /\ Feasible
  /\ IF ~opt.randomize
       THEN pc' = (IF opt.async THEN "async" ELSE "start") /\ UNCHANGED <<random, randtv>>
       ELSE \E i \in Increments(period, factors), seed \in Seeds :
              /\ coprime(i, factors)
              /\ random' = Wasted(NewRng(period, factors, i, seed))
              /\ IF ~secondrng
                   THEN pc' = (IF opt.async THEN "async" ELSE "start") /\ UNCHANGED randtv
                   ELSE \E j \in Increments(siz_reduced, <<2>>), again \in Seeds :
                          IF ~coprime(j, <<2>>)
                            THEN pc' = "abort" /\ UNCHANGED randtv  \* assert(randtv)
                            ELSE /\ randtv' = Wasted(NewRng(siz_reduced, <<2>>, j, again))
                                 /\ pc' = (IF opt.async THEN "async" ELSE "start")
  /\ UNCHANGED <<opt, loopVars, logVars, sigVars, ret, histVars>>

-----------------------------------------------------------------------------
(* square_evictions *)

\* The end of a traversal: the handler of SIGUSR1 drops what it returns.
Return(r) ==
  /\ pc' = IF opt.async THEN "async" ELSE "exit"
  /\ ret' = IF opt.async THEN ret ELSE r

Start ==
  /\ pc = "start"
  /\ cycle' = 0 /\ traversed' = {}
  /\ \/ pc' = "cycle" /\ UNCHANGED ret
     \/ opt.log /\ Return(1)  \* perf_poll_init, perf_poll_start
  /\ UNCHANGED <<opt, random, randtv, pass, line, tries, accesses, logVars, sigVars, touched>>

capacity == IF cycle % 2 = 1 THEN lines_expanded ELSE lines_contracted

UseSecond == cycle % 2 = 0 /\ randtv # NULL

BeginCycle ==
  /\ pc = "cycle"
  /\ IF cycle < 2 * opt.periods
       THEN pc' = "pass" /\ UNCHANGED ret
       ELSE Return(0)
  /\ pass' = 0 /\ line' = 0 /\ tries' = 0 /\ accesses' = 0 /\ touched' = {}
  /\ UNCHANGED <<opt, random, randtv, cycle, logVars, sigVars, traversed>>

EndPass ==
  /\ pc = "pass" /\ pass < opt.passes /\ line >= capacity
  /\ pc' = IF capacity = 0 \/ 0 \in touched THEN "pass" ELSE "abort"
  /\ pass' = pass + 1 /\ line' = 0 /\ touched' = {}
  /\ UNCHANGED <<opt, random, randtv, cycle, tries, accesses, logVars, sigVars, ret, traversed>>

EndCycle ==
  /\ pc = "pass" /\ pass = opt.passes
  /\ cycle' = IF opt.infinite THEN cycle ELSE cycle + 1
  /\ pc' = "cycle"
  /\ UNCHANGED <<opt, random, randtv, pass, line, tries, accesses, logVars, sigVars, ret, histVars>>

\* The index that the next draw gives, and the draw.
NextIx ==
  IF ~opt.randomize THEN line ELSE rng_lcfc(IF UseSecond THEN randtv ELSE random)

DrawIx ==
  IF ~opt.randomize THEN UNCHANGED <<random, randtv>>
  ELSE IF UseSecond THEN randtv' = Advance(randtv) /\ UNCHANGED random
  ELSE random' = Advance(random) /\ UNCHANGED randtv

InPass == pc = "pass" /\ pass < opt.passes /\ line < capacity

\* Mutant: the index is computed again without another draw.
SpinWithoutDraw ==
  /\ InPass /\ NextIx >= capacity
  /\ UNCHANGED vars

\* Out of range: draw again.
Spin ==
  /\ InPass /\ NextIx >= capacity
  /\ DrawIx
  /\ tries' = tries + 1
  /\ UNCHANGED <<opt, pc, cycle, pass, line, accesses, logVars, sigVars, ret, histVars>>

\* -q: a second draw is an error.
RefuseSpin ==
  /\ InPass /\ NextIx < capacity /\ opt.norngspin /\ tries > 0
  /\ DrawIx
  /\ Return(1)
  /\ UNCHANGED <<opt, loopVars, logVars, sigVars, histVars>>

stride == IF opt.stride = -1 THEN lines_expanded ELSE opt.stride

Logs == opt.log /\ line % stride = 0

\* Mutant: the test for room forgets the entry to be written.
bufappendLate ==
  IF occ > siz
    THEN siz' = GrowFactor * siz /\ siz' <= MaxLogSize /\ occ' = occ + LogEntry
    ELSE UNCHANGED siz /\ occ' = occ + LogEntry

\* bufappend; the buffer is grown at most once per entry.
bufappend ==
  IF occ + LogEntry > siz
    THEN siz' = GrowFactor * siz /\ siz' <= MaxLogSize /\ occ' = occ + LogEntry
    ELSE UNCHANGED siz /\ occ' = occ + LogEntry

Touch ==
  /\ InPass /\ NextIx < capacity /\ ~(opt.norngspin /\ tries > 0)
  /\ DrawIx
  /\ touched' = touched \cup {NextIx}
  /\ traversed' = traversed \cup {NextIx}

\* One access: touch the line, log, count, and stop at the limit of -a.
Access ==
  /\ Touch
  /\ IF Logs THEN bufappend ELSE UNCHANGED logVars
  /\ accesses' = accesses + 1
  /\ IF ~opt.infinite /\ accesses' = opt.accesses
       THEN Return(0) /\ UNCHANGED <<line, tries>>
       ELSE line' = line + 1 /\ tries' = 0 /\ UNCHANGED <<pc, ret>>
  /\ UNCHANGED <<opt, cycle, pass, sigVars>>

\* mremap fails after the line has been touched.
LogFails ==
  /\ Touch
  /\ Logs /\ occ + LogEntry > siz
  /\ Return(1)
  /\ UNCHANGED <<opt, loopVars, logVars, sigVars>>

-----------------------------------------------------------------------------
(* Signals *)

Traversing == pc \in {"start", "cycle", "pass"}

Installed == opt.async /\ (pc = "async" \/ Traversing)

\* The default action of both signals ends the program.
Usr1 ==
  /\ sent < MaxUsr1 /\ pc \notin {"exit", "abort", "killed"}
  /\ IF Installed THEN usr1' = TRUE /\ UNCHANGED pc ELSE pc' = "killed" /\ UNCHANGED usr1
  /\ sent' = sent + 1
  /\ UNCHANGED <<opt, random, randtv, loopVars, logVars, uninterrupted, ret, histVars>>

Term ==
  /\ uninterrupted /\ pc \notin {"exit", "abort", "killed"}
  /\ IF Installed THEN uninterrupted' = FALSE /\ UNCHANGED pc
                  ELSE pc' = "killed" /\ UNCHANGED uninterrupted
  /\ UNCHANGED <<opt, random, randtv, loopVars, logVars, usr1, sent, ret, histVars>>

\* Mutant: the handler sets the flag again.
HandlerRearms ==
  /\ pc = "async" /\ usr1
  /\ usr1' = FALSE
  /\ uninterrupted' = TRUE
  /\ pc' = "start"
  /\ UNCHANGED <<opt, random, randtv, loopVars, logVars, sent, ret, histVars>>

\* The handler of SIGUSR1 starts; the signal is blocked until it returns.
square_evictions_handler ==
  /\ pc = "async" /\ usr1
  /\ usr1' = FALSE
  /\ pc' = "start"
  /\ UNCHANGED <<opt, random, randtv, loopVars, logVars, uninterrupted, sent, ret, histVars>>

\* while(uninterrupted); is left.
LeaveAsync ==
  /\ pc = "async" /\ ~uninterrupted
  /\ pc' = "exit" /\ ret' = 0
  /\ UNCHANGED <<opt, random, randtv, loopVars, logVars, sigVars, histVars>>

Ended == pc \in {"exit", "abort", "killed"} /\ UNCHANGED vars

Program ==
  \/ SetupFails \/ Setup \/ Start \/ BeginCycle \/ EndPass \/ EndCycle
  \/ Spin \/ RefuseSpin \/ Access \/ LogFails \/ square_evictions_handler \/ LeaveAsync

Next == Program \/ Usr1 \/ Term \/ Ended

\* The program is scheduled; nobody has to send a signal.
Spec == Init /\ [][Next]_vars /\ WF_vars(Program)

-----------------------------------------------------------------------------
(* Properties *)

\* Every pass touches every line of its working set, whichever generator
\* orders it, wherever in its period the pass begins, and whatever phases
\* and signals came before: a pass draws just as often as there are lines,
\* so none is touched twice.
PassTouchesAll ==
  pc = "pass" /\ pass < opt.passes /\ line = capacity => touched = 0..(capacity - 1)

\* No log entry is written past the end of the buffer.
LogInBounds == occ <= siz

\* A traversal ends: the loop that draws again until the index is in range
\* always finds one.
TraversalEnds == Traversing /\ ~opt.infinite ~> ~Traversing

\* With -i the program ends after SIGTERM, even one that arrives during a
\* traversal, unless the traversal is endless by request.
TermEnds == ~uninterrupted /\ ~opt.infinite ~> pc = "exit"

\* The assertions hold: the second generator can be built whenever the first
\* could, and every pass meets the first line.
NoAssertFails == pc # "abort"

\* What the usage text says of -a: the accesses of a traversal are limited
\* to a subset of this cardinality.
AccessesLimited == opt.accesses # 0 => Cardinality(traversed) <= opt.accesses
=============================================================================
