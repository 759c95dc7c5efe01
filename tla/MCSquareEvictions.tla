------------------------- MODULE MCSquareEvictions -------------------------
(***************************************************************************)
(* The two programs that use the generator: square_evictions with a cache  *)
(* of 16 sets and one command line per feature, and a caller of the        *)
(* generator alone.  They share no state: a behaviour runs one of them.    *)
(***************************************************************************)
EXTENDS SquareEvictions, Rng, SequencesExt

CONSTANT Programs
VARIABLE program

mcvars == <<vars, rngvars, program>>

\* The program that does not run keeps the first of its initial states.
MCInit ==
  /\ program \in Programs
  /\ Init /\ RngInit
  /\ program = "rng_test" => opt = CHOOSE o \in Options : TRUE
  /\ program = "square_evictions" => call = CHOOSE c \in Calls : TRUE

MCNext ==
  /\ UNCHANGED program
  /\ \/ program = "square_evictions" /\ Next /\ UNCHANGED rngvars
     \/ program = "rng_test" /\ RngNext /\ UNCHANGED vars

MCSpec ==
  /\ MCInit /\ [][MCNext]_mcvars
  /\ WF_vars(program = "square_evictions" /\ Program)

\* With the fairness of the loop that draws an increment.
RngSpec == MCInit /\ [][MCNext]_mcvars /\ RngFairness

BothPrograms == {"square_evictions", "rng_test"}
OnlyRng == {"rng_test"}
OnlySquare == {"square_evictions"}

-----------------------------------------------------------------------------
(* Command lines of square_evictions *)

Default ==
  [sets |-> 16, contracted |-> 60, expanded |-> 100, randomize |-> TRUE, second |-> TRUE,
   factors |-> <<>>, incr |-> 0, norngspin |-> FALSE, accesses |-> 0, base |-> 0,
   infinite |-> FALSE, periods |-> 1, passes |-> 2, async |-> FALSE, log |-> FALSE,
   stride |-> -1]

\* In order of address, and refused options.
Plain == [Default EXCEPT !.randomize = FALSE, !.log = TRUE, !.stride = 3]
OneGenerator == [Default EXCEPT !.second = FALSE, !.contracted = 70, !.expanded = 150]
Refused == [Default EXCEPT !.contracted = 120]
NotPowerOfTwo == [Default EXCEPT !.sets = 12]
\* The period is the number of lines itself.
Factored == [Default EXCEPT !.expanded = 125, !.factors = <<2, 5>>]
EvenIncrement == [Factored EXCEPT !.sets = 8, !.expanded = 338, !.factors = <<3>>, !.incr = 4]
NoSpin == [Default EXCEPT !.contracted = 40, !.norngspin = TRUE]
Limited == [Default EXCEPT !.accesses = 5, !.contracted = 100, !.base = 3]
Async == [Default EXCEPT !.async = TRUE, !.log = TRUE, !.passes = 1, !.incr = 3,
                            !.contracted = 50]
Forever == [Async EXCEPT !.infinite = TRUE]

SomeOptions ==
  {Default, Plain, OneGenerator, Refused, NotPowerOfTwo, Factored, EvenIncrement, NoSpin,
   Limited, Async, Forever}

\* A limit above the contracted and below the expanded working set.
LimitBetween == {[Default EXCEPT !.accesses = 10, !.contracted = 50, !.passes = 1]}

\* A contracted working set larger than the number of cache sets.
AboveCache == {[Default EXCEPT !.contracted = 150, !.expanded = 200]}

\* An increment that suits the factors given and not the powers of two.
OddFactors == {EvenIncrement}

TwoSeeds == {1, 2147483647}
OneSeed == {1}

-----------------------------------------------------------------------------
(* Calls of the constructors of the generator *)

PrimeFactors(n) ==
  SetToSortSeq({p \in 2..n : n % p = 0 /\ \A d \in 2..(p - 1) : p % d # 0}, <)

Call(p, facts, i) == [period |-> p, pfactors |-> facts, incr |-> i]

\* All small periods that have an increment to find, a factor given twice,
\* increments given by the caller, and a power of two with a coefficient so
\* large that the 32-bit product wraps.
Supported ==
  {Call(p, PrimeFactors(p), Drawn) : p \in (5..20) \ {6}}
    \cup {Call(16, <<2, 2>>, Drawn), Call(12, <<2, 3, 2>>, Drawn)}
    \cup {Call(10, <<2, 5>>, i) : i \in {1, 3, 4, 13}}
    \cup {Call(64, [i \in 1..26 |-> 2], 3)}

\* The smallest period at least 5 without an increment to find.
Six == {Call(6, <<2, 3>>, Drawn)}

\* The smallest prime period whose product wraps.
WrappingPrime == {Call(32771, <<32771>>, 36)}

SomeSeeds == {0, 5, 2147483647}
PrimeSeed == {32765}
=============================================================================
