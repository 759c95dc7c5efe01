-------------------------------- MODULE Rng --------------------------------
(***************************************************************************)
(* The constructors of the generator of clients/rng.c and a caller that    *)
(* goes on drawing from it, as rng_test.c does.                            *)
(***************************************************************************)
EXTENDS Lcg

CONSTANTS Calls,     \* the calls of the constructors to look at: records
                     \* [period, pfactors, incr], incr = Drawn for rng_lcfc_init
          RngSeeds,  \* values of rand() for the first state
          Drawn, NoRng

\* What rand() % period may be.
Residues == UNION {0..(c.period - 1) : c \in {d \in Calls : d.incr = Drawn}}

ASSUME CallsAssumption ==
  /\ \A c \in Calls : /\ c.period \in Nat /\ c.period >= 5
                      /\ c.pfactors \in Seq(Nat) /\ c.pfactors # <<>>
                      /\ c.incr = Drawn \/ c.incr \in Nat
  /\ RngSeeds \subseteq Nat

VARIABLES
  call,   \* the arguments of the constructor
  rpc,    \* "draw" and "test" in the loop of rng_lcfc_init, then "init";
          \* "use" with a generator, "rejected" and "nomem" without one
  incr,   \* the increment drawn
  rng,    \* the generator
  calls,  \* history: number of calls of rng_lcfc, from 1 again after a period
  first   \* history: what the first of them returned

rngvars == <<call, rpc, incr, rng, calls, first>>

RngInit ==
  /\ call \in Calls
  /\ rpc = IF call.incr = Drawn THEN "draw" ELSE "init"
  /\ incr = IF call.incr = Drawn THEN 0 ELSE call.incr
  /\ rng = NoRng
  /\ calls = 0
  /\ first = 0

Draw(r) ==
  /\ rpc = "draw" /\ r < call.period
  /\ incr' = r
  /\ rpc' = "test"
  /\ UNCHANGED <<call, rng, calls, first>>

Test ==
  /\ rpc = "test"
  /\ rpc' = IF Accepted(incr, call.period, call.pfactors) THEN "init" ELSE "draw"
  /\ UNCHANGED <<call, incr, rng, calls, first>>

InitIncr ==
  /\ rpc = "init"
  /\ \/ ~coprime(incr, call.pfactors) /\ rpc' = "rejected" /\ UNCHANGED rng
     \/ coprime(incr, call.pfactors) /\ rpc' = "nomem" /\ UNCHANGED rng
     \/ /\ coprime(incr, call.pfactors)
        /\ \E seed \in RngSeeds : rng' = NewRng(call.period, call.pfactors, incr, seed)
        /\ rpc' = "use"
  /\ UNCHANGED <<call, incr, calls, first>>

Use ==
  /\ rpc = "use"
  /\ rng' = [rng EXCEPT !.last = rng_lcfc(rng)]
  /\ first' = IF calls = 0 THEN rng'.last ELSE first
  /\ calls' = (calls % call.period) + 1
  /\ UNCHANGED <<call, rpc, incr>>

NoGenerator == rpc \in {"rejected", "nomem"} /\ UNCHANGED rngvars

RngNext == (\E r \in Residues : Draw(r)) \/ Test \/ InitIncr \/ Use \/ NoGenerator

\* The program is scheduled, and rand() does not for ever avoid the residues
\* that the loops accept.
RngFairness ==
  /\ SF_rngvars(\E r \in Residues : Draw(r) /\ Accepted(r, call.period, call.pfactors))
  /\ WF_rngvars((\E r \in Residues : Draw(r)) \/ Test \/ InitIncr)

-----------------------------------------------------------------------------
(* Properties *)

\* The generator returns to its first value after exactly one period, and
\* never earlier: on values below the period this says that no value is seen
\* twice within a single period, which is what rng_test looks for.
FullCycle == calls > 0 => (rng.last = first <=> calls = 1)

\* rng_lcfc_init returns with a generator unless memory is short: for legal
\* arguments the loop that draws an increment finds one.
InitReturns == <>(call.incr # Drawn \/ rpc \in {"use", "nomem"})
=============================================================================
