---------------------------- MODULE AdaptiveSpin ----------------------------
(***************************************************************************)
(* How TryWaitForTurn (src/MPMCQueue/TurnSequncer.h) tunes the number of   *)
(* spins before it sleeps: the cutoff that all pushes, or all pops, of a   *)
(* queue share, moved by an eighth of the way to what this wait needed,    *)
(* in uint32_t arithmetic.                                                 *)
(***************************************************************************)
EXTENDS Integers

CONSTANTS Callers,                  \* the threads that wait for a turn
          kMinSpins, kMaxSpins,     \* 20 and 2000 in the code
          Word,                     \* 2^32: uint32_t is 0..Word-1
          MaxCount                  \* bound: how many rounds a wait takes

ASSUME AdaptiveSpinAssumption ==
  /\ {kMinSpins, kMaxSpins, Word, MaxCount} \subseteq Nat
  /\ 0 < kMinSpins /\ kMinSpins <= kMaxSpins
  /\ 2 * kMaxSpins < Word
  /\ Word % 2 = 0

VARIABLES spinCutoff,   \* shared: pushSpinCutoff_ or popSpinCutoff_
          wait,         \* "idle", or "waiting" for a turn
          update,       \* the wait's updateSpinCutoff argument
          prevThresh    \* the cutoff the wait began with

spinVars == <<spinCutoff, wait, update, prevThresh>>

-----------------------------------------------------------------------------
\* Mutant of Signed: the difference is divided unsigned.
Unsigned(w) == w

\* int(w): the two's complement reading of a word.
Signed(w) == IF 2 * w < Word THEN w ELSE w - Word

\* C++ division by 8 rounds towards zero.
EighthOf(n) == IF n >= 0 THEN n \div 8 ELSE -((-n) \div 8)

SpinInit ==
  /\ spinCutoff = 0
  /\ wait = [t \in Callers |-> "idle"]
  /\ update = [t \in Callers |-> FALSE]
  /\ prevThresh = [t \in Callers |-> 0]

\* Every kAdaptationFreq-th ticket passes updateSpinCutoff.
Begin(t, u) ==
  /\ wait[t] = "idle"
  /\ wait' = [wait EXCEPT ![t] = "waiting"]
  /\ update' = [update EXCEPT ![t] = u]
  /\ prevThresh' = [prevThresh EXCEPT ![t] = spinCutoff]
  /\ UNCHANGED spinCutoff

\* The cutoff that this wait, of count rounds, asks for.
Target(count) ==
  IF count >= kMaxSpins \/ 2 * count > kMaxSpins THEN kMaxSpins
  ELSE IF 2 * count < kMinSpins THEN kMinSpins ELSE 2 * count

Moved(prev, target) == (prev + EighthOf(Signed((target - prev) % Word))) % Word

\* The turn has come after count rounds: nobody set a cutoff when the wait
\* began, so store the target; or an exchange, which another wait's update or
\* a spurious failure of compare_exchange_weak makes void.
Succeed(t, count) ==
  /\ wait[t] = "waiting"
  /\ wait' = [wait EXCEPT ![t] = "idle"]
  /\ \/ prevThresh[t] = 0 /\ spinCutoff' = Target(count)
     \/ /\ prevThresh[t] # 0 /\ update[t] /\ spinCutoff = prevThresh[t]
        /\ spinCutoff' = Moved(prevThresh[t], Target(count))
     \/ prevThresh[t] # 0 /\ UNCHANGED spinCutoff
  /\ UNCHANGED <<update, prevThresh>>

SpinNext == \E t \in Callers :
              \/ \E u \in BOOLEAN : Begin(t, u)
              \/ \E count \in 0..MaxCount : Succeed(t, count)

SpinSpec == SpinInit /\ [][SpinNext]_spinVars

-----------------------------------------------------------------------------
SpinTypeOK ==
  /\ spinCutoff \in 0..(Word - 1)
  /\ wait \in [Callers -> {"idle", "waiting"}]
  /\ update \in [Callers -> BOOLEAN]
  /\ prevThresh \in [Callers -> 0..(Word - 1)]

\* Once a wait has set it, the cutoff never leaves kMinSpins..kMaxSpins: no
\* unsigned underflow on the way down, no return to 0 that forgets it.
CutoffStaysInRange ==
  [][spinCutoff' # spinCutoff => spinCutoff' \in kMinSpins..kMaxSpins]_spinVars
=============================================================================
