----------------------------- MODULE MCLimiter -----------------------------
(* Small instances of Limiter for TLC. *)
EXTENDS Limiter, TLC

CONSTANTS r1, r2, r3, b1, b2, b3, b4

\* rps of 1 second and rpm of 2; tpm of 2 seconds.
MCReqLen == <<1, 2>>
MCTokLen == <<2>>

\* One layer: one slot, one request a second, one a minute.
OneLayer == <<[concurrency |-> 1, granted |-> NoLimit,
               req |-> <<1, 1>>, tok |-> <<NoLimit>>]>>
OneUnit == <<"tokens">>

\* A token layer with one slot, then the spend layer of a policy with an
\* allowance (spend layers carry token-window and allowance limits only): the
\* second may refuse what the first took.
SlotAndAllowance == <<[concurrency |-> 1, granted |-> NoLimit,
                       req |-> <<NoLimit>>, tok |-> <<1>>],
                      [concurrency |-> NoLimit, granted |-> 1,
                       req |-> <<NoLimit>>, tok |-> <<NoLimit>>]>>
Second == <<1>>
TwoUnits == <<"tokens", "microUsd">>

MCBills == {[tokens |-> 1, microUsd |-> 1]}

\* A stream that reports no usage posts nothing.
FreeOrNot == {[tokens |-> 0, microUsd |-> 0], [tokens |-> 1, microUsd |-> 1]}

Symm == Permutations({r1, r2, r3}) \cup Permutations({b1, b2, b3, b4})
=============================================================================
