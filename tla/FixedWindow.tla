---------------------------- MODULE FixedWindow ----------------------------
(***************************************************************************)
(* The fixed-window counter of aisix-ratelimit (window.rs): a count that   *)
(* belongs to the window [start, start + len) and is thrown away when an   *)
(* operation arrives with a time of another window.  Times and lengths are *)
(* whole seconds.  The u64 counts are unbounded naturals here: the code    *)
(* saturates, and no model comes near 2^64.                                *)
(***************************************************************************)
EXTENDS Integers

Counters == [start : Nat, count : Nat]

NewCounter == [start |-> 0, count |-> 0]

\* The window a time falls in, named by its first second.
BucketStart(now, len) == (now \div len) * len

\* Any other window, later or EARLIER, replaces the one the counter holds.
RollIfStale(c, now, len) ==
  IF BucketStart(now, len) # c.start
    THEN [start |-> BucketStart(now, len), count |-> 0]
    ELSE c

\* The test half of check_and_increment with a delta of one.
FitsOneMore(c, now, len, limit) ==
  RollIfStale(c, now, len).count + 1 <= limit

\* `add`, and the update half of check_and_increment.
AddTo(c, now, len, delta) ==
  LET r == RollIfStale(c, now, len) IN [r EXCEPT !.count = @ + delta]

\* Undo: only while the counter still holds the window of `now`.
Decrement(c, now, len, delta) ==
  IF BucketStart(now, len) = c.start
    THEN [c EXCEPT !.count = IF @ >= delta THEN @ - delta ELSE 0]
    ELSE c

\* A count exactly on the limit is consumed.
IsExceeded(c, now, len, limit) == RollIfStale(c, now, len).count >= limit

=============================================================================
