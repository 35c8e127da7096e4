---------------------------- MODULE GeoRateLimiter ----------------------------
(***************************************************************************)
(* _GeoRateLimiter (core/utils.py:161): every lookup of a country waits in *)
(* acquire() first.  Up to ten validations of each running job call it at  *)
(* the same time; the asyncio.Lock serves them in order of arrival, and a  *)
(* caller that has to sleep does so with the lock in its hands.            *)
(*                                                                         *)
(* Time is in ticks no longer than the 0.1 s of the sleep's margin, and is *)
(* kept relative: an entry of `stamps` is the age of a time stamp, and     *)
(* ages that the code cannot tell apart (Window and more) are one.         *)
(***************************************************************************)
EXTENDS Integers, Sequences, FiniteSets, SequencesExt, Selection

CONSTANTS Callers,  \* validations that may ask at the same time
          Limit,    \* calls_per_minute
          Window    \* 60 s, in ticks

ASSUME GeoRateLimiterAssumption ==
    /\ Limit \in Nat \ {0}
    /\ Window \in Nat \ {0}

VARIABLES line,    \* callers inside acquire(), in order; the head has the lock
          asleep,  \* the head sleeps inside the lock
          wait,    \* ticks left of that sleep
          stamps,  \* _timestamps, as ages, oldest first
          recent   \* history: ages of the grants of the last Window ticks

limiterVars == <<line, asleep, wait, stamps, recent>>

InLine(c) == \E k \in 1 .. Len(line) : line[k] = c

LineOK ==
    /\ line \in Seq(Callers)
    /\ asleep \in BOOLEAN

ClockOK ==
    /\ wait \in 0 .. Window + 1
    /\ stamps \in Seq(0 .. Window)
    /\ recent \in Seq(0 .. Window - 1)

LimiterInit ==
    /\ line = << >>
    /\ asleep = FALSE
    /\ wait = 0
    /\ stamps = << >>
    /\ recent = << >>

Young(s) == Select(s, {k \in DOMAIN s : s[k] < Window})

-----------------------------------------------------------------------------
(* A validation calls acquire() and queues for the lock.                   *)
Arrive(c) ==
    /\ ~InLine(c)
    /\ line' = Append(line, c)
    /\ UNCHANGED <<asleep, wait, stamps, recent>>

Grant ==
    /\ line' = Tail(line)
    /\ recent' = Append(recent, 0)

(* The lock is free for the head, and the pruned list is below the limit.  *)
Pass ==
    /\ line # << >> /\ ~asleep
    /\ Len(Young(stamps)) < Limit
    /\ stamps' = Append(Young(stamps), 0)
    /\ Grant
    /\ UNCHANGED <<asleep, wait>>

\* Mutant: the age of the oldest stamp is added, not subtracted.
SleepTooLong ==
    /\ line # << >> /\ ~asleep
    /\ Len(Young(stamps)) >= Limit
    /\ stamps' = Young(stamps)
    /\ asleep' = TRUE
    /\ wait' = Window + Head(Young(stamps)) + 1
    /\ UNCHANGED <<line, recent>>

(* At the limit: sleep until the oldest stamp is Window old, and a margin. *)
Sleep ==
    /\ line # << >> /\ ~asleep
    /\ Len(Young(stamps)) >= Limit
    /\ stamps' = Young(stamps)
    /\ asleep' = TRUE
    /\ wait' = Window - Head(Young(stamps)) + 1
    /\ UNCHANGED <<line, recent>>

\* Mutant: the limit is checked again, with the list as it was.
WakeAgain ==
    /\ asleep /\ wait = 0
    /\ wait' = 1
    /\ UNCHANGED <<line, asleep, stamps, recent>>

\* Mutant: woken without having slept.
WakeEarly ==
    /\ asleep
    /\ stamps' = << 0 >>
    /\ Grant
    /\ asleep' = FALSE
    /\ wait' = 0

(* After the sleep the whole list is cleared, not only the oldest stamp.   *)
Wake ==
    /\ asleep /\ wait = 0
    /\ stamps' = << 0 >>
    /\ Grant
    /\ asleep' = FALSE
    /\ UNCHANGED wait

(* The job of a caller is cancelled: `async with` gives the lock back.     *)
Abort(c) ==
    /\ \E k \in 1 .. Len(line) : line[k] = c /\ line' = RemoveAt(line, k)
    /\ IF c = Head(line)
       THEN asleep' = FALSE /\ wait' = 0
       ELSE UNCHANGED <<asleep, wait>>
    /\ UNCHANGED <<stamps, recent>>

(* Time passes; a sleeper may be woken late.                               *)
Older(age) == IF age < Window THEN age + 1 ELSE Window
Tick ==
    /\ stamps' = [k \in DOMAIN stamps |-> Older(stamps[k])]
    /\ recent' = Young([k \in DOMAIN recent |-> Older(recent[k])])
    /\ wait' = IF wait > 0 THEN wait - 1 ELSE 0
    /\ UNCHANGED <<line, asleep>>

LimiterNext ==
    \/ \E c \in Callers : Arrive(c) \/ Abort(c)
    \/ Pass \/ Sleep \/ Wake \/ Tick

LimiterSpec == LimiterInit /\ [][LimiterNext]_limiterVars

-----------------------------------------------------------------------------
(* utils.py:162-165: at most calls_per_minute calls in a minute.           *)
DocumentedRate == Len(recent) <= Limit

(* What clear() after the sleep leaves of it: the Limit - 1 younger calls  *)
(* of the full window are forgotten while they still count, so a window    *)
(* may see almost twice the limit, and never more.                         *)
RateBound == Len(recent) <= 2 * Limit - 1

(* The list is bounded and sorted, so that its first entry is the oldest,  *)
(* and the time to sleep is never negative and never more than a window    *)
(* and its margin (utils.py:187).                                          *)
StampsSorted ==
    /\ ClockOK
    /\ Len(stamps) <= Limit
    /\ \A k, l \in 1 .. Len(stamps) : k < l => stamps[k] >= stamps[l]

\* How far the two lists are apart.
Shift == Len(recent) - Len(stamps)

(* The inductive invariant behind both.  Counted from their ends, the list *)
(* and the calls of the last window are the same, where both have entries; *)
(* what the list has before that is older than a window.  The window goes  *)
(* back past a clear() by Limit - 1 calls at most, because the oldest      *)
(* stamp of the list is a window old when the sleeper is woken.            *)
LimiterInv ==
    /\ StampsSorted
    /\ \A k, l \in 1 .. Len(recent) : k < l => recent[k] >= recent[l]
    /\ \A k \in 1 .. Len(stamps) :
          IF k + Shift >= 1 THEN recent[k + Shift] = stamps[k] ELSE stamps[k] = Window
    /\ Shift <= Limit - 1
    /\ asleep => /\ stamps # << >>
                 /\ stamps[1] = Window \/ wait + stamps[1] > Window
=============================================================================
