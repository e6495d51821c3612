----------------------------- MODULE RestClient -----------------------------
(***************************************************************************)
(* The one Kraken REST client of the process (src/tothbot/rest), which the *)
(* warm-up, the regime computation, the probes and the screens share, and  *)
(* RestRateLimiter, which lets their calls out one MinInterval apart.  Its *)
(* lock is held across the sleep; penalize takes no lock, so it may come   *)
(* while a caller sleeps.  Every time is a countdown from now, in units of *)
(* MinInterval.                                                            *)
(***************************************************************************)
EXTENDS Integers, Sequences, FiniteSets, SequencesExt

CONSTANTS
    MinInterval, BackoffPenalty,  \* DEFAULT_MIN_INTERVAL_SEC, DEFAULT_BACKOFF_PENALTY_SEC
    Latency,                      \* the longest an answer takes
    WakeDelay                     \* the longest a wake-up is late

\* The limiter is wired: an interval of 0 would make acquire a no-op.
ASSUME RestAssumption ==
    /\ MinInterval \in Nat \ {0}
    /\ {BackoffPenalty, Latency, WakeDelay} \subseteq Nat

VARIABLES
    callers,   \* who waits in acquire(); the head holds the lock
    asleep,    \* whether the holder has its slot
    slot,      \* the time to it; below 0 it is late
    next,      \* the time to _next_allowed; nobody asks how long it is past
    inFlight,  \* the calls sent and not answered, and the time each has left
    pace,      \* history: the time before which no call may go out
    hold,      \* history: what is left of a penalty
    pardoned   \* history: a caller had its slot when the penalty came

restVars == <<callers, asleep, slot, next, inFlight, pace, hold, pardoned>>

\* What parse_* and raise_for_error make of an answer: as many rows as are
\* needed, too few, an error, the throttle's error, or no answer at all.
Answers == {"good", "short", "refused", "limited", "broken"}

Later(s, t) == IF s > t THEN s ELSE t

\* Mutant: a caller goes out without its sleep.
AtOnce == 0

\* acquire: the slot the caller sleeps to.
SlotIn == next

\* Mutant: the next slot is counted from the one the caller slept to.
AfterItsOwn == Later(0, slot + MinInterval)

\* acquire: the slot after.

NextAfterSend == Later(0, next + MinInterval)

\* penalize.
Penalized == Later(0, next) + BackoffPenalty

-----------------------------------------------------------------------------
RestInit ==
    /\ callers = <<>> /\ asleep = FALSE /\ slot = 0 /\ next = 0
    /\ inFlight = <<>>
    /\ pace = -WakeDelay /\ hold = 0 /\ pardoned = FALSE

Ask(calls) ==
    /\ callers' = callers \o calls
    /\ UNCHANGED <<asleep, slot, next, inFlight, pace, hold, pardoned>>

\* acquire, up to its sleep.
TakeSlot ==
    /\ callers # <<>> /\ ~asleep
    /\ asleep' = TRUE /\ slot' = SlotIn
    /\ UNCHANGED <<callers, next, inFlight, pace, hold, pardoned>>

\* acquire, from its sleep on, and the request it let out.
Send ==
    /\ asleep /\ slot <= 0
    /\ asleep' = FALSE /\ slot' = 0 /\ next' = NextAfterSend
    /\ callers' = Tail(callers)
    /\ inFlight' = [c \in DOMAIN inFlight \cup {Head(callers)} |->
                        IF c \in DOMAIN inFlight THEN inFlight[c] ELSE Latency]
    /\ pace' = Later(pace, -WakeDelay) + MinInterval
    /\ pardoned' = FALSE
    /\ UNCHANGED hold

\* The client's half of an answer: _maybe_penalize.
Hear(call, answer) ==
    /\ call \in DOMAIN inFlight
    /\ inFlight' = [c \in DOMAIN inFlight \ {call} |-> inFlight[c]]
    /\ IF answer = "limited"
       THEN next' = Penalized /\ hold' = BackoffPenalty /\ pardoned' = asleep
       ELSE UNCHANGED <<next, hold, pardoned>>
    /\ UNCHANGED <<callers, asleep, slot, pace>>

\* Mutant: a call once sent is not awaited.
NotAwaited(call) == call \in Range(callers)

\* A call its caller still awaits.
Outstanding(call) == call \in DOMAIN inFlight \/ call \in Range(callers)

\* Time passes unless something is due.
RestTick ==
    /\ callers # <<>> => asleep
    /\ asleep => slot > -WakeDelay
    /\ \A c \in DOMAIN inFlight : inFlight[c] > 0
    /\ slot' = IF asleep THEN slot - 1 ELSE 0
    /\ next' = IF asleep THEN next - 1 ELSE Later(0, next - 1)
    /\ inFlight' = [c \in DOMAIN inFlight |-> inFlight[c] - 1]
    /\ pace' = Later(-WakeDelay, pace - 1) /\ hold' = Later(0, hold - 1)
    /\ UNCHANGED <<callers, asleep, pardoned>>

-----------------------------------------------------------------------------
(* Properties. *)

\* However many coroutines call at once, n calls never go out in less than n - 1
\* intervals; a wake-up that comes late brings two of them closer together by no
\* more than it was late.
CallsArePaced == [][DOMAIN inFlight' \ DOMAIN inFlight # {} => pace <= 0]_restVars

\* After the exchange has complained no call goes out before the penalty is
\* over, but for the one that was already asleep with its slot in hand.
PenaltyIsServed == [][DOMAIN inFlight' \ DOMAIN inFlight # {} => hold = 0 \/ pardoned]_restVars

\* The client keeps Kraken's pace, whoever calls and whatever it answers.
ClientIsPaced == CallsArePaced /\ PenaltyIsServed
=============================================================================
