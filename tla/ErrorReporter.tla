---------------------------- MODULE ErrorReporter ----------------------------
(***************************************************************************)
(* The controller's error reporter (pkg/controller/status_reporter.go): a  *)
(* bounded LIFO of the most recent errors, a sticky "critical" flag, and a *)
(* rate.Sometimes{First, Interval} limiter that gates the status           *)
(* notifications sent on errorChan.                                        *)
(*                                                                         *)
(* Errors are model values; time is an abstract clock advanced by Tick.   *)
(* errorChan is the caller's channel: nil, or buffered with ChanCap       *)
(* places and drained by the status notifier.  The limited function's    *)
(* send blocks until there is room, inside Do and so inside Push.        *)
(* The notifications sent on errorChan are kept as the history variable    *)
(* `notes` (the time each run of it returned), and `ideal` is the stack the*)
(* reporter would hold if it never evicted: both exist only so that the    *)
(* properties can talk about the past.                                     *)
(***************************************************************************)
EXTENDS Naturals, Sequences

CONSTANTS
  Errors,                  \* the errors that can be pushed
  ErrorReporterStackSize,  \* depth of the LIFO (10 in the code)
  First,                   \* rate.Sometimes.First (3 in the code)
  Interval,                \* rate.Sometimes.Interval in clock ticks (2s in the code)
  MaxTime,                 \* bound on the abstract clock
  MaxPushes,               \* bound on the number of pushes
  ChanCap                  \* buffer size of a non-nil errorChan

ASSUME ReporterAssumption ==
  /\ Errors # {}
  /\ ErrorReporterStackSize \in Nat \ {0}
  /\ First \in Nat
  /\ Interval \in Nat
  /\ MaxTime \in Nat
  /\ MaxPushes \in Nat
  /\ ChanCap \in Nat \ {0}

VARIABLES
  errorStack,  \* s.errorStack
  critical,    \* s.critical
  rlCount,     \* s.ratelimiter.count: how many times Do ran its function
  rlLast,      \* s.ratelimiter.last: when the function last returned
  now,         \* the clock
  chanIsNil,   \* s.errorChan == nil
  errorChan,   \* the errors buffered in s.errorChan
  sending,     \* <<err>> while Push blocks in s.errorChan <- err, else <<>>
  notes,       \* history: the times at which Do's function returned
  ideal        \* history: the error stack without eviction

vars == <<errorStack, critical, rlCount, rlLast, now, chanIsNil, errorChan,
          sending, notes, ideal>>

-----------------------------------------------------------------------------
(* Mutant: the limiter lets one call too many through before it starts   *)
(* to space them.                                                         *)
SometimesFiresOneMore ==
  \/ rlCount = 0
  \/ First > 0 /\ rlCount <= First
  \/ Interval > 0 /\ now - rlLast >= Interval

(* rate.Sometimes.Do: run the function on the first call, on each of the  *)
(* first First calls, and afterwards once Interval has passed since the   *)
(* last run.  The function sends the error on errorChan.                  *)
SometimesFires ==
  \/ rlCount = 0
  \/ First > 0 /\ rlCount < First
  \/ Interval > 0 /\ now - rlLast >= Interval

(* What Do does once the function has returned: set last (only when     *)
(* Interval > 0) and count the run.                                       *)
DoReturns ==
  /\ rlCount' = rlCount + 1
  /\ rlLast' = IF Interval > 0 THEN now ELSE rlLast
  /\ notes' = Append(notes, now)

(* Mutant: the function sends without checking for a nil errorChan.       *)
SometimesDoNilSend(err) ==
  IF SometimesFires
  THEN /\ sending' = <<err>>
       /\ UNCHANGED <<rlCount, rlLast, notes, errorChan>>
  ELSE UNCHANGED <<rlCount, rlLast, notes, errorChan, sending>>

(* Push's deferred s.ratelimiter.Do: when the limiter fires, a nil         *)
(* errorChan makes the function return at once, otherwise it starts the   *)
(* blocking send of err, which SendDone completes.                        *)
SometimesDo(err) ==
  IF SometimesFires
  THEN IF chanIsNil
       THEN DoReturns /\ UNCHANGED <<errorChan, sending>>
       ELSE /\ sending' = <<err>>
            /\ UNCHANGED <<rlCount, rlLast, notes, errorChan>>
  ELSE UNCHANGED <<rlCount, rlLast, notes, errorChan, sending>>

(* Mutant: a full stack overwrites its top instead of shifting.          *)
PushStackOverwriteTop(s, err) ==
  IF Len(s) = ErrorReporterStackSize
  THEN [s EXCEPT ![Len(s)] = err]
  ELSE Append(s, err)

(* Mutant: the full-stack test is off by one.                            *)
PushStackLateEviction(s, err) ==
  IF Len(s) = ErrorReporterStackSize + 1
  THEN [i \in 1..Len(s) |-> IF i = Len(s) THEN err ELSE s[i + 1]]
  ELSE Append(s, err)

(* The stack update of Push: append, or when the stack is full shift it   *)
(* one place down (evicting the oldest) and put err on top.               *)
PushStack(s, err) ==
  IF Len(s) = ErrorReporterStackSize
  THEN [i \in 1..Len(s) |-> IF i = Len(s) THEN err ELSE s[i + 1]]
  ELSE Append(s, err)

(* The worker is the reporter's only writer: it pushes or pops only once *)
(* its previous Push has returned.                                        *)
Push(err) ==
  /\ sending = <<>>
  /\ Len(ideal) < MaxPushes
  /\ errorStack' = PushStack(errorStack, err)
  /\ ideal' = Append(ideal, err)
  /\ SometimesDo(err)

PushError(err) ==
  /\ Push(err)
  /\ UNCHANGED <<critical, now, chanIsNil>>

PushCriticalError(err) ==
  /\ critical' = TRUE
  /\ Push(err)
  /\ UNCHANGED <<now, chanIsNil>>

(* The send in Do's function completes once the buffer has room; then Do *)
(* returns, and with it Push.                                             *)
SendDone ==
  /\ sending # <<>>
  /\ ~chanIsNil
  /\ Len(errorChan) < ChanCap
  /\ errorChan' = Append(errorChan, sending[1])
  /\ sending' = <<>>
  /\ DoReturns
  /\ UNCHANGED <<errorStack, critical, now, chanIsNil, ideal>>

(* The status notifier receives from errorChan.                           *)
Receive ==
  /\ errorChan # <<>>
  /\ errorChan' = Tail(errorChan)
  /\ UNCHANGED <<errorStack, critical, rlCount, rlLast, now, chanIsNil,
                 sending, notes, ideal>>

(* s[:len(s)-1]                                                           *)
DropTop(s) == [i \in 1..Len(s) - 1 |-> s[i]]

(* Pop is a no-op on an empty stack.                                      *)
Pop ==
  /\ sending = <<>>
  /\ errorStack' = IF errorStack = <<>> THEN errorStack ELSE DropTop(errorStack)
  /\ ideal' = IF ideal = <<>> THEN ideal ELSE DropTop(ideal)
  /\ UNCHANGED <<critical, rlCount, rlLast, now, chanIsNil, errorChan,
                 sending, notes>>

Tick ==
  /\ now < MaxTime
  /\ now' = now + 1
  /\ UNCHANGED <<errorStack, critical, rlCount, rlLast, chanIsNil, errorChan,
                 sending, notes, ideal>>

(* NewErrorReporter(errorChan), for a nil or an empty channel.            *)
Init ==
  /\ errorStack = <<>>
  /\ critical = FALSE
  /\ rlCount = 0
  /\ rlLast = 0
  /\ now = 0
  /\ chanIsNil \in BOOLEAN
  /\ errorChan = <<>>
  /\ sending = <<>>
  /\ notes = <<>>
  /\ ideal = <<>>

Next ==
  \/ \E e \in Errors : PushError(e)
  \/ \E e \in Errors : PushCriticalError(e)
  \/ SendDone
  \/ Receive
  \/ Pop
  \/ Tick

Spec == Init /\ [][Next]_vars

(* A goroutine whose send can proceed is eventually scheduled, and the    *)
(* status notifier keeps receiving from errorChan.                        *)
FairSpec == Spec /\ WF_vars(SendDone) /\ WF_vars(Receive)

-----------------------------------------------------------------------------
(* Top, Size and IsEmpty are the readers of the stack.                    *)
Top == IF errorStack = <<>> THEN "nil" ELSE errorStack[Len(errorStack)]

TypeOK ==
  /\ errorStack \in Seq(Errors)
  /\ Len(errorStack) <= ErrorReporterStackSize
  /\ critical \in BOOLEAN
  /\ rlCount \in Nat
  /\ rlLast \in Nat
  /\ now \in Nat
  /\ chanIsNil \in BOOLEAN
  /\ errorChan \in Seq(Errors)
  /\ sending \in Seq(Errors) /\ Len(sending) <= 1
  /\ notes \in Seq(Nat)
  /\ ideal \in Seq(Errors)

(* s is the top part of the sequence t.                                   *)
IsTopOf(s, t) ==
  /\ Len(s) <= Len(t)
  /\ \A i \in 1..Len(s) : s[i] = t[i + (Len(t) - Len(s))]

(* What the stack holds is always the top of the stack the reporter would *)
(* keep without eviction: every push and pop, including the shifting     *)
(* eviction in Push, keeps the most recent errors in order, so Top() is   *)
(* the latest error not yet popped whenever the stack is not empty.       *)
StackKeepsMostRecent == IsTopOf(errorStack, ideal)

(* The status notifier is not stampeded: once the limiter has run its    *)
(* function First times, two consecutive runs return at least Interval   *)
(* apart, also when a send blocked between the limiter's decision and the *)
(* update of last (getDefaultRateLimiter, Push's deferred Do).            *)
NotificationsRateLimited ==
  \A i \in 1..Len(notes) :
    i > First /\ i > 1 => notes[i] - notes[i - 1] >= Interval

(* Push never blocks for good: while the notifier keeps receiving, the    *)
(* send that Do's function makes on errorChan completes, and a reporter   *)
(* built with a nil errorChan sends nothing (status_reporter.go:49-50).  *)
PushReturns == sending # <<>> ~> sending = <<>>
=============================================================================
