------------------------- MODULE ErrorReporterProofs -------------------------
(***************************************************************************)
(* Proofs about the error reporter, for every stack size, limiter setting *)
(* and set of errors.                                                      *)
(***************************************************************************)
EXTENDS ErrorReporter, SequenceTheorems, TLAPS

(* The limiter's bookkeeping agrees with the history: Do has run its      *)
(* function once per entry of notes, and, when Interval > 0, last is the  *)
(* time the latest run returned.                                           *)
LimiterMatchesHistory ==
  /\ rlCount = Len(notes)
  /\ Interval > 0 /\ notes # <<>> => rlLast = notes[Len(notes)]

(* The condition under which a run of the function may return now without *)
(* breaking the rate limit: it is one of the first First runs, or         *)
(* Interval has passed since the last one.                                 *)
Due ==
  Len(notes) + 1 > First /\ Len(notes) + 1 > 1 =>
    Interval > 0 /\ now - rlLast >= Interval

(* A send blocked in Do's function was started when the limiter fired, so *)
(* it is still due when it completes: time only grows while it blocks.    *)
InFlightDue == sending # <<>> => Due

IInv ==
  /\ TypeOK
  /\ StackKeepsMostRecent
  /\ LimiterMatchesHistory
  /\ NotificationsRateLimited
  /\ InFlightDue

USE ReporterAssumption

-----------------------------------------------------------------------------
(* Dropping the last element of a non-empty sequence (Go's s[:len(s)-1]). *)
LEMMA DropLast ==
  ASSUME NEW S, NEW q \in Seq(S), q # <<>>
  PROVE  /\ DropTop(q) \in Seq(S)
         /\ Len(DropTop(q)) = Len(q) - 1
         /\ \A i \in 1..Len(q) - 1 : DropTop(q)[i] = q[i]
BY DEF DropTop

(* PushStack returns a sequence of errors no longer than the bound, and   *)
(* keeps the result the top of the ideal stack with err appended.         *)
LEMMA PushStackKeepsTop ==
  ASSUME NEW s \in Seq(Errors), NEW t \in Seq(Errors), NEW err \in Errors,
         Len(s) <= ErrorReporterStackSize,
         IsTopOf(s, t)
  PROVE  /\ PushStack(s, err) \in Seq(Errors)
         /\ Len(PushStack(s, err)) <= ErrorReporterStackSize
         /\ IsTopOf(PushStack(s, err), Append(t, err))
<1>1. CASE Len(s) = ErrorReporterStackSize
  <2> DEFINE r == [i \in 1..Len(s) |-> IF i = Len(s) THEN err ELSE s[i + 1]]
  <2>1. PushStack(s, err) = r
    BY <1>1 DEF PushStack
  <2>2. r \in Seq(Errors) /\ Len(r) = Len(s)
    BY <1>1
  <2>3. IsTopOf(r, Append(t, err))
    <3> DEFINE d == Len(t) + 1 - Len(s)
    <3>0. Len(Append(t, err)) = Len(t) + 1
          /\ \A i \in 1..Len(t) : Append(t, err)[i] = t[i]
          /\ Append(t, err)[Len(t) + 1] = err
      BY AppendProperties
    <3>1. Len(r) <= Len(Append(t, err))
      BY <2>2, <3>0 DEF IsTopOf
    <3>2. ASSUME NEW i \in 1..Len(r) PROVE r[i] = Append(t, err)[i + d]
      <4>1. CASE i = Len(s)
        BY <4>1, <2>2, <3>0 DEF IsTopOf
      <4>2. CASE i # Len(s)
        <5>1. i + 1 \in 1..Len(s) /\ r[i] = s[i + 1]
          BY <4>2, <2>2
        <5>2. s[i + 1] = t[(i + 1) + (Len(t) - Len(s))]
          BY <5>1 DEF IsTopOf
        <5>3. i + d \in 1..Len(t)
          BY <5>1, <2>2 DEF IsTopOf
        <5>4. QED
          BY <5>1, <5>2, <5>3, <3>0
      <4>3. QED
        BY <4>1, <4>2
    <3>3. \A i \in 1..Len(r) :
            r[i] = Append(t, err)[i + (Len(Append(t, err)) - Len(r))]
      <4>1. Len(Append(t, err)) - Len(r) = d
        BY <3>0, <2>2
      <4>2. QED
        BY <4>1, <3>2
    <3>4. QED
      BY <3>1, <3>3 DEF IsTopOf
  <2>4. QED
    BY <2>1, <2>2, <2>3, <1>1
<1>2. CASE Len(s) # ErrorReporterStackSize
  <2>1. PushStack(s, err) = Append(s, err)
    BY <1>2 DEF PushStack
  <2>2. IsTopOf(Append(s, err), Append(t, err))
    <3>1. /\ Len(Append(t, err)) = Len(t) + 1
          /\ \A i \in 1..Len(t) : Append(t, err)[i] = t[i]
          /\ Append(t, err)[Len(t) + 1] = err
          /\ Len(Append(s, err)) = Len(s) + 1
          /\ \A i \in 1..Len(s) : Append(s, err)[i] = s[i]
          /\ Append(s, err)[Len(s) + 1] = err
      BY AppendProperties
    <3>2. QED
      BY <3>1 DEF IsTopOf
  <2>3. QED
    BY <1>2, <2>1, <2>2, AppendProperties
<1>3. QED
  BY <1>1, <1>2

(* Removing the last element of both sequences keeps the top relation.    *)
LEMMA PopKeepsTop ==
  ASSUME NEW s \in Seq(Errors), NEW t \in Seq(Errors),
         IsTopOf(s, t)
  PROVE  LET s2 == IF s = <<>> THEN s ELSE DropTop(s)
             t2 == IF t = <<>> THEN t ELSE DropTop(t)
         IN  /\ s2 \in Seq(Errors)
             /\ t2 \in Seq(Errors)
             /\ Len(s2) <= Len(s)
             /\ IsTopOf(s2, t2)
<1>1. CASE s = <<>>
  <2>0. (IF t = <<>> THEN t ELSE DropTop(t)) \in Seq(Errors)
    BY DropLast
  <2>1. IsTopOf(s, IF t = <<>> THEN t ELSE DropTop(t))
    BY <1>1, <2>0 DEF IsTopOf
  <2>2. QED
    BY <1>1, <2>0, <2>1
<1>2. CASE s # <<>>
  <2>1. t # <<>> /\ Len(s) >= 1 /\ Len(t) >= 1
    BY <1>2 DEF IsTopOf
  <2>2. IsTopOf(DropTop(s), DropTop(t))
    <3> DEFINE s2 == DropTop(s)
               t2 == DropTop(t)
    <3>1. /\ Len(s2) = Len(s) - 1 /\ Len(t2) = Len(t) - 1
          /\ \A i \in 1..Len(s) - 1 : s2[i] = s[i]
          /\ \A i \in 1..Len(t) - 1 : t2[i] = t[i]
      BY <1>2, <2>1, DropLast
    <3>2. Len(s2) <= Len(t2)
      BY <3>1 DEF IsTopOf
    <3>3. ASSUME NEW i \in 1..Len(s2) PROVE s2[i] = t2[i + (Len(t2) - Len(s2))]
      <4>1. s2[i] = s[i] /\ i \in 1..Len(s)
        BY <3>1
      <4>2. s[i] = t[i + (Len(t) - Len(s))]
        BY <4>1 DEF IsTopOf
      <4>3. i + (Len(t) - Len(s)) \in 1..Len(t) - 1
        BY <3>1, <2>1 DEF IsTopOf
      <4>4. t2[i + (Len(t2) - Len(s2))] = t[i + (Len(t) - Len(s))]
        BY <3>1, <4>3
      <4>5. QED
        BY <4>1, <4>2, <4>4
    <3>4. QED
      BY <3>2, <3>3 DEF IsTopOf
  <2>3. DropTop(s) \in Seq(Errors) /\ DropTop(t) \in Seq(Errors)
        /\ Len(DropTop(s)) <= Len(s)
    BY <1>2, <2>1, DropLast
  <2>4. QED
    BY <1>2, <2>1, <2>2, <2>3
<1>3. QED
  BY <1>1, <1>2

-----------------------------------------------------------------------------
(* When the limiter fires, the run it starts is due.                      *)
LEMMA FiresDue ==
  ASSUME TypeOK, LimiterMatchesHistory, SometimesFires
  PROVE  Due
BY DEF SometimesFires, LimiterMatchesHistory, TypeOK, Due

(* A due run returning keeps the history consistent with count and last, *)
(* and the history rate-limited.                                           *)
LEMMA DoReturnsKeepsLimit ==
  ASSUME TypeOK, LimiterMatchesHistory, NotificationsRateLimited, Due,
         DoReturns
  PROVE  /\ rlCount' \in Nat /\ rlLast' \in Nat /\ notes' \in Seq(Nat)
         /\ LimiterMatchesHistory'
         /\ NotificationsRateLimited'
<1>1. rlCount' = rlCount + 1 /\ notes' = Append(notes, now)
      /\ rlLast' = IF Interval > 0 THEN now ELSE rlLast
  BY DEF DoReturns
<1>2. Len(notes) + 1 > First /\ Len(notes) + 1 > 1
      => now - notes[Len(notes)] >= Interval
  BY DEF Due, LimiterMatchesHistory, TypeOK
<1>3. NotificationsRateLimited'
  <2> SUFFICES ASSUME NEW i \in 1..Len(notes'), i > First, i > 1
               PROVE  notes'[i] - notes'[i - 1] >= Interval
    BY DEF NotificationsRateLimited
  <2>1. CASE i = Len(notes) + 1
    BY <2>1, <1>1, <1>2 DEF TypeOK
  <2>2. CASE i # Len(notes) + 1
    <3>1. i \in 1..Len(notes) /\ notes'[i] = notes[i] /\ notes'[i - 1] = notes[i - 1]
      BY <2>2, <1>1 DEF TypeOK
    <3>2. QED
      BY <3>1 DEF NotificationsRateLimited
  <2>3. QED
    BY <2>1, <2>2
<1>4. QED
  BY <1>1, <1>3 DEF LimiterMatchesHistory, TypeOK

(* The deferred Do of a Push made with no send pending: it returns at     *)
(* once, starts a due send, or does nothing.                               *)
LEMMA SometimesDoKeepsLimit ==
  ASSUME TypeOK, LimiterMatchesHistory, NotificationsRateLimited,
         NEW err \in Errors, sending = <<>>,
         SometimesDo(err), now' = now, chanIsNil' = chanIsNil
  PROVE  /\ rlCount' \in Nat /\ rlLast' \in Nat /\ notes' \in Seq(Nat)
         /\ errorChan' \in Seq(Errors)
         /\ sending' \in Seq(Errors) /\ Len(sending') <= 1
         /\ LimiterMatchesHistory'
         /\ NotificationsRateLimited'
         /\ InFlightDue'
<1>1. CASE SometimesFires /\ chanIsNil
  <2>1. DoReturns /\ UNCHANGED <<errorChan, sending>>
    BY <1>1 DEF SometimesDo
  <2>2. Due
    BY <1>1, FiresDue
  <2>3. QED
    BY <2>1, <2>2, DoReturnsKeepsLimit, EmptySeq DEF TypeOK, InFlightDue
<1>2. CASE SometimesFires /\ ~chanIsNil
  <2>1. sending' = <<err>> /\ UNCHANGED <<rlCount, rlLast, notes, errorChan>>
    BY <1>2 DEF SometimesDo
  <2>2. Due
    BY <1>2, FiresDue
  <2>3. Due'
    BY <2>1, <2>2 DEF Due
  <2>4. QED
    BY <2>1, <2>3 DEF TypeOK, LimiterMatchesHistory, NotificationsRateLimited,
                      InFlightDue
<1>3. CASE ~SometimesFires
  <2>1. UNCHANGED <<rlCount, rlLast, notes, errorChan, sending>>
    BY <1>3 DEF SometimesDo
  <2>2. QED
    BY <2>1, EmptySeq DEF LimiterMatchesHistory, NotificationsRateLimited,
                          TypeOK, InFlightDue
<1>4. QED
  BY <1>1, <1>2, <1>3

-----------------------------------------------------------------------------
LEMMA InitIInv == Init => IInv
<1> SUFFICES ASSUME Init PROVE IInv
  OBVIOUS
<1>1. TypeOK
  <2>1. Len(<<>>) = 0 /\ <<>> \in Seq(Errors) /\ <<>> \in Seq(Nat)
    BY EmptySeq
  <2>2. Len(errorStack) <= ErrorReporterStackSize
    BY <2>1, ReporterAssumption DEF Init
  <2>3. critical \in BOOLEAN /\ chanIsNil \in BOOLEAN
    BY Zenon DEF Init
  <2>4. QED
    BY <2>1, <2>2, <2>3 DEF Init, TypeOK
<1>2. StackKeepsMostRecent
  BY DEF Init, StackKeepsMostRecent, IsTopOf
<1>3. LimiterMatchesHistory /\ NotificationsRateLimited /\ InFlightDue
  BY DEF Init, LimiterMatchesHistory, NotificationsRateLimited, InFlightDue
<1>4. QED
  BY <1>1, <1>2, <1>3 DEF IInv

LEMMA NextIInv == IInv /\ [Next]_vars => IInv'
<1> SUFFICES ASSUME IInv, [Next]_vars PROVE IInv'
  OBVIOUS
<1>1. ASSUME NEW e \in Errors, Push(e), now' = now, chanIsNil' = chanIsNil
      PROVE  /\ errorStack' \in Seq(Errors) /\ ideal' \in Seq(Errors)
             /\ Len(errorStack') <= ErrorReporterStackSize
             /\ StackKeepsMostRecent'
             /\ rlCount' \in Nat /\ rlLast' \in Nat /\ notes' \in Seq(Nat)
             /\ errorChan' \in Seq(Errors)
             /\ sending' \in Seq(Errors) /\ Len(sending') <= 1
             /\ LimiterMatchesHistory' /\ NotificationsRateLimited'
             /\ InFlightDue'
  <2>1. /\ PushStack(errorStack, e) \in Seq(Errors)
        /\ Len(PushStack(errorStack, e)) <= ErrorReporterStackSize
        /\ IsTopOf(PushStack(errorStack, e), Append(ideal, e))
    BY PushStackKeepsTop DEF IInv, TypeOK, StackKeepsMostRecent
  <2>2. errorStack' = PushStack(errorStack, e) /\ ideal' = Append(ideal, e)
    BY <1>1 DEF Push
  <2>3. SometimesDo(e) /\ sending = <<>>
    BY <1>1 DEF Push
  <2>4. /\ rlCount' \in Nat /\ rlLast' \in Nat /\ notes' \in Seq(Nat)
        /\ errorChan' \in Seq(Errors)
        /\ sending' \in Seq(Errors) /\ Len(sending') <= 1
        /\ LimiterMatchesHistory' /\ NotificationsRateLimited'
        /\ InFlightDue'
    BY <1>1, <2>3, SometimesDoKeepsLimit DEF IInv
  <2>5. QED
    BY <2>1, <2>2, <2>4 DEF StackKeepsMostRecent, IInv, TypeOK
<1>2. ASSUME NEW e \in Errors, PushError(e)
      PROVE  IInv'
  <2>1. Push(e) /\ UNCHANGED <<critical, now, chanIsNil>>
    BY <1>2 DEF PushError
  <2>2. QED
    BY <1>1, <2>1 DEF IInv, TypeOK
<1>3. ASSUME NEW e \in Errors, PushCriticalError(e)
      PROVE  IInv'
  <2>1. Push(e) /\ critical' = TRUE /\ now' = now /\ chanIsNil' = chanIsNil
    BY <1>3 DEF PushCriticalError
  <2>2. QED
    BY <1>1, <2>1 DEF IInv, TypeOK
<1>4. CASE SendDone
  <2>1. sending # <<>> /\ Due
    BY <1>4 DEF SendDone, IInv, InFlightDue
  <2>2. DoReturns /\ now' = now
    BY <1>4 DEF SendDone
  <2>3. /\ rlCount' \in Nat /\ rlLast' \in Nat /\ notes' \in Seq(Nat)
        /\ LimiterMatchesHistory' /\ NotificationsRateLimited'
    BY <2>1, <2>2, DoReturnsKeepsLimit DEF IInv
  <2>4. sending[1] \in Errors
    BY <2>1 DEF IInv, TypeOK
  <2>5. errorChan' \in Seq(Errors) /\ sending' = <<>>
    BY <1>4, <2>4, AppendProperties DEF SendDone, IInv, TypeOK
  <2>6. QED
    BY <1>4, <2>3, <2>5, EmptySeq DEF SendDone, IInv, TypeOK, StackKeepsMostRecent,
       InFlightDue
<1>5. CASE Receive
  <2>1. errorChan' \in Seq(Errors)
    BY <1>5, HeadTailProperties DEF Receive, IInv, TypeOK
  <2>2. QED
    BY <1>5, <2>1 DEF Receive, IInv, TypeOK, StackKeepsMostRecent,
       LimiterMatchesHistory, NotificationsRateLimited, InFlightDue, Due
<1>6. CASE Pop
  <2>1. /\ errorStack' \in Seq(Errors) /\ ideal' \in Seq(Errors)
        /\ Len(errorStack') <= Len(errorStack)
        /\ IsTopOf(errorStack', ideal')
    BY <1>6, PopKeepsTop DEF Pop, IInv, TypeOK, StackKeepsMostRecent
  <2>2. UNCHANGED <<critical, rlCount, rlLast, now, chanIsNil, errorChan,
                   sending, notes>>
    BY <1>6 DEF Pop
  <2>3. QED
    BY <2>1, <2>2 DEF IInv, TypeOK, StackKeepsMostRecent,
                      LimiterMatchesHistory, NotificationsRateLimited,
                      InFlightDue, Due
<1>7. CASE Tick
  <2>1. InFlightDue'
    BY <1>7 DEF Tick, IInv, TypeOK, InFlightDue, Due
  <2>2. QED
    BY <1>7, <2>1 DEF Tick, IInv, TypeOK, StackKeepsMostRecent,
                LimiterMatchesHistory, NotificationsRateLimited
<1>8. CASE UNCHANGED vars
  BY <1>8 DEF vars, IInv, TypeOK, StackKeepsMostRecent, IsTopOf,
              LimiterMatchesHistory, NotificationsRateLimited, InFlightDue, Due
<1>9. QED
  BY <1>2, <1>3, <1>4, <1>5, <1>6, <1>7, <1>8 DEF Next

-----------------------------------------------------------------------------
(* Type correctness of the reporter's state.                               *)
THEOREM TypeCorrect == Spec => []TypeOK
BY InitIInv, NextIInv, PTL DEF Spec, IInv

(* The stack holds the most recent errors in the order they were pushed: *)
(* Push's shifting eviction at the bound and Pop keep them in order.      *)
THEOREM StackKeepsMostRecentHolds == Spec => []StackKeepsMostRecent
BY InitIInv, NextIInv, PTL DEF Spec, IInv

(* After the limiter's First notifications, consecutive notifications on  *)
(* errorChan are at least Interval apart.                                  *)
THEOREM NotificationsRateLimitedHolds == Spec => []NotificationsRateLimited
BY InitIInv, NextIInv, PTL DEF Spec, IInv

=============================================================================
