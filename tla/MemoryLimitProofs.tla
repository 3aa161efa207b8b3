------------------------- MODULE MemoryLimitProofs -------------------------
(* The safety properties of the memory budget, for any number of sends, any  *)
(* payload sizes and any limit.                                              *)
EXTENDS MemoryLimit, TLAPS

(* The initial state satisfies the inductive invariant. *)
LEMMA InitIInv == Init => IInv
BY BytesAssumption, LimitsAssumption, NoSenderAssumption
DEF Init, IInv, TypeOK, LockInv, IdsAreOwned, AdmittedFits, RefusedHasRelease,
    WakersInv, BudgetNeverExceeded, NoLostWakeup, RegistrationsAreLive, Polling, Places,
    NoId, Policies

(* Every step of every thread preserves the types. *)
LEMMA TypeStep == IInv /\ [Next]_vars => TypeOK'
<1> SUFFICES ASSUME IInv, [Next]_vars PROVE TypeOK'
  OBVIOUS
<1> USE BytesAssumption, LimitsAssumption, NoSenderAssumption
    DEF IInv, TypeOK, Places, NoId, Policies
<1>1. CASE UNCHANGED vars
  BY <1>1 DEF vars
<1>2. ASSUME NEW s \in Senders, Step(s) PROVE TypeOK'
  <2>1. CASE Send(s)
    BY <2>1 DEF Send
  <2>2. CASE SendCas(s)
    BY <2>2 DEF SendCas, Reserve
  <2>3. CASE PollStart(s)
    BY <2>3 DEF PollStart
  <2>4. CASE PollLoad(s)
    BY <2>4 DEF PollLoad
  <2>5. CASE PollCas(s)
    BY <2>5 DEF PollCas, Reserve, Unregister
  <2>6. CASE Park(s)
    BY <2>6 DEF Park
  <2>7. CASE DropSendFut(s)
    BY <2>7 DEF DropSendFut, Unregister
  <2>8. CASE DropReservation(s)
    BY <2>8 DEF DropReservation
  <2>9. CASE TakeParked(s)
    BY <2>9 DEF TakeParked
  <2>10. CASE WakeOne(s)
    BY <2>10 DEF WakeOne
  <2>11. CASE ReleaseReturns(s)
    BY <2>11 DEF ReleaseReturns
  <2> QED
    BY <1>2, <2>1, <2>2, <2>3, <2>4, <2>5, <2>6, <2>7, <2>8, <2>9, <2>10,
       <2>11 DEF Step
<1> QED
  BY <1>1, <1>2 DEF Next

(* Only the sender in the waiter mutex is polling, before and after a step. *)
LEMMA LockStep == IInv /\ [Next]_vars => LockInv'
<1> SUFFICES ASSUME IInv, [Next]_vars PROVE LockInv'
  OBVIOUS
<1> USE BytesAssumption, LimitsAssumption, NoSenderAssumption
    DEF IInv, TypeOK, Places, NoId, LockInv, Polling
<1>1. CASE UNCHANGED vars
  BY <1>1 DEF vars
<1>2. ASSUME NEW s \in Senders, Step(s) PROVE LockInv'
  <2>1. CASE Send(s)
    BY <2>1 DEF Send
  <2>2. CASE SendCas(s)
    BY <2>2 DEF SendCas, Reserve
  <2>3. CASE PollStart(s)
    BY <2>3 DEF PollStart
  <2>4. CASE PollLoad(s)
    BY <2>4 DEF PollLoad
  <2>5. CASE PollCas(s)
    BY <2>5 DEF PollCas, Reserve, Unregister
  <2>6. CASE Park(s)
    BY <2>6 DEF Park
  <2>7. CASE DropSendFut(s)
    BY <2>7 DEF DropSendFut, Unregister
  <2>8. CASE DropReservation(s)
    BY <2>8 DEF DropReservation
  <2>9. CASE TakeParked(s)
    BY <2>9 DEF TakeParked
  <2>10. CASE WakeOne(s)
    BY <2>10 DEF WakeOne
  <2>11. CASE ReleaseReturns(s)
    BY <2>11 DEF ReleaseReturns
  <2> QED
    BY <1>2, <2>1, <2>2, <2>3, <2>4, <2>5, <2>6, <2>7, <2>8, <2>9, <2>10,
       <2>11 DEF Step
<1> QED
  BY <1>1, <1>2 DEF Next

(* Waiter ids stay unique and below the counter. *)
LEMMA IdsStep == IInv /\ [Next]_vars => IdsAreOwned'
<1> SUFFICES ASSUME IInv, [Next]_vars PROVE IdsAreOwned'
  OBVIOUS
<1> USE BytesAssumption, LimitsAssumption, NoSenderAssumption
    DEF IInv, TypeOK, Places, NoId, IdsAreOwned
<1>1. CASE UNCHANGED vars
  BY <1>1 DEF vars
<1>2. ASSUME NEW s \in Senders, Step(s) PROVE IdsAreOwned'
  <2>1. CASE Send(s)
    BY <2>1 DEF Send
  <2>2. CASE SendCas(s)
    BY <2>2 DEF SendCas, Reserve
  <2>3. CASE PollStart(s)
    BY <2>3 DEF PollStart
  <2>4. CASE PollLoad(s)
    BY <2>4 DEF PollLoad
  <2>5. CASE PollCas(s)
    BY <2>5 DEF PollCas, Reserve, Unregister
  <2>6. CASE Park(s)
    BY <2>6 DEF Park
  <2>7. CASE DropSendFut(s)
    BY <2>7 DEF DropSendFut, Unregister
  <2>8. CASE DropReservation(s)
    BY <2>8 DEF DropReservation
  <2>9. CASE TakeParked(s)
    BY <2>9 DEF TakeParked
  <2>10. CASE WakeOne(s)
    BY <2>10 DEF WakeOne
  <2>11. CASE ReleaseReturns(s)
    BY <2>11 DEF ReleaseReturns
  <2> QED
    BY <1>2, <2>1, <2>2, <2>3, <2>4, <2>5, <2>6, <2>7, <2>8, <2>9, <2>10,
       <2>11 DEF Step
<1> QED
  BY <1>1, <1>2 DEF Next

(* An admission decided on a loaded value holds for that value. *)
LEMMA AdmittedStep == IInv /\ [Next]_vars => AdmittedFits'
<1> SUFFICES ASSUME IInv, [Next]_vars PROVE AdmittedFits'
  OBVIOUS
<1> USE BytesAssumption, LimitsAssumption, NoSenderAssumption
    DEF IInv, TypeOK, Places, NoId, AdmittedFits, Fits
<1>1. CASE UNCHANGED vars
  BY <1>1 DEF vars
<1>2. ASSUME NEW s \in Senders, Step(s) PROVE AdmittedFits'
  <2>1. CASE Send(s)
    BY <2>1 DEF Send
  <2>2. CASE SendCas(s)
    BY <2>2 DEF SendCas, Reserve
  <2>3. CASE PollStart(s)
    BY <2>3 DEF PollStart
  <2>4. CASE PollLoad(s)
    BY <2>4 DEF PollLoad
  <2>5. CASE PollCas(s)
    BY <2>5 DEF PollCas, Reserve, Unregister
  <2>6. CASE Park(s)
    BY <2>6 DEF Park
  <2>7. CASE DropSendFut(s)
    BY <2>7 DEF DropSendFut, Unregister
  <2>8. CASE DropReservation(s)
    BY <2>8 DEF DropReservation
  <2>9. CASE TakeParked(s)
    BY <2>9 DEF TakeParked
  <2>10. CASE WakeOne(s)
    BY <2>10 DEF WakeOne
  <2>11. CASE ReleaseReturns(s)
    BY <2>11 DEF ReleaseReturns
  <2> QED
    BY <1>2, <2>1, <2>2, <2>3, <2>4, <2>5, <2>6, <2>7, <2>8, <2>9, <2>10,
       <2>11 DEF Step
<1> QED
  BY <1>1, <1>2 DEF Next

(* Only a release that is waking holds wakers it took. *)
LEMMA WakersStep == IInv /\ [Next]_vars => WakersInv'
<1> SUFFICES ASSUME IInv, [Next]_vars PROVE WakersInv'
  OBVIOUS
<1> USE BytesAssumption, LimitsAssumption, NoSenderAssumption
    DEF IInv, TypeOK, Places, NoId, WakersInv
<1>1. CASE UNCHANGED vars
  BY <1>1 DEF vars
<1>2. ASSUME NEW s \in Senders, Step(s) PROVE WakersInv'
  <2>1. CASE Send(s)
    BY <2>1 DEF Send
  <2>2. CASE SendCas(s)
    BY <2>2 DEF SendCas, Reserve
  <2>3. CASE PollStart(s)
    BY <2>3 DEF PollStart
  <2>4. CASE PollLoad(s)
    BY <2>4 DEF PollLoad
  <2>5. CASE PollCas(s)
    BY <2>5 DEF PollCas, Reserve, Unregister
  <2>6. CASE Park(s)
    BY <2>6 DEF Park
  <2>7. CASE DropSendFut(s)
    BY <2>7 DEF DropSendFut, Unregister
  <2>8. CASE DropReservation(s)
    BY <2>8 DEF DropReservation
  <2>9. CASE TakeParked(s)
    BY <2>9 DEF TakeParked
  <2>10. CASE WakeOne(s)
    BY <2>10 DEF WakeOne
  <2>11. CASE ReleaseReturns(s)
    BY <2>11 DEF ReleaseReturns
  <2> QED
    BY <1>2, <2>1, <2>2, <2>3, <2>4, <2>5, <2>6, <2>7, <2>8, <2>9, <2>10,
       <2>11 DEF Step
<1> QED
  BY <1>1, <1>2 DEF Next

(* The counter never passes the limit. *)
LEMMA BudgetStep == IInv /\ [Next]_vars => BudgetNeverExceeded'
<1> SUFFICES ASSUME IInv, [Next]_vars PROVE BudgetNeverExceeded'
  OBVIOUS
<1> USE BytesAssumption, LimitsAssumption, NoSenderAssumption
    DEF IInv, TypeOK, Places, NoId, AdmittedFits, Fits, BudgetNeverExceeded
<1>1. CASE UNCHANGED vars
  BY <1>1 DEF vars
<1>2. ASSUME NEW s \in Senders, Step(s) PROVE BudgetNeverExceeded'
  <2>1. CASE Send(s)
    BY <2>1 DEF Send
  <2>2. CASE SendCas(s)
    BY <2>2 DEF SendCas, Reserve
  <2>3. CASE PollStart(s)
    BY <2>3 DEF PollStart
  <2>4. CASE PollLoad(s)
    BY <2>4 DEF PollLoad
  <2>5. CASE PollCas(s)
    BY <2>5 DEF PollCas, Reserve, Unregister
  <2>6. CASE Park(s)
    BY <2>6 DEF Park
  <2>7. CASE DropSendFut(s)
    BY <2>7 DEF DropSendFut, Unregister
  <2>8. CASE DropReservation(s)
    BY <2>8 DEF DropReservation
  <2>9. CASE TakeParked(s)
    BY <2>9 DEF TakeParked
  <2>10. CASE WakeOne(s)
    BY <2>10 DEF WakeOne
  <2>11. CASE ReleaseReturns(s)
    BY <2>11 DEF ReleaseReturns
  <2> QED
    BY <1>2, <2>1, <2>2, <2>3, <2>4, <2>5, <2>6, <2>7, <2>8, <2>9, <2>10,
       <2>11 DEF Step
<1> QED
  BY <1>1, <1>2 DEF Next

(* Registrations stay those of live futures. *)
LEMMA RegistrationsStep == IInv /\ [Next]_vars => RegistrationsAreLive'
<1> SUFFICES ASSUME IInv, [Next]_vars PROVE RegistrationsAreLive'
  OBVIOUS
<1> USE BytesAssumption, LimitsAssumption, NoSenderAssumption
    DEF IInv, TypeOK, Places, NoId, IdsAreOwned, RegistrationsAreLive, LockInv, Polling
<1>1. CASE UNCHANGED vars
  BY <1>1 DEF vars
<1>2. ASSUME NEW s \in Senders, Step(s) PROVE RegistrationsAreLive'
  <2>1. CASE Send(s)
    BY <2>1 DEF Send
  <2>2. CASE SendCas(s)
    BY <2>2 DEF SendCas, Reserve
  <2>3. CASE PollStart(s)
    BY <2>3 DEF PollStart
  <2>4. CASE PollLoad(s)
    BY <2>4 DEF PollLoad
  <2>5. CASE PollCas(s)
    BY <2>5 DEF PollCas, Reserve, Unregister
  <2>6. CASE Park(s)
    BY <2>6 DEF Park
  <2>7. CASE DropSendFut(s)
    BY <2>7 DEF DropSendFut, Unregister
  <2>8. CASE DropReservation(s)
    BY <2>8 DEF DropReservation
  <2>9. CASE TakeParked(s)
    BY <2>9 DEF TakeParked
  <2>10. CASE WakeOne(s)
    BY <2>10 DEF WakeOne
  <2>11. CASE ReleaseReturns(s)
    BY <2>11 DEF ReleaseReturns
  <2> QED
    BY <1>2, <2>1, <2>2, <2>3, <2>4, <2>5, <2>6, <2>7, <2>8, <2>9, <2>10,
       <2>11 DEF Step
<1> QED
  BY <1>1, <1>2 DEF Next

(* A refused attempt that meanwhile would fit has a release on its way. *)
LEMMA RefusedStep == IInv /\ [Next]_vars => RefusedHasRelease'
<1> SUFFICES ASSUME IInv, [Next]_vars PROVE RefusedHasRelease'
  OBVIOUS
<1> USE BytesAssumption, LimitsAssumption, NoSenderAssumption
    DEF IInv, TypeOK, Places, NoId, RefusedHasRelease, Fits, ReleaseComing, LockInv, Polling
<1>1. CASE UNCHANGED vars
  BY <1>1 DEF vars
<1>2. ASSUME NEW s \in Senders, Step(s) PROVE RefusedHasRelease'
  <2>1. CASE Send(s)
    BY <2>1 DEF Send
  <2>2. CASE SendCas(s)
    BY <2>2 DEF SendCas, Reserve
  <2>3. CASE PollStart(s)
    BY <2>3 DEF PollStart
  <2>4. CASE PollLoad(s)
    BY <2>4 DEF PollLoad
  <2>5. CASE PollCas(s)
    BY <2>5 DEF PollCas, Reserve, Unregister
  <2>6. CASE Park(s)
    BY <2>6 DEF Park
  <2>7. CASE DropSendFut(s)
    BY <2>7 DEF DropSendFut, Unregister
  <2>8. CASE DropReservation(s)
    BY <2>8 DEF DropReservation
  <2>9. CASE TakeParked(s)
    BY <2>9 DEF TakeParked
  <2>10. CASE WakeOne(s)
    BY <2>10 DEF WakeOne
  <2>11. CASE ReleaseReturns(s)
    BY <2>11 DEF ReleaseReturns
  <2> QED
    BY <1>2, <2>1, <2>2, <2>3, <2>4, <2>5, <2>6, <2>7, <2>8, <2>9, <2>10,
       <2>11 DEF Step
<1> QED
  BY <1>1, <1>2 DEF Next

(* No wake-up is lost by any step. *)
LEMMA WakeupStep == IInv /\ [Next]_vars => NoLostWakeup'
<1> SUFFICES ASSUME IInv, [Next]_vars PROVE NoLostWakeup'
  OBVIOUS
<1> USE BytesAssumption, LimitsAssumption, NoSenderAssumption
    DEF IInv, TypeOK, Places, NoId, NoLostWakeup, RefusedHasRelease, IdsAreOwned, RegistrationsAreLive,
        Registered, WakeComing, ReleaseComing, Fits, LockInv, Polling
<1>1. CASE UNCHANGED vars
  BY <1>1 DEF vars
<1>2. ASSUME NEW s \in Senders, Step(s) PROVE NoLostWakeup'
  <2>1. CASE Send(s)
    BY ZenonT(60), <2>1 DEF Send
  <2>2. CASE SendCas(s)
    BY <2>2 DEF SendCas, Reserve
  <2>3. CASE PollStart(s)
    BY <2>3 DEF PollStart
  <2>4. CASE PollLoad(s)
    BY <2>4 DEF PollLoad
  <2>5. CASE PollCas(s)
    BY <2>5 DEF PollCas, Reserve, Unregister
  <2>6. CASE Park(s)
    BY <2>6 DEF Park
  <2>7. CASE DropSendFut(s)
    BY <2>7 DEF DropSendFut, Unregister
  <2>8. CASE DropReservation(s)
    BY <2>8 DEF DropReservation
  <2>9. CASE TakeParked(s)
    <3> SUFFICES ASSUME NEW t \in Senders, pc'[t] = "reserving",
                        ~ WakeComing(t)'
                 PROVE  FALSE
      BY DEF NoLostWakeup
    <3>1. pc[t] = "reserving" /\ ~ woken[t]
      BY <2>9 DEF TakeParked
    <3>2. ~ Registered(t)
      BY <2>9 DEF TakeParked
    <3>3. PICK r \in Senders : t \in toWake[r]
      BY <3>1, <3>2
    <3>4. r = s \/ t \in toWake'[r]
      BY <2>9, <3>3 DEF TakeParked
    <3>5. toWake[s] = {}
      BY <2>9 DEF TakeParked, WakersInv
    <3> QED
      BY <3>3, <3>4, <3>5
  <2>10. CASE WakeOne(s)
    BY <2>10 DEF WakeOne
  <2>11. CASE ReleaseReturns(s)
    BY <2>11 DEF ReleaseReturns
  <2> QED
    BY <1>2, <2>1, <2>2, <2>3, <2>4, <2>5, <2>6, <2>7, <2>8, <2>9, <2>10,
       <2>11 DEF Step
<1> QED
  BY <1>1, <1>2 DEF Next

(* The strengthened invariant holds throughout every behaviour.             *)
THEOREM InvariantHolds == Spec => []IInv
<1>1. IInv /\ [Next]_vars => IInv'
  BY TypeStep, LockStep, IdsStep, AdmittedStep, WakersStep, BudgetStep,
     RegistrationsStep, RefusedStep, WakeupStep DEF IInv
<1> QED
  BY InitIInv, <1>1, PTL DEF Spec

(* try_reserve never lets the client exceed memory_limit_bytes, for any      *)
(* number of threads, payload sizes and limits.                              *)
THEOREM BudgetTheorem == Spec => []BudgetNeverExceeded
<1>1. IInv => BudgetNeverExceeded
  BY DEF IInv
<1> QED
  BY InvariantHolds, <1>1, PTL

(* No release is missed between a refused attempt and its registration:      *)
(* poll_reserve's claim, for any number of concurrent sends and releases.    *)
THEOREM WakeupTheorem == Spec => []NoLostWakeup
<1>1. IInv => NoLostWakeup
  BY DEF IInv
<1> QED
  BY InvariantHolds, <1>1, PTL

(* cancel_waiter and poll_reserve only ever remove their own registration.   *)
THEOREM RegistrationsTheorem == Spec => []RegistrationsAreLive
<1>1. IInv => RegistrationsAreLive
  BY DEF IInv
<1> QED
  BY InvariantHolds, <1>1, PTL
=============================================================================
