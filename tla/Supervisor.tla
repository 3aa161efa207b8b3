------------------------------ MODULE Supervisor ------------------------------
(***************************************************************************)
(* One supervised connection (driver.rs of the tokio engine): the driver   *)
(* loop on a socket, and around it the supervisor that redials with a      *)
(* backoff, a cooldown (anti_thrash.rs) and an attempt budget              *)
(* (supervisor.rs), until the user closes the client or the budget is      *)
(* spent.  Two user tasks share the connection with it: Client::close,     *)
(* which joins the driver, and one topic lookup, which is issued again     *)
(* after a reconnect (client.rs).  The broker is external.                 *)
(*                                                                         *)
(* Time is discrete.  The code stores instants; the model stores how long  *)
(* ago they were, up to AgeCap, beyond which no comparison tells them      *)
(* apart.  A task that is not asleep and not waiting runs in no time.      *)
(***************************************************************************)
EXTENDS Integers, Sequences, SequencesExt, FiniteSetsExt

CONSTANTS
    DropGrace,         \* SupervisorConfig::drop_grace
    MaxAttempts,       \* SupervisorConfig::max_attempts
    InitialBackoff,    \* SupervisorConfig::initial_backoff
    MaxBackoff,        \* SupervisorConfig::max_backoff
    MandatoryStop,     \* SupervisorConfig::mandatory_stop
    Cooldown,          \* SupervisorConfig::max_backoff_after_thrash
    Attaches,          \* AntiThrashThreshold::successful_attaches
    Window,            \* AntiThrashThreshold::window
    DropWithin,        \* AntiThrashThreshold::drop_within
    OperationTimeout,  \* ConnectionConfig::operation_timeout
    MaxReissues,       \* MAX_LOOKUP_SESSION_REISSUES
    MaxFailures,       \* broker failures the lookup's retry policy tolerates
    Handles,           \* producers and consumers open on the connection
    Scenarios          \* what the users do and whether the detector is on

ASSUME SupervisorAssumption ==
    /\ {DropGrace, MaxAttempts, Cooldown, Window, DropWithin, MandatoryStop,
        OperationTimeout, MaxReissues, MaxFailures, Handles} \subseteq Nat
    /\ {InitialBackoff, Attaches} \subseteq Nat \ {0}
    /\ MaxBackoff \in Nat /\ InitialBackoff <= MaxBackoff

VARIABLES
    pc,         \* where the driver task is
    state,      \* Connection::state
    closing,    \* close_after_write of the driver loop
    timed,      \* handshake_deadline is armed
    outbound,   \* the connection has frames the driver has not taken
    writing,    \* pending_write of the driver loop is not empty
    greeting,   \* how far the handshake on this socket is
    rebuild,    \* pending_rebuild
    attaching,  \* opens of this session that the broker has not acknowledged
    ring,       \* AntiThrashState::ring, oldest first
    backoff,    \* Backoff: next_delay and total_elapsed
    attempts,   \* give_up_attempts
    alive,      \* socket_alive_since
    sleep,      \* what is left of the supervisor's sleep
    waiters,    \* tasks parked on driver_waker, in the order they came
    permit,     \* driver_waker holds the permit of a notify_one
    no_driver,  \* the no_driver latch
    closer,     \* the task in Client::close
    lookup,     \* the task in issue_lookup_on
    scenario,   \* one of Scenarios
    overtaken,  \* ghost: the close came during a dial, or a socket's event
                \* put the connection into another state
    storm,      \* ghost: redials since a stable socket or a cooldown
    floor,      \* ghost: the delay that so many redials have doubled
    quick       \* ghost: attach ages of the thrashed sessions in a row

session  == <<closing, timed, outbound, writing, greeting, rebuild, attaching>>
policy   == <<ring, backoff, attempts, alive, sleep>>
waker    == <<waiters, permit>>
users    == <<closer, lookup, scenario>>
ghosts   == <<overtaken, storm, floor, quick>>
vars     == <<pc, state, session, policy, waker, no_driver, users, ghosts>>

Open == -1     \* dropped_at of an attach that has not been dropped
AgeCap == Max({DropGrace, Window, DropWithin, OperationTimeout}) + 1
Older(age) == IF age = Open THEN Open ELSE Min({age + 1, AgeCap})

IsClosed == state \in {"Closing", "Failed"}

Init ==
    /\ pc = "driving" /\ state = "Connected"
    /\ closing = FALSE /\ timed = FALSE /\ outbound = TRUE /\ writing = FALSE
    /\ greeting = "connected" /\ rebuild = FALSE /\ attaching = Handles
    /\ ring = <<>> /\ backoff = [next |-> InitialBackoff, elapsed |-> 0]
    /\ attempts = 0 /\ alive = 0 /\ sleep = 0
    /\ waiters = <<>> /\ permit = FALSE /\ no_driver = FALSE
    /\ closer = "open" /\ lookup = [at |-> "idle", reissues |-> 0, failures |-> 0]
    /\ scenario \in Scenarios
    /\ overtaken = FALSE /\ storm = 0 /\ floor = InitialBackoff /\ quick = <<>>

-----------------------------------------------------------------------------
(* driver_waker, a tokio Notify: notify_one wakes the task that has waited *)
(* longest, or leaves a permit when none waits; notify_waiters wakes all.  *)

NotifyOne ==
    IF waiters = <<>> THEN permit' = TRUE /\ UNCHANGED waiters
    ELSE waiters' = Tail(waiters) /\ UNCHANGED permit

\* A task about to wait takes the permit if there is one, and else parks.
Park(task) ==
    IF permit THEN permit' = FALSE /\ UNCHANGED waiters
    ELSE waiters' = Append(waiters, task) /\ UNCHANGED permit

Parked(task) == Contains(waiters, task)
DriverRuns == waiters' = Remove(waiters, "driver") /\ UNCHANGED permit
WakeAll == waiters' = <<>> /\ UNCHANGED permit

\* From the running driver: n times notify_one, then notify_waiters.
Pulse(n) ==
    /\ waiters' = <<>>
    /\ permit' = (permit \/ Len(Remove(waiters, "driver")) < n)

-----------------------------------------------------------------------------
(* The anti-thrash detector, the backoff and the budget: pure operators.   *)

\* Mutant: the detector keeps one attach too few.
BadPushAttach(r) ==
    LET grown == Append(r, [at |-> 0, dropped |-> Open])
        cap   == Attaches - 1
    IN  IF Len(grown) > cap THEN Tail(grown) ELSE grown

PushAttach(r) ==
    LET grown == Append(r, [at |-> 0, dropped |-> Open])
        cap   == Max({2 * Attaches, 2})
    IN  IF Len(grown) > cap THEN Tail(grown) ELSE grown

\* The newest attach without a drop, 0 when there is none.
NewestOpen(r) == Max({0} \cup {i \in DOMAIN r : r[i].dropped = Open})

\* A drop now is paired with the newest open attach if that is recent enough.
Paired(r) == NewestOpen(r) # 0 /\ r[NewestOpen(r)].at <= DropWithin
StampDrop(r) == IF Paired(r) THEN [r EXCEPT ![NewestOpen(r)].dropped = 0] ELSE r

\* evaluate: the last Attaches attaches were all dropped, within the window.
Trips(r) ==
    LET tail == SubSeq(r, Len(r) - Attaches + 1, Len(r))
    IN  /\ Len(r) >= Attaches
        /\ \A i \in DOMAIN tail : tail[i].dropped # Open
        /\ Max({tail[i].at : i \in DOMAIN tail})
             - Min({tail[i].dropped : i \in DOMAIN tail}) <= Window

\* Mutant: a socket whose handshake never completed counts as stable.
BadStable == alive > DropGrace
Stable == ~rebuild /\ alive > DropGrace

ShouldGiveUp(n) == n > MaxAttempts

\* The delays Backoff::next may return for b, each with the state it leaves.
Delays(b) ==
    LET doubled == Min({2 * b.next, MaxBackoff})
        After(d) == IF b.elapsed + d > MandatoryStop
                      THEN [delay |-> MaxBackoff,
                            then |-> [next |-> MaxBackoff, elapsed |-> 0]]
                      ELSE [delay |-> d,
                            then |-> [next |-> doubled, elapsed |-> b.elapsed + d]]
    IN  {After(b.next - jitter) : jitter \in 0..(b.next \div 5)}

-----------------------------------------------------------------------------
(* The driver loop on one socket.                                          *)

Detecting == "thrash" \in scenario

\* The loop has ended; its locals go with it.
LeaveLoop ==
    /\ pc' = "dropped" /\ DriverRuns
    /\ closing' = FALSE /\ writing' = FALSE /\ timed' = FALSE

\* What the ghosts make of a session's end.
Judge ==
    LET attached == ring # <<>> /\ Last(ring).dropped = Open
                    /\ Last(ring).at <= alive
        thrashed == attached /\ Last(ring).at <= DropWithin
        lasted   == greeting = "connected" /\ alive > DropGrace
    IN  /\ storm' = IF lasted THEN 0 ELSE storm
        /\ floor' = IF lasted THEN InitialBackoff ELSE floor
        /\ quick' = IF thrashed
                      THEN LET q == Append(quick, Last(ring).at)
                           IN  IF Len(q) > Attaches THEN Tail(q) ELSE q
                      ELSE IF attached THEN <<>> ELSE quick

SetState(next) ==
    /\ state' = next
    /\ overtaken' = (overtaken \/ (state = "Closing" /\ next # "Closing"))

\* The top of the loop: take frames, look for a close or a missed handshake
\* deadline, and wait on the sockets, the waker and the timer.
LoopTop ==
    /\ pc = "driving" /\ ~Parked("driver")
    /\ LET ending  == closing \/ IsClosed
           taken   == writing \/ outbound
           armed   == timed /\ state # "Connected" /\ ~IsClosed
       IN  \/ /\ armed /\ alive >= OperationTimeout
              /\ SetState("Failed") /\ LeaveLoop /\ Judge
              /\ UNCHANGED <<outbound, greeting, rebuild, attaching>>
           \/ /\ ~(armed /\ alive >= OperationTimeout)
              /\ ending /\ ~taken
              /\ LeaveLoop /\ Judge
              /\ UNCHANGED <<state, overtaken, outbound, greeting, rebuild, attaching>>
           \/ /\ ~(armed /\ alive >= OperationTimeout)
              /\ ~(ending /\ ~taken)
              /\ closing' = ending /\ timed' = armed
              /\ writing' = taken /\ outbound' = (writing /\ outbound)
              /\ Park("driver")
              /\ UNCHANGED <<pc, state, greeting, rebuild, attaching, ghosts>>
    /\ UNCHANGED <<policy, no_driver, users>>

Waiting == pc = "driving" /\ Parked("driver")

\* After a read: replay the handles once the new session is connected, and
\* wake every task.  next is the connection's state after the bytes.
AfterBytes(next, opens) ==
    LET replay == rebuild /\ next = "Connected"
    IN  /\ SetState(next)
        /\ rebuild' = (rebuild /\ ~replay)
        /\ attaching' = IF replay THEN Handles ELSE opens
        /\ outbound' = (outbound \/ (replay /\ Handles > 0))
        /\ Pulse(IF replay THEN 2 ELSE 0)
        /\ UNCHANGED <<pc, closing, timed, writing>>

Uninvolved == UNCHANGED <<no_driver, users, storm, floor, quick>>

\* The CONNECT frame has been written and the broker accepts it.
HandleConnected ==
    /\ Waiting /\ greeting \in {"sent", "challenged"}
    /\ greeting' = "connected" /\ AfterBytes("Connected", attaching)
    /\ UNCHANGED policy /\ Uninvolved

\* The broker challenges one answer at a time.
MayChallenge == "auth" \in scenario /\ greeting # "unsent" /\ ~outbound /\ ~writing
Challenged == greeting' = IF greeting = "sent" THEN "challenged" ELSE greeting

\* The broker challenges the credentials and the provider answers.  The
\* handles are not replayed before a later frame: the connection was still
\* AuthChallenging when the driver looked.
AuthAnswered ==
    /\ Waiting /\ MayChallenge
    /\ SetState("Connected") /\ Challenged /\ outbound' = TRUE
    /\ Pulse(1)
    /\ UNCHANGED <<pc, closing, timed, writing, rebuild, attaching, policy>>
    /\ Uninvolved

\* There is no provider or it fails: handle_pending_events ends the loop and
\* leaves the connection AuthChallenging.
AuthRefused ==
    /\ Waiting /\ MayChallenge
    /\ SetState("AuthChallenging") /\ Challenged /\ LeaveLoop /\ Judge
    /\ UNCHANGED <<outbound, rebuild, attaching, policy, no_driver, users>>

\* The broker acknowledges the open of a producer or a consumer.
ReAttachOk ==
    /\ Waiting /\ attaching > 0 /\ greeting = "connected" /\ ~writing
    /\ AfterBytes(state, attaching - 1) /\ UNCHANGED greeting
    /\ ring' = IF Detecting THEN PushAttach(ring) ELSE ring
    /\ UNCHANGED <<backoff, attempts, alive, sleep>> /\ Uninvolved

\* End of file, a read, decode or write error, or a write past its deadline.
Disconnect ==
    /\ Waiting /\ SetState("Failed") /\ LeaveLoop /\ Judge
    /\ UNCHANGED <<outbound, greeting, rebuild, attaching, policy, no_driver, users>>

\* Two keepalive intervals without a frame.
KeepaliveFails ==
    /\ Waiting /\ state = "Connected"
    /\ SetState("Failed") /\ DriverRuns
    /\ UNCHANGED <<pc, session, policy>> /\ Uninvolved

\* Any other timer.  Before the first frame of a session only the handshake
\* deadline is one.
TimerFires ==
    /\ Waiting
    /\ greeting \in {"challenged", "connected"} \/ (timed /\ alive >= OperationTimeout)
    /\ DriverRuns
    /\ UNCHANGED <<pc, state, overtaken, session, policy>> /\ Uninvolved

WriteDrains ==
    /\ Waiting /\ writing
    /\ IF closing THEN LeaveLoop /\ Judge
       ELSE /\ writing' = FALSE /\ DriverRuns
            /\ UNCHANGED <<pc, closing, timed, storm, floor, quick>>
    /\ greeting' = IF greeting = "unsent" THEN "sent" ELSE greeting
    /\ UNCHANGED <<state, overtaken, outbound, rebuild, attaching, policy,
                   no_driver, users>>

-----------------------------------------------------------------------------
(* The supervisor between two sockets.                                     *)

\* The top of the outer loop: a close ends it; a drop soon after an attach is
\* fed to the detector, which may impose a cooldown.
OuterTop ==
    /\ pc = "dropped"
    /\ IF state = "Closing"
         THEN pc' = "failing" /\ UNCHANGED <<policy, storm, floor, quick>>
         ELSE LET recorded == Detecting /\ ring # <<>> /\ Last(ring).at <= DropGrace
                  stamped  == IF recorded THEN StampDrop(ring) ELSE ring
                  cooled   == recorded /\ Paired(ring) /\ Trips(stamped)
              IN  /\ ring' = stamped
                  /\ pc' = IF cooled THEN "cooling" ELSE "resuming"
                  /\ sleep' = IF cooled THEN Cooldown ELSE 0
                  /\ storm' = IF cooled THEN 0 ELSE storm
                  /\ floor' = IF cooled THEN InitialBackoff ELSE floor
                  /\ quick' = IF cooled THEN <<>> ELSE quick
                  /\ UNCHANGED <<backoff, attempts, alive>>
    /\ UNCHANGED <<state, session, waker, no_driver, users, overtaken>>

BackOff(b) ==
    \E d \in Delays(b) : pc' = "backing" /\ sleep' = d.delay /\ backoff' = d.then

\* The cooldown, if any, is over.  A stable socket resets both the schedule
\* and the budget; the code measures the socket's life only here.
Resume ==
    /\ pc = "resuming" \/ (pc = "cooling" /\ sleep = 0)
    /\ BackOff(IF Stable THEN [next |-> InitialBackoff, elapsed |-> 0] ELSE backoff)
    /\ attempts' = IF Stable THEN 0 ELSE attempts
    /\ UNCHANGED <<state, session, ring, alive, waker, no_driver, users, ghosts>>

\* Mutant: a close during the sleep is not looked for.
BadBackingDone ==
    /\ pc = "backing" /\ sleep = 0
    /\ attempts' = attempts + 1
    /\ pc' = IF ShouldGiveUp(attempts + 1) THEN "failing" ELSE "dialing"
    /\ storm' = IF pc' = "dialing" THEN storm + 1 ELSE storm
    /\ floor' = IF pc' = "dialing" THEN Min({2 * floor, MaxBackoff}) ELSE floor
    /\ UNCHANGED <<state, session, ring, backoff, alive, sleep, waker, no_driver,
                   users, overtaken, quick>>

BackingDone ==
    /\ pc = "backing" /\ sleep = 0
    /\ attempts' = attempts + 1
    /\ pc' = IF ShouldGiveUp(attempts + 1) \/ state = "Closing"
               THEN "failing" ELSE "dialing"
    /\ storm' = IF pc' = "dialing" THEN storm + 1 ELSE storm
    /\ floor' = IF pc' = "dialing" THEN Min({2 * floor, MaxBackoff}) ELSE floor
    /\ UNCHANGED <<state, session, ring, backoff, alive, sleep, waker, no_driver,
                   users, overtaken, quick>>

DialFails ==
    /\ pc = "dialing" /\ BackOff(backoff)
    /\ UNCHANGED <<state, session, ring, attempts, alive, waker, no_driver, users, ghosts>>

\* reset: requests of the lost session fail with SessionLost.
LoseSession(l) == IF l.at = "pending" THEN [l EXCEPT !.at = "lost"] ELSE l

\* A socket: reset the connection, queue CONNECT, arm the rebuild, and tell the
\* retry tasks of the old session, with a wake-up of driver_waker.
DialConnects ==
    /\ pc = "dialing" /\ pc' = "driving" /\ NotifyOne
    /\ state' = "ConnectSent" /\ lookup' = LoseSession(lookup)
    /\ closing' = FALSE /\ timed' = TRUE /\ outbound' = TRUE /\ writing' = FALSE
    /\ greeting' = "unsent" /\ rebuild' = TRUE /\ attaching' = 0
    /\ alive' = 0
    /\ UNCHANGED <<ring, backoff, attempts, sleep, no_driver, closer, scenario,
                   ghosts>>

\* fail_all_pending, then mark_no_driver: two critical sections.
FailAllPending ==
    /\ pc = "failing" /\ pc' = "latching"
    /\ lookup' = IF lookup.at = "pending" THEN [lookup EXCEPT !.at = "returned"]
                 ELSE lookup
    /\ UNCHANGED <<state, session, policy, waker, no_driver, closer, scenario, ghosts>>

\* Mutant: the tasks parked on driver_waker are not woken.
BadMarkNoDriver ==
    /\ pc = "latching" /\ pc' = "gone" /\ no_driver' = TRUE
    /\ UNCHANGED <<state, session, policy, waker, users, ghosts>>

MarkNoDriver ==
    /\ pc = "latching" /\ pc' = "gone" /\ no_driver' = TRUE /\ WakeAll
    /\ UNCHANGED <<state, session, policy, users, ghosts>>

-----------------------------------------------------------------------------
(* The users.                                                              *)

\* Client::close marks the connection, wakes one waiter and joins the driver.
Close ==
    /\ "close" \in scenario /\ closer = "open" /\ closer' = "joining"
    /\ state' = "Closing" /\ NotifyOne
    /\ overtaken' = (pc = "dialing")
    /\ UNCHANGED <<pc, session, policy, no_driver, lookup, scenario, storm, floor, quick>>

JoinReturns ==
    /\ closer = "joining" /\ pc = "gone" /\ closer' = "returned"
    /\ UNCHANGED <<pc, state, session, policy, waker, no_driver, lookup, scenario, ghosts>>

LookupTo(at) == lookup' = [lookup EXCEPT !.at = at]
LookupAlone ==
    UNCHANGED <<pc, state, policy, no_driver, closer, scenario, ghosts,
                closing, timed, writing, greeting, rebuild, attaching>>

\* fail_if_no_driver guards the lookup, before the lock is taken again.
StartLookup ==
    /\ "lookup" \in scenario /\ lookup.at = "idle"
    /\ LookupTo(IF no_driver /\ IsClosed THEN "returned" ELSE "admitted")
    /\ LookupAlone /\ UNCHANGED <<outbound, waker>>

\* A request registered after fail_all_pending has no one to resolve it.
RegisterLookup ==
    /\ lookup.at = "admitted"
    /\ LookupTo(IF pc \in {"latching", "gone"} THEN "late" ELSE "pending")
    /\ outbound' = TRUE /\ NotifyOne
    /\ LookupAlone

\* The broker answers; a retryable refusal is asked again within the policy.
Answer ==
    /\ Waiting /\ lookup.at = "pending" /\ greeting = "connected"
    /\ ~outbound /\ ~writing
    /\ \/ LookupTo("returned")
       \/ /\ lookup.failures < MaxFailures
          /\ lookup' = [lookup EXCEPT !.at = "admitted", !.failures = @ + 1]
    /\ AfterBytes(state, attaching)
    /\ UNCHANGED <<greeting, policy, no_driver, closer, scenario, storm, floor, quick>>

\* await_reconnect_or_terminal, one round: arm the waker, look, park.
AwaitReconnect ==
    /\ lookup.at = "lost" /\ ~Parked("lookup")
    /\ IF state = "Connected"
         THEN /\ permit' = FALSE /\ UNCHANGED waiters
              /\ lookup' = IF lookup.reissues = MaxReissues
                             THEN [lookup EXCEPT !.at = "returned"]
                             ELSE [lookup EXCEPT !.at = "admitted", !.reissues = @ + 1]
         ELSE IF IsClosed /\ no_driver
         THEN LookupTo("returned") /\ permit' = FALSE /\ UNCHANGED waiters
         ELSE Park("lookup") /\ UNCHANGED lookup
    /\ LookupAlone /\ UNCHANGED outbound

\* The operation's deadline beats every wait.
LookupExpires ==
    /\ lookup.at \in {"admitted", "pending", "late", "lost"} /\ LookupTo("returned")
    /\ waiters' = Remove(waiters, "lookup") /\ UNCHANGED permit
    /\ LookupAlone /\ UNCHANGED outbound

-----------------------------------------------------------------------------
(* Time passes only while the driver task sleeps, dials or waits.          *)
Tick ==
    /\ \/ pc = "dialing"
       \/ pc \in {"cooling", "backing"} /\ sleep > 0
       \/ Waiting /\ ~(timed /\ alive >= OperationTimeout)
    /\ alive' = Older(alive)
    /\ ring' = [i \in DOMAIN ring |->
                   [at |-> Older(ring[i].at), dropped |-> Older(ring[i].dropped)]]
    /\ quick' = [i \in DOMAIN quick |-> Older(quick[i])]
    /\ sleep' = Max({sleep - 1, 0})
    /\ UNCHANGED <<pc, state, session, backoff, attempts, waker, no_driver, users,
                   overtaken, storm, floor>>

Supervise == OuterTop \/ Resume \/ BackingDone \/ FailAllPending \/ MarkNoDriver
Dial == DialFails \/ DialConnects
Write == WriteDrains \/ Disconnect
Greet == greeting = "challenged" /\ (HandleConnected \/ KeepaliveFails)
Reissue == state = "Connected" /\ AwaitReconnect

Next ==
    \/ LoopTop \/ HandleConnected \/ AuthAnswered \/ AuthRefused \/ ReAttachOk
    \/ Disconnect \/ KeepaliveFails \/ TimerFires \/ WriteDrains
    \/ OuterTop \/ Resume \/ BackingDone \/ DialFails \/ DialConnects
    \/ FailAllPending \/ MarkNoDriver
    \/ Close \/ JoinReturns
    \/ StartLookup \/ RegisterLookup \/ Answer \/ AwaitReconnect \/ LookupExpires
    \/ Tick

\* The driver task and the users run when they can; a dial ends within its
\* timeout and a write within its deadline.  A broker whose challenge was
\* answered greets or falls silent until the keepalive gives up on it: the
\* answer has disarmed the handshake deadline.  Sessions that are lost again and
\* again do not all outrun the woken lookup and the broker's answer.
Fairness ==
    /\ WF_vars(LoopTop) /\ WF_vars(Supervise) /\ WF_vars(Dial)
    /\ SF_vars(Write /\ writing) /\ WF_vars(TimerFires) /\ WF_vars(Tick)
    /\ WF_vars(JoinReturns) /\ WF_vars(RegisterLookup) /\ WF_vars(AwaitReconnect)
    /\ SF_vars(Greet) /\ SF_vars(Reissue) /\ SF_vars(Answer)

Spec == Init /\ [][Next]_vars /\ Fairness

-----------------------------------------------------------------------------
(* A socket that died young never refills the budget or the schedule: the  *)
(* redials since the last stable socket stay within max_attempts, and the  *)
(* k-th of them waited for the initial delay doubled k - 1 times, up to    *)
(* the maximum.  (A cooldown starts the count afresh.)                     *)
StormIsBounded ==
    /\ storm <= MaxAttempts
    /\ pc = "dialing" => backoff.next >= floor

(* With one handle per connection, Attaches sessions in a row that were    *)
(* attached and dropped again within the window are always followed by the *)
(* cooldown before the next dial (anti_thrash.rs).                         *)
StormIsCooled ==
    pc \in {"backing", "dialing"} =>
        ~(Detecting /\ Len(quick) = Attaches /\ Head(quick) <= Window)

(* A close that the connection does not forget is carried out: the driver  *)
(* ends and Client::close returns, whatever the socket, the supervisor and *)
(* a parked lookup that takes the wake-up are doing.                       *)
CloseIsHonoured == closer = "joining" ~> (closer = "returned" \/ overtaken)

\* Registered after fail_all_pending, or the driver is gone and the
\* connection does not look closed: nothing but the deadline resolves it.
Orphaned == lookup.at = "late" \/ (no_driver /\ ~IsClosed)

(* A lookup returns without its deadline, through any number of reconnects *)
(* and lost wake-ups, unless it is Orphaned.                               *)
LookupReturns == lookup.at \in {"pending", "lost"} ~> (lookup.at = "returned" \/ Orphaned)

(* "User-requested close beats reconnect" (driver.rs): Client::close       *)
(* returns.                                                                *)
CloseReturns == closer = "joining" ~> closer = "returned"
=============================================================================
