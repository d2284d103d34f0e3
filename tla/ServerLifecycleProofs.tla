------------------------ MODULE ServerLifecycleProofs ------------------------
(***************************************************************************)
(* StopsCleanly, for any number of descriptors and anything the listener   *)
(* members may hold before they are set.                                   *)
(***************************************************************************)
EXTENDS ServerLifecycle, TLAPS

USE DEF Port, Ended, Setup, Loop

IInv == LifecycleTypeOK /\ ListenersOpen

\* What socket() returns is -1 or was free.
LEMMA SocketResultsFree ==
  ASSUME NEW d \in SocketResults
  PROVE  d \in Int /\ (d >= 0 => d \in Descriptor /\ fds[d] = "free")
  BY LifecycleAssumption DEF SocketResults, Descriptor

LEMMA TablesTyped ==
  ASSUME NEW table \in [Descriptor -> {"free", "tty", "unbound"} \cup Port]
  PROVE  /\ \A ds : Closed(table, ds) \in
                      [Descriptor -> {"free", "tty", "unbound"} \cup Port]
         /\ \A d : \A as \in {"unbound"} \cup Port :
              Opened(table, d, as) \in
                [Descriptor -> {"free", "tty", "unbound"} \cup Port]
  BY DEF Closed, Opened

\* No step gives a variable a value of another type.
LEMMA NextLifecycleType ==
  ASSUME LifecycleTypeOK, [Next]_vars
  PROVE  LifecycleTypeOK'
<1> USE DEF LifecycleTypeOK
<1>1. CASE OpenRegistration
  <2>1. PICK d \in SocketResults :
          \/ d >= 0 /\ OpenPort("regist", d, "open_lookup")
          \/ OpenPortFails("regist", d, "open_lookup")
    BY <1>1 DEF OpenRegistration
  <2>2. d \in Int
    BY SocketResultsFree
  <2>3. CASE OpenPort("regist", d, "open_lookup")
    BY <1>1, <2>2, <2>3, TablesTyped DEF OpenPort, OpenRegistration, setupUnchanged
  <2>4. CASE OpenPortFails("regist", d, "open_lookup")
    BY <1>1, <2>4, TablesTyped DEF OpenPortFails, ShutDown, OpenRegistration, setupUnchanged
  <2> QED BY <2>1, <2>3, <2>4
<1>2. CASE OpenLookup
  <2>1. PICK d \in SocketResults :
          \/ d >= 0 /\ OpenPort("lookup", d, "restart")
          \/ role = "RS" /\ OpenPortFails("lookup", d, "restart")
          \/ role = "DNS" /\ OpenDnsFails(d)
    BY <1>2 DEF OpenLookup
  <2>2. d \in Int
    BY SocketResultsFree
  <2>3. CASE OpenPort("lookup", d, "restart")
    BY <1>2, <2>2, <2>3, TablesTyped DEF OpenPort, OpenLookup, setupUnchanged
  <2>4. CASE OpenPortFails("lookup", d, "restart")
    BY <1>2, <2>4, TablesTyped DEF OpenPortFails, ShutDown, OpenLookup, setupUnchanged
  <2>5. CASE OpenDnsFails(d)
    BY <1>2, <2>2, <2>5, TablesTyped DEF OpenDnsFails, ShutDown, OpenLookup, setupUnchanged
  <2> QED BY <2>1, <2>3, <2>4, <2>5
<1>3. CASE RestartProgram \/ HandleSignalInterrupts \/ ShouldContinue
  BY <1>3 DEF RestartProgram, HandleSignalInterrupts, ShouldContinue
<1>4. ASSUME NEW p \in Port, NEW next \in {"poll_regist", "update", "check"},
             PollNothing(p, next) \/ PollRequest(p, next) \/ PollError(p)
      PROVE  LifecycleTypeOK'
  <2>1. CASE PollNothing(p, next)
    BY <2>1 DEF PollNothing
  <2>2. CASE PollRequest(p, next)
    BY <2>2 DEF PollRequest
  <2>3. CASE PollError(p)
    <3>1. fds' = Closed(fds, Listeners(listener)) /\ exit_flag' = TRUE
      BY <2>3 DEF PollError, ShutDown
    <3>2. fds' \in [Descriptor -> {"free", "tty", "unbound"} \cup Port]
      BY <3>1, TablesTyped
    <3> QED BY <2>3, <3>1, <3>2 DEF PollError
  <2> QED BY <1>4, <2>1, <2>2, <2>3
<1>5. CASE PollLookups \/ PollRegistrations
  <2>1. CASE PollLookups
    <3> DEFINE next == IF role = "RS" THEN "poll_regist" ELSE "check"
    <3>1. PollNothing("lookup", next) \/ PollRequest("lookup", next) \/ PollError("lookup")
      BY <2>1 DEF PollLookups
    <3>2. next \in {"poll_regist", "update", "check"}
      OBVIOUS
    <3> HIDE DEF next
    <3> QED BY <1>4, <3>1, <3>2
  <2>2. CASE PollRegistrations
    BY <1>4, <2>2 DEF PollRegistrations
  <2> QED BY <1>5, <2>1, <2>2
<1>6. CASE OpenUpdateSocket
  BY <1>6, TablesTyped DEF OpenUpdateSocket
<1>7. CASE SignalKills \/ ExitProgram
  BY <1>7 DEF SignalKills, ExitProgram
<1>8. CASE OtherThread
  <2>1. ASSUME NEW from, NEW p, NEW next \in {"closing", "exiting"},
               StopperCloses(from, p, next)
        PROVE  LifecycleTypeOK'
    <3>1. fds' \in [Descriptor -> {"free", "tty", "unbound"} \cup Port]
      BY <2>1, TablesTyped DEF StopperCloses
    <3> QED BY <2>1, <3>1 DEF StopperCloses
  <2>2. CASE StopperExits
    BY <2>2 DEF StopperExits
  <2> QED BY <1>8, <2>1, <2>2 DEF OtherThread
<1>9. CASE UNCHANGED vars
  BY <1>9 DEF vars
<1> QED
  BY <1>1, <1>2, <1>3, <1>4, <1>5, <1>6, <1>7, <1>8, <1>9 DEF Next, Main

\* An open listener stays open whatever else is opened.
LEMMA ListenerKept ==
  ASSUME LifecycleTypeOK, NEW p \in Port, ListenerOpen(p), listener'[p] = listener[p],
         NEW d \in SocketResults, NEW as, fds' = Opened(fds, d, as)
  PROVE  ListenerOpen(p)'
<1>1. d # listener[p]
  BY SocketResultsFree, LifecycleAssumption DEF ListenerOpen, Descriptor
<1> QED
  BY <1>1 DEF ListenerOpen, Opened

\* Until something fails, listeners once set are open and polling them succeeds.
LEMMA NextListenersOpen ==
  ASSUME IInv, [Next]_vars
  PROVE  ListenersOpen'
<1> USE DEF IInv
<1> SUFFICES ASSUME Undisturbed'
             PROVE  ListenersOpen'
  BY DEF ListenersOpen
<1>1. CASE OpenRegistration
  <2>1. PICK d \in SocketResults : d >= 0 /\ OpenPort("regist", d, "open_lookup")
    BY <1>1 DEF OpenRegistration, OpenPortFails, Undisturbed
  <2>2. ListenerOpen("regist")'
    BY <2>1, SocketResultsFree DEF OpenPort, Opened, ListenerOpen, LifecycleTypeOK
  <2> QED
    BY <2>1, <2>2 DEF OpenPort, ListenersOpen
<1>2. CASE OpenLookup
  <2>1. PICK d \in SocketResults : d >= 0 /\ OpenPort("lookup", d, "restart")
    BY <1>2 DEF OpenLookup, OpenPortFails, OpenDnsFails, Undisturbed
  <2>2. ListenerOpen("lookup")'
    BY <2>1, SocketResultsFree DEF OpenPort, Opened, ListenerOpen, LifecycleTypeOK
  <2>3. role = "RS" => ListenerOpen("regist")
    BY <1>2, <2>1 DEF OpenLookup, OpenPort, setupUnchanged, ListenersOpen, Undisturbed
  <2>4. role = "RS" => ListenerOpen("regist")'
    <3>1. listener'["regist"] = listener["regist"] /\ fds' = Opened(fds, d, "lookup")
      BY <2>1 DEF OpenPort, LifecycleTypeOK
    <3> QED BY <2>3, <3>1, ListenerKept
  <2> QED
    BY <1>2, <2>1, <2>2, <2>4 DEF OpenLookup, OpenPort, setupUnchanged, ListenersOpen
<1>3. CASE RestartProgram \/ HandleSignalInterrupts \/ ShouldContinue
  BY <1>3 DEF RestartProgram, HandleSignalInterrupts, ShouldContinue, ListenersOpen,
              Undisturbed, ListenerOpen
<1>4. CASE PollLookups \/ PollRegistrations
  <2>1. /\ Undisturbed
        /\ ListenerOpen("lookup")
        /\ role = "RS" => ListenerOpen("regist")
        /\ role = role' /\ listener = listener'
    BY <1>4 DEF PollLookups, PollRegistrations, PollNothing, PollRequest, PollError,
                ListenersOpen, Undisturbed
  <2>2. ASSUME UNCHANGED fds, pc' # "aborted", pc' = "poll_regist" => role = "RS"
        PROVE  ListenersOpen'
    BY <2>1, <2>2 DEF ListenersOpen, ListenerOpen
  <2>3. CASE PollLookups
    <3>1. ~PollError("lookup")
      BY <2>1 DEF PollError, ListenerOpen
    <3>2. /\ UNCHANGED fds
          /\ pc' = IF role = "RS" THEN "poll_regist" ELSE "check"
      BY <2>3, <3>1 DEF PollLookups, PollNothing, PollRequest
    <3> QED BY <2>2, <3>2
  <2>4. CASE PollRegistrations
    <3>1. role = "RS"
      BY <2>1, <2>4 DEF PollRegistrations, ListenersOpen
    <3> QED
      BY <2>1, <2>2, <2>4, <3>1 DEF PollRegistrations, PollNothing, PollRequest, PollError, ListenerOpen
  <2> QED BY <1>4, <2>3, <2>4
<1>5. CASE OpenUpdateSocket
  <2>1. PICK d \in SocketResults : fds' = Opened(fds, d, "unbound")
    BY <1>5 DEF OpenUpdateSocket
  <2>2. Undisturbed /\ pc = "update" /\ pc' = "check" /\ UNCHANGED <<role, listener>>
    BY <1>5 DEF OpenUpdateSocket, Undisturbed
  <2>3. \A p \in Port : ListenerOpen(p) => ListenerOpen(p)'
    BY <2>1, <2>2, ListenerKept
  <2> QED
    BY <2>2, <2>3 DEF ListenersOpen
<1>6. CASE SignalKills \/ ExitProgram
  BY <1>6 DEF SignalKills, ExitProgram, ListenersOpen, Undisturbed, ListenerOpen
<1>7. ~OtherThread
  BY DEF OtherThread, StopperCloses, StopperExits, Undisturbed
<1>8. CASE UNCHANGED vars
  BY <1>8 DEF vars, ListenersOpen, Undisturbed, ListenerOpen
<1> QED
  BY <1>1, <1>2, <1>3, <1>4, <1>5, <1>6, <1>7, <1>8 DEF Next, Main

\* A server with both ports open is never aborted by a signal.
THEOREM InterruptsAreClean == Spec => []StopsCleanly
<1>1. Init => IInv
  BY LifecycleAssumption DEF Init, IInv, LifecycleTypeOK, ListenersOpen, Descriptor
<1>2. IInv /\ [Next]_vars => IInv'
  BY NextLifecycleType, NextListenersOpen DEF IInv
<1>3. IInv => StopsCleanly
  BY DEF IInv, LifecycleTypeOK, ListenersOpen, Undisturbed, StopsCleanly
<1> QED
  BY <1>1, <1>2, <1>3, PTL DEF Spec
===============================================================================
