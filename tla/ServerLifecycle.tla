---------------------------- MODULE ServerLifecycle ----------------------------
(***************************************************************************)
(* One server process from main() to its end: Start, BeginListening,       *)
(* ShutDown and the loop around HandleRequests, of SimpleRendezvousServer  *)
(* and of SimpleDNS, with the exit flag and the signals of Common/Signal.h *)
(* and the process's table of descriptors.                                 *)
(*                                                                         *)
(* The rendezvous server has a registration and a lookup listener; the DNS *)
(* has one, on the port that lookups go to.  What HandleRequests answers   *)
(* is in SimpleRendezvousServer and SimpleDNS; here it matters which       *)
(* descriptor it reads, and as what it takes the request.                  *)
(*                                                                         *)
(* Another thread may call ShutDown, as the tests of both servers do: a    *)
(* second after they start the server, that is, when its ports are open.   *)
(***************************************************************************)
EXTENDS Integers

CONSTANTS
  MaxFd,          \* bound: descriptors are 0 .. MaxFd
  Uninitialised   \* what the listener members may hold before Start sets them

Descriptor == 0 .. MaxFd

ASSUME LifecycleAssumption ==
  /\ MaxFd \in Nat /\ MaxFd >= 4
  /\ Uninitialised \subseteq Int

VARIABLES
  role,       \* the server this process runs
  pc,         \* where its main thread is
  fds,        \* what each descriptor is
  listener,   \* registration_listener_ and lookup_listener_ (DNS: listener_)
  exit_flag,
  handling,   \* SIGINT runs ExitProgram
  stopper,    \* where another thread is that calls ShutDown
  failed,     \* history: a port could not be opened
  signalled,  \* history: ExitProgram was run by a signal
  served      \* history: the ports requests came to, and as what they were taken

vars == <<role, pc, fds, listener, exit_flag, handling, stopper, failed,
          signalled, served>>

Port == {"regist", "lookup"}
Ended == {"returned", "killed", "aborted"}
Setup == {"open_regist", "open_lookup", "restart", "handlers"}
Loop == {"poll_lookup", "poll_regist", "update", "check"}

LifecycleTypeOK ==
  /\ role \in {"RS", "DNS"}
  /\ pc \in Setup \cup Loop \cup Ended
  /\ fds \in [Descriptor -> {"free", "tty", "unbound"} \cup Port]
  /\ listener \in [Port -> Int]
  /\ exit_flag \in BOOLEAN /\ handling \in BOOLEAN
  /\ stopper \in {"idle", "closing", "exiting", "done"}
  /\ failed \in BOOLEAN /\ signalled \in BOOLEAN
  /\ served \subseteq Port \X Port

Init ==
  /\ role \in {"RS", "DNS"}
  /\ pc = IF role = "RS" THEN "open_regist" ELSE "open_lookup"
  /\ fds = [d \in Descriptor |-> IF d <= 2 THEN "tty" ELSE "free"]
  /\ listener \in [Port -> Uninitialised]
  /\ exit_flag = FALSE /\ handling = FALSE
  /\ stopper = "idle"
  /\ failed = FALSE /\ signalled = FALSE
  /\ served = {}

-------------------------------------------------------------------------------
(* Descriptors (external) *)

\* What a call of socket() may return: the lowest free descriptor, or none when
\* the system has none to give.
SocketResults ==
  LET free == {d \in Descriptor : fds[d] = "free"}
  IN  {-1} \cup {d \in free : \A e \in free : d <= e}

ListenerOpen(p) == listener[p] \in Descriptor /\ fds[listener[p]] = p

Opened(table, d, as) == [e \in Descriptor |-> IF e = d THEN as ELSE table[e]]
Closed(table, ds) == [e \in Descriptor |-> IF e \in ds THEN "free" ELSE table[e]]

-------------------------------------------------------------------------------
(* ShutDown: close the listeners, whatever they hold, and set the flag.  It    *)
(* returns false.                                                             *)

Listeners(members) ==
  IF role = "RS" THEN {members["regist"], members["lookup"]} ELSE {members["lookup"]}

ShutDown(table, members) ==
  /\ fds' = Closed(table, Listeners(members))
  /\ exit_flag' = TRUE

-------------------------------------------------------------------------------
(* BeginListening *)

OpenPort(p, d, next) ==
  /\ fds' = Opened(fds, d, p)
  /\ listener' = [listener EXCEPT ![p] = d]
  /\ pc' = next
  /\ UNCHANGED <<exit_flag, failed>>

\* The rendezvous server uses what ShutDown returns as the descriptor, false is
\* 0, and goes on.  The socket that could not be bound stays open.
OpenPortFails(p, d, next) ==
  /\ ShutDown(Opened(fds, d, "unbound"), listener)
  /\ listener' = [listener EXCEPT ![p] = 0]
  /\ pc' = next
  /\ failed' = TRUE

\* The DNS stores the socket before it looks at it, and asserts.
OpenDnsFails(d) ==
  /\ LET members == [listener EXCEPT !["lookup"] = d]
     IN  ShutDown(Opened(fds, d, "unbound"), members) /\ listener' = members
  /\ pc' = "aborted"
  /\ failed' = TRUE

setupUnchanged == <<role, handling, stopper, signalled, served>>

OpenRegistration ==
  /\ pc = "open_regist"
  /\ \E d \in SocketResults :
       \/ d >= 0 /\ OpenPort("regist", d, "open_lookup")
       \/ OpenPortFails("regist", d, "open_lookup")
  /\ UNCHANGED setupUnchanged

OpenLookup ==
  /\ pc = "open_lookup"
  /\ \E d \in SocketResults :
       \/ d >= 0 /\ OpenPort("lookup", d, "restart")
       \/ role = "RS" /\ OpenPortFails("lookup", d, "restart")
       \/ role = "DNS" /\ OpenDnsFails(d)
  /\ UNCHANGED setupUnchanged

-------------------------------------------------------------------------------
(* Start, after the ports are open *)

RestartProgram ==
  /\ pc = "restart"
  /\ exit_flag' = FALSE
  /\ pc' = "handlers"
  /\ UNCHANGED <<role, fds, listener, handling, stopper, failed, signalled, served>>

HandleSignalInterrupts ==
  /\ pc = "handlers"
  /\ handling' = TRUE
  /\ pc' = "poll_lookup"
  /\ UNCHANGED <<role, fds, listener, exit_flag, stopper, failed, signalled, served>>

\* HandleRequests on the listener for p finds nothing.  On a socket that was
\* never bound, and so never made non-blocking, it waits for ever.
PollNothing(p, next) ==
  /\ listener[p] \in Descriptor
  /\ fds[listener[p]] \in Port
  /\ pc' = next
  /\ UNCHANGED <<role, fds, listener, exit_flag, handling, stopper, failed,
                 signalled, served>>

\* It takes what it finds there for a request to p.
PollRequest(p, next) ==
  /\ listener[p] \in Descriptor
  /\ fds[listener[p]] \in Port
  /\ served' = served \cup {<<fds[listener[p]], p>>}
  /\ pc' = next
  /\ UNCHANGED <<role, fds, listener, exit_flag, handling, stopper, failed, signalled>>

\* Not an open socket: ShutDown, and the assert() around the call fails.
PollError(p) ==
  /\ listener[p] \in Descriptor => fds[listener[p]] \in {"free", "tty"}
  /\ ShutDown(fds, listener)
  /\ pc' = "aborted"
  /\ UNCHANGED <<role, listener, handling, stopper, failed, signalled, served>>

PollLookups ==
  /\ pc = "poll_lookup"
  /\ LET next == IF role = "RS" THEN "poll_regist" ELSE "check"
     IN  PollNothing("lookup", next) \/ PollRequest("lookup", next) \/ PollError("lookup")

\* A registration goes on to UpdateAddress.
PollRegistrations ==
  /\ pc = "poll_regist"
  /\ \/ PollNothing("regist", "check")
     \/ PollRequest("regist", "update")
     \/ PollError("regist")

\* UpdateAddress opens a socket and never closes it.
OpenUpdateSocket ==
  /\ pc = "update"
  /\ \E d \in SocketResults : fds' = Opened(fds, d, "unbound")
  /\ pc' = "check"
  /\ UNCHANGED <<role, listener, exit_flag, handling, stopper, failed, signalled,
                 served>>

\* Wrong: the exit_flag of another source file.
ShouldContinueElsewhere ==
  /\ pc = "check"
  /\ pc' = "poll_lookup"
  /\ UNCHANGED <<role, fds, listener, exit_flag, handling, stopper, failed,
                 signalled, served>>

\* usleep(500), ShouldContinue()
ShouldContinue ==
  /\ pc = "check"
  /\ pc' = IF exit_flag THEN "returned" ELSE "poll_lookup"
  /\ UNCHANGED <<role, fds, listener, exit_flag, handling, stopper, failed,
                 signalled, served>>

Main ==
  \/ OpenRegistration \/ OpenLookup
  \/ RestartProgram \/ HandleSignalInterrupts
  \/ PollLookups \/ PollRegistrations \/ OpenUpdateSocket \/ ShouldContinue

-------------------------------------------------------------------------------
(* What comes from outside the main thread *)

\* Before the handlers are there, SIGINT and SIGTERM end the process.
SignalKills ==
  /\ pc \notin Ended
  /\ ~handling
  /\ pc' = "killed"
  /\ UNCHANGED <<role, fds, listener, exit_flag, handling, stopper, failed,
                 signalled, served>>

\* Wrong: a signal shuts the server down on the spot.
ExitProgramClosing ==
  /\ pc \notin Ended
  /\ handling
  /\ ShutDown(fds, listener)
  /\ signalled' = TRUE
  /\ UNCHANGED <<role, pc, listener, handling, stopper, failed, served>>

ExitProgram ==
  /\ pc \notin Ended
  /\ handling
  /\ exit_flag' = TRUE
  /\ signalled' = TRUE
  /\ UNCHANGED <<role, pc, fds, listener, handling, stopper, failed, served>>

\* A test's thread in ShutDown, one descriptor and one assignment at a time.
StopperCloses(from, p, next) ==
  /\ pc \in Loop \cup {"restart", "handlers"}
  /\ stopper = from
  /\ stopper' = next
  /\ fds' = Closed(fds, {listener[p]})
  /\ UNCHANGED <<role, pc, listener, exit_flag, handling, failed, signalled, served>>

StopperExits ==
  /\ pc \notin Ended
  /\ stopper = "exiting"
  /\ stopper' = "done"
  /\ exit_flag' = TRUE
  /\ UNCHANGED <<role, pc, fds, listener, handling, failed, signalled, served>>

OtherThread ==
  \/ role = "RS" /\ StopperCloses("idle", "regist", "closing")
  \/ role = "RS" /\ StopperCloses("closing", "lookup", "exiting")
  \/ role = "DNS" /\ StopperCloses("idle", "lookup", "exiting")
  \/ StopperExits

Next == Main \/ SignalKills \/ ExitProgram \/ OtherThread

Spec == Init /\ [][Next]_vars

\* The operating system runs the main thread.
FairSpec == Spec /\ WF_vars(Main)

-------------------------------------------------------------------------------
(* Properties *)

\* Unless a port could not be opened or another thread closes the listeners
\* under it, a server is never aborted by the assert() around HandleRequests: a
\* signal at any moment leaves the descriptors alone until the loop is over.
StopsCleanly ==
  pc = "aborted" => failed \/ stopper # "idle"

\* An interrupted server returns from Start: RestartProgram comes before the
\* handlers and never erases a signal, and no poll waits on an open port.  Servers
\* that another thread shuts down are the subject of ShutDownReturns.
EndsWhenTold ==
  signalled ~> (pc = "returned" \/ failed \/ stopper # "idle")

\* The tests of both servers expect Start to return true after another thread's
\* ShutDown: told to exit that way, a server is not aborted by an assertion, and does
\* not wait for ever.  Either happens: README, section 4.
ShutDownReturns ==
  stopper = "done" /\ exit_flag /\ ~signalled ~> (pc \in {"returned", "killed"} \/ failed)

\* A request to one port is never taken for one to the other.  When a port could
\* not be opened, it is: README, section 5.
PortsKeptApart ==
  \A request \in served : request[1] = request[2]

\* The inductive invariant behind StopsCleanly: until something fails, each
\* listener that Start has set is an open socket of its port.
Undisturbed == ~failed /\ stopper = "idle"

ListenersOpen ==
  Undisturbed =>
    /\ pc = "open_lookup" /\ role = "RS" => ListenerOpen("regist")
    /\ pc \notin {"open_regist", "open_lookup"} \cup Ended =>
         /\ role = "RS" => ListenerOpen("regist")
         /\ ListenerOpen("lookup")
    /\ pc = "poll_regist" => role = "RS"
    /\ pc # "aborted"
===============================================================================
