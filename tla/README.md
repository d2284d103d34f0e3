# TLA+ models of Permanent-IP-With-Mobility

The program keeps two applications in contact while the machines they run on
change their IP addresses. A *rendezvous server* knows the present physical
address of every logical address and pushes a change to whoever subscribed; a
*mobile node agent*, a thread inside each application, registers the machine's
address and rewrites the peer's address in the application's socket structure
when an update arrives; a *DNS* says which rendezvous server to ask; *EchoApp*
is the application. Everything is UDP. Paths below are relative to the
repository's `src/` directory.

## 1. Inventory

| Component | State | Operations |
|---|---|---|
| Rendezvous server, `RendezvousServer/SimpleRendezvousServer.*` | `registered_names_` (name -> address), `subscriptions_` (name -> set of subscriber and port), two listening sockets | `HandleRequests` on either port, `UpdateAddress`, `ChangeSubscription`; `Start`, `BeginListening`, `ShutDown` |
| Mobile node, `MobileNode/SimpleMobileNode.*` | `last_known_ip_address_`, `app_sockets_` (socket -> peer's `sockaddr`), `app_socket_messages_` (socket -> messages to resend) | daemon thread: `Start`, `UpdateRendezvousServer`, `PollSubscriptions`; application's thread: `RegisterPeer`, `MessageSent`, `MessageReceived`; both: `ConnectToServer` |
| EchoApp, `Applications/EchoApp.*` | `received_`, `peer_info_` (the same `sockaddr` the mobile node holds), `app_socket_` | `Start`, `ConnectToPeer`, `PrintReceivedData`, `SendMessage`, `ShutDown` |
| DNS, `DNS/SimpleDNS.*` | `registered_names_` (constant once listening), one socket | `HandleRequests`, `LookupName`, `AddName`; `Start`, `BeginListening`, `ShutDown` |
| Utilities, `Common/*.h` | `exit_flag`, one per translation unit | address conversion and discovery, `Trim`, logging, signals |

**Interactions.** A node registers by a datagram to the server's registration
port and blocks until it is answered. An application asks the DNS for the
server (blocking), then sends `subscriber|subscribee` to the server's lookup
port *from its own socket* and takes the next datagram on that socket for the
answer. From then on the server sends updates to that socket, where they queue
up among the peer's messages: the daemon thread peeks at the head of the queue
and takes it if it comes from the server, the application's thread peeks and
takes it if it does not. The two threads share the peer's `sockaddr`, the queue
and the resend buffer without a lock.

**What is hard.** Two threads on one socket; blocking receives without a
timeout; datagrams that are lost, late, overtake each other or arrive at an
address after it has changed hands; registration and subscription by different
threads in no fixed order; subscribing as a toggle; a C++ `operator[]` that
inserts when it should read; restarts of one side; a server whose tables die
with it; processes that end without telling anybody; moves at any moment,
including between reading an address and remembering it; descriptors closed
under the thread that polls them. `PROJECT.json` lists each of these hazards at
its line.

**What makes each part correct.**
Rendezvous server: what it holds is what was registered last, a name never
loses its address, nobody is subscribed to an unknown name, whoever was given
an address is told of changes; it ends when told to, is not aborted by a signal,
and does not confuse its two ports. DNS: the same of its one port.
Mobile node: no move is overlooked; the peer's address is the peer's; the
daemon does not get stuck; neither thread takes what the other peeked at.
EchoApp: a message of its own multiplies only when it is resent, and comes back
while the two are in contact.
Utilities: an address survives its conversion to text and back; the address a
machine takes for its own is its own.
All together: after the last move has been pushed, everybody in contact has the
peer's address; seen from outside, the system is a location service that tells
a subscriber every address of its peer in order.

## 2. Modules

| Module | What it is |
|---|---|
| `Types` | constants shared by all; `IPStringToInt` as far as it matters |
| `RendezvousTables` | the server's two tables and `ChangeSubscription`, `UpdateAddress` |
| `UdpNetwork` | *external*: machines, their addresses, UDP, the application socket's queue |
| `SimpleRendezvousServer` | `HandleRequests` for either port |
| `SimpleDNS` | lookup and handler |
| `SimpleMobileNode` | daemon thread and the calls of the application |
| `EchoApp` | `ConnectToPeer`'s retries and the loop of `Start` |
| `PermanentIP` | composition, movement, restarts, the specifications, the properties, the inductive invariants |
| `Conversation` | properties of the messages between two EchoApps |
| `LocationService` | abstract specification |
| `PermanentIPRefinement` | refinement mapping from `PermanentIP` to it, and the invariant behind it |
| `ServerLifecycle` | either server's process from `main()` to its end: descriptors, asserts, signals |
| `Addressing` | `IntToIPString`, `IPStringToInt`, `GetCurrentIPAddress` on words |
| `PermanentIPProofs`, `CrossTalkProofs`, `SubscriptionProofs` | theorems about `PermanentIP`, each module on top of the one before |
| `RefinementProofs` | the refinement and `Converged`, on top of these |
| `ConversationProofs` | a theorem about `Conversation`, on top of `PermanentIPProofs` |
| `ServerLifecycleProofs`, `AddressingProofs` | theorems about each of these modules |
| `MCPermanentIP`, `MCConversation`, `MCRefinement` | instances for TLC |

The modules from `Types` to `Conversation` are built each on the ones before it
by `EXTENDS`; `LocationService` is instantiated. `ServerLifecycle` and
`Addressing` stand alone: what they model is below the level of the
composition, which takes their result (a server that listens on its ports,
addresses that survive text) for granted. The definitions named `...Swapped`, `...Unchecked`, `...Stale`
and so on, under a comment that begins with "Wrong:", are plausible errors in
the operation that follows them. They are used by no specification; putting
one in the place of its operation must make a property fail, and
`PROJECT.json` says which.

### State and code

* `registered_names_[n]` is `Absent` where the C++ map holds no key and
  `NoAddr` where it holds the empty string. The difference matters:
  `UpdateAddress` reads `registered_names_[i->first]`, which inserts the empty
  string for a subscriber that never registered, and `count()` finds it ever
  after (`NamesAfterUpdate`).
* `update_sockets` counts the sockets `UpdateAddress` opens and never closes;
  `MaxSockets` is how many the process can have.
* `daemon[h]` and `app_thread[h]` are the two threads' program counters. A call
  of `ConnectToServer` is two steps, up to and from its blocking `recvfrom()`;
  where `socket()` may fail (`Failing`) it may also return `""` at once, and the
  daemon goes on as the code does (`RegistrationFails`, `QueryFails`). A round of
  `PollSubscriptions` is a step for every access to what the other thread uses
  too: the peek (`PeekUpdate`), the `recvfrom()` that takes (`TakeUpdate`), the write
  to the shared `sockaddr` (`WriteAddress`), the copy of the buffer
  (`CopyMessages`) and each datagram resent (`Resend`); `NoteAddress` assigns
  `last_known_ip_address_` after it. `buffer` and `unsent` are the locals
  that live across these steps. `PrintReceivedData` is a peek and a take likewise
  (`PeekMessage`, `TakeMessage`), and `sendto()` and `MessageSent()` are two steps.
* Requests carry `from`, the address their answer goes to, and `inc`, the
  process whose vanilla socket waits for it. An answer to an address the machine
  has left, or to a process that is gone, is never received.
* `to_peer` is a bag: a resend can put a second copy of a message in flight.
  The other kinds of datagram are sets, told apart by what they carry
  (registrations by `from` and `inc`, notices by `seq`).
* A keyword is the name of its node: `Applications/EchoApp.h:94-95` assumes that
  no two applications have the same.
* `sent_from`, `resent` (how often daemons resent a text) and `handled` are history
  variables. No guard reads the first two; `handled` orders notices on a network that keeps their order.
* Address 0.0.0.0 (`NoAddr`) as a destination is the sending machine itself. An
  application's datagrams to it come back to its own socket; the server's go to
  its own lookup port (`Deployment/App.Deploy` gives applications port 16000
  too), where they ask for a name nobody has, and are dropped here.
* A restart takes a node to where its application is about to call
  `RegisterPeer`, which is also where `Init` starts. When `socket()` or `bind()`
  failed before, the process ends there instead (`BindFails`), while its daemon,
  started earlier, may have registered already.
* `ProcessEnds` is every way a process ends: its threads and sockets are gone and
  what is in flight to it is lost, but nobody unsubscribes it. A SIGINT does that
  in any state up to `HandleSignalInterrupts`, and in the loop at the end of a
  round (`Interrupted`).
* `ServerRestarts` is `Deployment/Server.Kill` and a new start: both tables are
  empty again, and any of the requests under way may have found nobody.
* In `ServerLifecycle`, `fds` is the process's descriptor table: `socket()`
  returns the lowest free number, or fails; `ShutDown` closes whatever numbers the
  listeners hold, which before `Start` has set them is anything
  (`Uninitialised`). Another thread may run `ShutDown` statement by statement once
  the ports are open, which is what the tests of both servers do
  (`Tests/RendezvousServer/SimpleRendezvousServerTest.cc:21` and `:66`). A
  blocking `recvfrom()` on an unbound socket is a state without a step of `Main`.
* In `Addressing` a text is the sequence of its parts between the dots, and an
  octet has `Base` values. What an interface of another family holds where an
  IPv4 address would be is any word: the code never looks at the family.
* `PeekLens` is what the uninitialised `server_size` at
  `MobileNode/SimpleMobileNode.cc:58` can make of the peek: the sender's whole
  address, a cut one that is not recognised, or an error that ends the daemon.
* `RendezvousServer/SimpleRendezvousServer.cc:105` keeps a pointer into a string
  that is gone at the end of the statement. In the unoptimised build that the
  Makefile makes the characters are still there, and the model uses them.
* `ConnectToServer` makes the application's socket blocking and back; the socket
  is not polled by the daemon at that time, because it is not in `app_sockets_`
  before `RegisterPeer` succeeds, so the flag is not modelled.
* Left out: duplication by the network, several application sockets per node,
  several rendezvous servers, strangers' datagrams, wording and logging.

### Parameters

`MoveRule` says when machines move. The code has no control over that, and what
it guarantees depends on it: `"any"` at any moment, with phases without network;
`"asleep"` only while the machine's own daemon sleeps, whatever the others do;
`"connected"` the same, once every application has found its peer; `"settled"`
only when the last move has been pushed to everybody. `Lossy`: datagrams may be
lost. `InOrder`: the server's notices to one address arrive in the order they
were sent. `Visible`: the addresses `GetCurrentIPAddress` sees (first octet
above 127). `Chatting`: the applications that get past `sleep(5)` into their
loop -- however far their peer is by then, since it may sleep longer between
lookups (`Applications/EchoApp.cc:82`). `Failing`: the nodes on which system calls
may fail. `Restarting`,
`MaxRestarts`: who is restarted, how often. `MaxCrashes`: how often the
rendezvous server is killed and started again. `Interruptible`: whose process may
get a SIGINT. `MaxFd`, `Uninitialised`: the descriptors of a server process and
what its listeners hold before they are set. `Base`, `Words`, `MaxInterfaces`:
values of an octet, what interfaces may hold, how many there are.

## 3. Model checking

All instances of `PermanentIP` have two nodes that are each other's peer, two
addresses each (one for the node that does not move in `restarts`, `echo` and
`v_hangs`), and one port. Two nodes are enough for every pair of roles the code
knows (a node is a subscriber, a subscribee, or both) and for every order of two
registrations, lookups and moves; a third node adds only further pairs, which
share nothing but the server, whose handlers treat names independently; and what
is proved (section 6) is proved for any number of nodes. `MaxSockets = 9` is more
than the registrations of any run, on purpose: what happens at the limit is said
in section 5. `MaxAttempts` is 1 or 0 where the code
has 10: one retry shows what retrying does (a second lookup), none shows giving
up. Deadlock is not checked in these runs and in those of `ServerLifecycle`:
both applications may give up and exit, and a server is meant to end; after that
nothing is left to happen.

| Run | Specification and rule | What it shows |
|---|---|---|
| `restarts` | `RestartSpec`, asleep, 1 move and 1 restart, both of the same node | `TypeOK`, `NoCrossTalk`, `SubscribedOnlyToKnown`, `RegistrationSticks` with datagrams of a former process in flight; `NotedIsRegistered`: no daemon of a first process overlooks a move |
| `settled` | `FairSpec`, settled, 3 moves, notices in order, nothing lost | `Converged`, `ConnectedIsSubscribed`, the refinement `ImplementsLocationService`; `EventuallyInContact`, `UpdateEnds` |
| `chat_lossy` | `Spec`, any, 1 move, loss, reordering, chat, a SIGINT, failing system calls, a crash of the server, every `PeekLens` | `RegisteredIsLastSent`, `NoCrossTalk`, `PeekedIsTaken`, `CopiesAreResends` |
| `echo` | `ChatSpec`, no moves, reordering, both chat | `KeywordReturns`; `CopiesAreResends` and `PeekedIsTaken` with both threads of both nodes at work |
| `lifecycle` | `FairSpec` of `ServerLifecycle`, both servers | `StopsCleanly`: no signal makes the server abort; `EndsWhenTold`: a signal makes it return |
| `addressing` | `Spec` of `Addressing`, up to 3 interfaces of 3 families | `AddressesSurviveText`, `OwnAddressFound` |
| `v_simultaneous` | connected, 2 moves | refutes `Converged` |
| `v_missed_move` | any, 1 move | refutes `NotedIsRegistered` |
| `v_restart` | `RestartSpec`, 1 restart, no move | refutes `ConnectedIsSubscribed` |
| `v_stray` | no moves, one chats before the other is connected | refutes `PeerIsAnAddress` |
| `v_hangs` | `FairSpec`, any, 2 moves | refutes `UpdateEnds` |
| `v_shutdown` | `FairSpec` of `ServerLifecycle` | refutes `ShutDownReturns` |

What the chat runs say of messages: a daemon takes any datagram of the server's
for an update, and resends the buffer; so copies of a keyword multiply even when
nobody moves, when a lookup took the keyword of a peer for its answer (as in
`v_stray`) and the answer came later. `CopiesAreResends` counts them: under
whatever is lost, overtaken or restarted, copies come from `Resend` and from nowhere
else. `PeekedIsTaken` is what the lock that is not there would give: between the
peek and the take of one thread, the other does not empty the queue or change its
head. In `echo` a keyword that a lookup swallowed is gone, so
`KeywordReturns` speaks of those under way while the two applications are in
contact.

Symmetry (the two addresses of a machine are interchangeable, because both are
visible) is used in `restarts` and `chat_lossy`, which check no liveness and no
refinement.

The descriptors of `lifecycle` are 0 to 5: the three the process is born with, the
two listeners, and one for `UpdateAddress`, whose second call then finds none
left. `Uninitialised` has every number that is open, soon to be open, or never
open. `addressing` has octets of four values, so that all carries and the sign of
a word occur among few words; its words cover a first octet in the upper and in
the lower half, zero, the largest word, and small numbers that are interface
indices. Deadlock is checked there: an interface can always be added or taken.

**Fairness** (`FairSpec`). Each thread is weakly fair: it is scheduled by the
operating system, every action of it is enabled until taken except by its own
other actions, and its sleeps end. Delivery to each machine is weakly fair, i.e.
the network delivers what is not lost; with `Lossy = FALSE` a datagram is lost
only when its destination address is nobody's or no longer its receiver's. The
two servers are weakly fair as a whole, which is less than their loops
guarantee (they poll both ports in turn). Nothing is assumed of movement, of
signals or of crashes. In `settled`, `EventuallyInContact` does not count
applications that have ended or whose peer has: retries are bounded by
`MAX_ATTEMPTS`. `UpdateEnds` starts from machines that do not stay offline for
ever. `ChatSpec` adds that a datagram that stays in flight is delivered at last
although others for the same machine keep coming: without it a network that
reorders could overtake one keyword for ever, as the peer's keyword never stops.
In `ServerLifecycle` only the main thread is fair; a thread that calls `ShutDown`
may stop half way, and `ShutDownReturns` speaks of those that have finished.
`EndsWhenTold` leaves out servers that another thread shuts down, of which
`ShutDownReturns` would ask the same: that they do not, `v_shutdown` shows.

**The refinement.** `LocationService` has no servers, threads or datagrams: a
node registers where it is, subscribes to its peer, is `told` a sequence of
addresses, and adopts them one by one. The mapping sends `registered_names_` to
`registered`, `app_sockets_` to `view`, membership in `subscriptions_` to
`subscribed`, and to `told` (`Told`) what a node will read: the texts of what its
socket holds, followed by those of the notices in flight to where it is, in the
order of `seq`. A lost or
reversed update, or a subscription without its answer, is not a step of
`LocationService`. Its `Move` requires that the previous move has reached
everybody: that is what the system needs, not what its README promises.

## 4. Disagreements between documentation and code

* `v_simultaneous`. `README:9-10`: peers are "able to move at the same exact
  time without losing contact". An update is sent once, to the address the
  subscriber is registered under. If the subscriber has just moved, nobody
  receives it and nothing repeats it: one of the two goes on sending to where
  the other no longer is, for good.
* `v_missed_move`. `MobileNode/MobileNode.h:80-82`: the agent's "major function
  is to automatically service out updates in its location". The loop reads the
  address to compare it and reads it again to remember it; a move in between is
  remembered and never registered.
* `v_restart`. `MobileNode/MobileNode.h:53-56`: the mobile node retains the
  `sockaddr` that `RegisterPeer` returns "so that it can transparently update the
  peer's location". A second lookup by the same subscriber, which a restarted
  node makes, returns the address and *removes* it from the list: `RegisterPeer`
  succeeds and no update ever comes.
* `v_stray`. `MobileNode/MobileNode.h:53-56`: `RegisterPeer` returns a `sockaddr`
  the application can use "to send messages to the peer". A message of the
  peer's that arrives before the server's answer is taken for it, and `atoi` turns
  it into 0.0.0.0.
* `v_hangs`. `MobileNode/SimpleMobileNode.h:79-80`: `ConnectToServer` returns `""`
  "if an error occurred". It never does when no answer arrives: a daemon whose
  machine moves, or has no network, while it waits is stuck for good.
* `v_shutdown`. `Tests/RendezvousServer/SimpleRendezvousServerTest.cc:21-22` and `:66`,
  `Tests/DNS/SimpleDNSTest.cc:20` and `:63`: a server that another thread stops with
  `ShutDown` is expected to return true from `Start`. `ShutDown` closes the
  listeners before it sets the flag, and whichever is polled next makes
  `HandleRequests` return false inside an `assert`: the process aborts. Or
  `UpdateAddress` opens its socket in between and gets the number of the
  registration listener, and the next `recvfrom()` waits on it for ever; the property
  excludes that too, the trace TLC prints is the shorter one.
  (`RendezvousServer/RendezvousServer.h:38-39` says a SIGINT calls `ShutDown`; it
  only sets the flag, which is why signals are harmless.)

## 5. Further limits, seen with the same models

Each row changes constants of a configuration above, or gives it another property
to check; TLC finds the property violated. No run of its own is kept.

| Configuration | Property that fails | Why |
|---|---|---|
| `settled`, `InOrder = FALSE` | `Converged` | An update overtakes the answer to the lookup that subscribed its receiver, and is undone by it. |
| `settled`, `MoveRule = "asleep"` | `Converged` | `README:12-13` promises updates to "all subscribers". One that has not registered yet has the empty string for an address, and its update goes to 0.0.0.0 (`RendezvousServer/SimpleRendezvousServer.cc:155`). |
| `settled`, `MoveRule = "asleep"` | `ConnectedIsSubscribed` | The same `operator[]` leaves a registered name with an empty address; a lookup of it subscribes, fails, and unsubscribes when retried. |
| `settled`, `MaxSockets = 2` | `Converged` | `UpdateAddress` opens a socket per registration and closes none (`SimpleRendezvousServer.cc:144`). Without descriptors it sends nothing and reports nothing. |
| `settled`, `MaxCrashes = 1` | `EventuallyInContact`, `ConnectedIsSubscribed` | After a crash the server knows nobody until they move, and a connected application is never subscribed again. What survives is in `chat_lossy`. |
| `settled`, `PeekLens = {"full", "negative"}` | `EventuallyInContact` | `server_size` is uninitialised (`MobileNode/SimpleMobileNode.cc:58`). If it is negative the peek fails, the daemon shuts down, and the application goes on without it. |
| `settled`, `Failing = {a}` | `StartRegisters` | `MobileNode/MobileNode.h:26-31`: `Start` is "responsible for registering the current IP address". Without a socket `ConnectToServer` returns `""`, nobody looks, and the daemon takes its address for registered (`SimpleMobileNode.cc:137`). |
| `restarts` | `RestartedIsRegistered` | `RendezvousServer/RendezvousServer.h:50-51`: the server can "register a new address and, when that node is mobile, update that address". A registration that the killed process had sent may be handled after its successor's, and puts back an address that the machine has left. |
| `restarts`, `Visible = {b1, b2}` | `NotedIsRegistered` | A machine without a visible address always reads -1 and notices no move. |
| `restarts` with `MCSharedHomes`, 2 moves, no restart, no symmetry | `NoCrossTalk` | The server's datagrams name no node; one in flight to an address that changes hands is believed by who has it then. |
| `echo` | `AcknowledgedNotResent` | `MobileNode/MobileNode.h:69-73`: a message received is freed "from the buffer pool" and not resent. `MessageReceived` erases it from a copy (`SimpleMobileNode.cc:183`), and every update resends every message ever sent. |
| `echo`, `MaxMoves = 1` | `NoKeywordLost` | `README:13-15`: "preventing packet loss". An echo goes to the address its message came from, which the sender may have left, and a message enters the buffer only after it was sent (`Applications/EchoApp.cc:163`); what is lost in between is not resent before the next move. |
| `lifecycle` | `PortsKeptApart` | `RendezvousServer/SimpleRendezvousServer.h:66-67` and `:77-78`. When the registration port cannot be opened, `BeginListening` returns `ShutDown`'s `false`, descriptor 0, and `Start` goes on. `ShutDown` has closed what the uninitialised listeners held; if that was 0, the lookup socket gets 0 too, and a lookup may be handled as a registration. (`Start` also erases the exit flag that `ShutDown` set.) |
| `addressing` | `LowestIsFound` | `Common/Utils.h:324-325`: "the lowest specified interface currently available". Every first octet below 128 is passed over, 10.x.x.x as well as the loopback. |
| `addressing` | `FoundIsIPv4` | `Common/Utils.h:327`: "the current IPv4 address". The family is not looked at: a link-level address is taken for one if its index, modulo 256, is above 127, an IPv6 one if its flow label is. |

Two more that the models leave out: `GetCurrentIPAddress` does not free the list of
interfaces when it returns -1 (`Common/Utils.h:344`), and does not look at
`getifaddrs()` failing; `IPStringToInt` shifts by 32 and more on a text of more than
four parts, which C++ leaves undefined, but no address it is given in the program
has them.

## 6. Proofs

Checked by TLAPS for every value of the constants that satisfies the modules'
assumptions -- any number of nodes, any peers, addresses, ports, bounds and
movement rules, unless said otherwise.

| Theorem | Statement |
|---|---|
| `TypeCorrect` | `RestartSpec => []TypeOK` |
| `LastRegistrationHolds` | `RestartSpec => []RegisteredIsLastSent`, which is about each node's first process; server crashes and failing system calls included |
| `NoMoveIsMissed` | `RestartSpec => []NotedIsRegistered` if `MoveRule # "any"` and `Visible = Addresses`; of first processes whose system calls do not fail |
| `NoThreadTakesTheOthers` | `RestartSpec => [](PeekedIsTaken /\ ConnectedForGood)` |
| `RegistrationsStick` | `RestartSpec => RegistrationSticks` |
| `OnlyKnownHaveSubscribers` | `RestartSpec => []SubscribedOnlyToKnown` |
| `UpdatesNeverCross` | `RestartSpec => []NoCrossTalk` if no address can be given to two machines |
| `ConnectedAreSubscribed` | `Spec => []ConnectedIsSubscribed` if machines move by the rule "settled", nobody chats or is interrupted, no system call fails, the server lives, and no address can be given to two machines |
| `LocationsAreServed` | `Spec => ImplementsLocationService` under the conditions of `ConnectedAreSubscribed` if also all addresses are visible, nothing is lost, notices arrive in order, and there are finitely many nodes and a socket of the server for every node and every move |
| `ContactIsKept` | `Spec => []Converged` under the same conditions |
| `CopiesAreCounted` | `RestartSpec => []CopiesAreResends` (`Conversation`), with no further hypothesis |
| `InterruptsAreClean` | `Spec => []StopsCleanly` (`ServerLifecycle`), for any number of descriptors and any uninitialised members |
| `AddressesComeBack` | `Spec => []AddressesSurviveText` (`Addressing`), however many values an octet has |
| `OwnAddressIsFound` | `Spec => []OwnAddressFound` (`Addressing`), however many interfaces, in any order |

*LastRegistrationHolds.* That the server holds the last address is not inductive:
it says nothing about what is in flight. `RegistrationInv` adds that of each node's
first process at most one registration *or* one answer to it is under way, that it
carries the address of the last registration, and that its daemon is then waiting.
This is what blocking in `ConnectToServer` buys: registrations have no sequence
number, and one sent before the last was answered could overtake it. A daemon
without a socket has sent nothing, and has nothing that could overtake. The
invariant also shows that the entries `operator[]` inserts are never for a node
that has registered. A server that was killed may have forgotten the node until it
registers again (`Forgotten`), never hold an older address. Of a later process the
invariant is false -- what the former one sent may be handled last, section 5 --
so property and theorem are about first processes (`Original`), which may share the
system with any number of restarted ones.

*NoMoveIsMissed* adds `LastSentIsNoted`: what the daemon noted is where its last
registration came from, and it is the machine's address except during its sleep.
`v_missed_move` shows that the hypothesis on movement is needed, and the rows
`StartRegisters`, `RestartedIsRegistered` and `Visible` of section 5 that the others
are.

*NoThreadTakesTheOthers*. There is no lock between the peek of one thread and its
take. The invariant is that the two threads divide the queue: once `app_sockets_` has
an entry the application's thread is past `RegisterPeer` for good
(`ConnectedForGood`), so it takes heads that are not the server's only, and the
daemon heads that are; others append behind. Without `ConnectedForGood` the
`recvfrom()` of a lookup, which takes anything, would be in the way.

*UpdatesNeverCross* follows addresses from the machine into a registration, the
table, an update or an answer, the socket's queue and finally `app_sockets_`
(`CrossTalkInv`). Updates do not say which node they are about; the invariant is
that anything addressed to a machine carries an address of *its* peer, because
subscriptions to a name are held by nodes whose peer it is, and because addresses
are not shared. Messages of the peer's read as an answer become 0.0.0.0, never a
third machine's address.

*ConnectedAreSubscribed* is the statement that the toggle in `ChangeSubscription`
does no harm as long as nobody is restarted. A second lookup by a subscriber would
unsubscribe it; so no lookup may be sent after one that subscribed. That depends
on the answer, and `SubscriptionInv` follows it: a node that is subscribed has been,
or is being, told addresses only, so its `RegisterPeer` will not try again
(`SubscribedOnce`); one that is not has at most one answer under way, "unknown",
and none while its lookup is (`UnknownToldOnce`). Two things could break this. An
update could be taken for the answer, which is why updates must be addresses; and
`operator[]` could make a registered name out of an unregistered subscriber, whose
empty string would be told for an address, make the application ask again, and
unsubscribe it. `NoPhantoms` excludes that: before the first move each name is
registered once only, with nobody subscribed to it, and a move by the rule
"settled" comes after every running node has registered. `v_restart`, and
`settled` with the rule "asleep", show that the hypotheses matter. The proof uses
the invariants of the other theorems, for where datagrams can have been sent.

*LocationsAreServed* and *ContactIsKept* rest on one invariant, `ConvergenceInv`, on
top of all the invariants above (`Foundation` in `RefinementProofs`). The abstract
`Move` needs that everybody up has heard everything; the rule "settled" says the
same of threads, tables and datagrams, and `MoveSimulated` shows that it does. For
that, and for every other step, the invariant says where news can be:
at most one node at a time is registered under an address it has left, and its
registration, if under way, brings the present one (`RegistersNews`, `OneBehind`,
`ThreadsEnd`); every notice in flight is to a running node where that node is, with a
number that no later notice has (`NoticesReachable`); and of what a subscriber has
been told, the last -- or, if nothing is left to read, its view -- is the address its
peer is registered under (`Newest`). `Converged` is `Newest` of a node with nothing
left to read. The server's sockets are counted rather than assumed:
`UpdateAddress` opens one for each new registration and never closes it, and each
registration is the first of its name or follows a move of its own
(`SocketsAccounted`), so that `Cardinality(Names) + MaxMoves` descriptors are enough;
section 5 shows what happens with fewer. `Ordered` picks the one order that the
numbers of the notices allow (`OrderUnique`): a new notice is appended to it
(`OrderedMore`), and on a network that keeps order the one delivered is its first
(`OrderedLess`). Without `InOrder` or with loss the last notice read would not be the last
sent. What the simulation shows of each action is in the lemmas `...Simulated`: both
daemon and application read by `Learn`, a registration handled is `Register`, a
lookup that subscribes is `Subscribe`, everything else but movement and giving up
is a stutter. The conditions are those of the run `settled`, in which TLC checks
both properties.

*CopiesAreCounted*. Copies of a keyword are counted where they are, in flight and in
the queues, as elements of a finite set (`Countable`). Every step keeps the balance
(`Balance`): sending the keyword uses up `received_`, an echo takes one copy off the
queue and puts one in flight, delivery moves one, loss and the end of a process take
some away, `Resend` adds one and counts it in `resent`, and a restart, which sets
`received_` again while copies of the former process are about, counts in
`incarnation`. `PeekInv` is needed beneath it, because a thread that took something
other than it peeked at could echo what is no keyword.

*InterruptsAreClean*: until a port fails to open or another thread steps in, each
listener that is set is an open socket of its own port (`ListenersOpen`), so that
the error branch of `HandleRequests`, and with it the assert, is out of reach: a
signal changes the flag and nothing else.

*AddressesComeBack* is arithmetic: shifting twice is shifting once
(`QuotientOfQuotient`), so the four octets are the digits of the word in base
`Base`, 256 in the code; their weighted sum is the word, which is below the fourth
power of `Base`, so that the wrap-around of the unsigned sum does nothing.

*OwnAddressIsFound*: the loop returns at the first interface with a first octet above
127, or finds none. If what is before an interface is harmless -- without an
address, with a link-level index or a flow label that does not pass the test -- and
has no such IPv4 address, the interface is the first that is eligible.

*What the proofs cover.* Each safety property of a passing run of `PermanentIP` or
`Conversation` is proved. For the specification of the run and with no condition but
those of the table: `TypeOK`, `RegistrationSticks`, `SubscribedOnlyToKnown`,
`RegisteredIsLastSent`, `PeekedIsTaken`, `CopiesAreResends` (`RestartSpec`, any
movement), `NotedIsRegistered` (`RestartSpec`, moves asleep), `NoCrossTalk`
(`RestartSpec`, disjoint homes). `Converged`, `ConnectedIsSubscribed` and the
refinement are proved for `Spec` under the conditions of `settled` only; with chat,
loss, restarts, crashes or another rule they are not proved, and sections 4 and 5 say
where they fail. `StopsCleanly`, `AddressesSurviveText` and `OwnAddressFound` are
proved for the specification their runs check. *Only model-checked* is
liveness (`EventuallyInContact`, `UpdateEnds`, `KeywordReturns`, `EndsWhenTold`):
fairness and `ENABLED` are out of the prover's reach.

## 7. Not modelled

* The vendored googletest (`ext/googletest`) and lint. They are third-party code,
  some 60,000 of the repository's 62,000 lines of C and C++ outside the tests; the
  program itself has about 2,000, comments included, of which the modules above
  cover the part that has state.
* Logging, which is output only; `Die`, which ends a process with wrong arguments;
  `Trim` and `IntToIPName`, which no code but tests calls.
* Command lines and deployment scripts: they have no state of their own. What
  they start and kill is in the composition.
* Tests: read for what they promise.
* The data race inside the containers that both threads of a node use
  (`MobileNode/SimpleMobileNode.cc:124` against the daemon's iteration). Each map
  operation is one step; what a torn container does has no abstraction short of
  "anything".
* TCP (`TCP_APPLICATION`): every branch shuts the component down or returns at
  once, and the build does not define it.

## 8. What is left

Everything that keeps state is modelled. What would add to it:

1. Several application sockets per node, so that one update reaches all of them:
   `PollSubscriptions` iterates over `app_sockets_`, but no application in the
   repository registers more than one.
2. Several rendezvous servers, once the code asks more than one
   (`RendezvousServer/SimpleRendezvousServer.cc:148-151` has it as a todo).
