------------------------------- MODULE Server -------------------------------
(***************************************************************************)
(* Processes of `masuda serve` over one socket and one data directory:     *)
(* what each does from Start (serve/serve.go) to the end of Stop, and how  *)
(* it checks the sandbox service it talks to (serve/sandbox.go).           *)
(*                                                                         *)
(* A member of Procs is one life of a process.  The socket is a name in a  *)
(* directory: it leads to the process that bound it, alive or not, and     *)
(* every removal is by name, that of a Unix listener that closes (net,     *)
(* unlinkOnClose) included.  A step is one system call or one call of the  *)
(* service.  A request stands for Run and Resume, the ones that start      *)
(* something that outlives them.                                           *)
(***************************************************************************)
EXTENDS Naturals

CONSTANTS Procs,    \* lives of processes
          MaxAsks,  \* bound: requests
          MaxSwaps  \* bound: the service is stopped, started or replaced

Nobody == "nobody"
ASSUME ProcsAssumption == Nobody \notin Procs
ASSUME ServerBoundsAssumption == {MaxAsks, MaxSwaps} \subseteq Nat

\* The socket alone; a loopback port too; a port of another interface; a file that
\* does not parse, or has a value out of range.
Configs == {"socket", "port", "outside", "broken"}

\* The service: built from the same sandbox.proto, from another one, or too old
\* for GetServerInfo; or not there.
Services == {"same", "other", "old", "down"}

VARIABLES
    config,   \* config.json: see Configs
    sock,     \* the process that bound the file at the socket's name
    port,     \* the process that listens on the loopback port
    at,       \* where each process stands
    seen,     \* whose file it found stale
    req,      \* the request it handles
    boot,     \* what goBackground runs for it
    service,  \* the sandbox service
    asks, swaps,
    mishap    \* history: see Mishaps

procVars == <<at, seen, req, boot>>
serverVars == <<config, sock, port, procVars, service, asks, swaps, mishap>>

\* raced     a start removed a socket that another start had bound since it looked
\* closing   a start bound the name while a process that stops was still at work
\* unlinked  a process that stops removed the socket of the next one
\* cut       a process ended with a request it had not waited for
\* swapped   the service was replaced between the check and the boot
Mishaps == {"raced", "closing", "unlinked", "cut", "swapped"}

Listening == {"recover", "serving", "stopping"}   \* the socket is bound and open
Open == Listening \cup {"draining", "closing"}    \* the backend exists

ServerTypeOK ==
    /\ config \in Configs
    /\ {sock, port} \subseteq Procs \cup {Nobody}
    /\ at \in [Procs -> {"off", "look", "remove", "connect", "port", "bind", "unlink", "ended"} \cup Open]
    /\ seen \in [Procs -> Procs \cup {Nobody}]
    /\ req \in [Procs -> {"none", "arrived", "checked"}]
    /\ boot \in [Procs -> BOOLEAN]
    /\ service \in Services
    /\ asks \in 0..MaxAsks /\ swaps \in 0..MaxSwaps
    /\ mishap \subseteq Mishaps

ServerInit ==
    /\ config \in Configs
    /\ sock = Nobody /\ port = Nobody
    /\ at = [p \in Procs |-> "off"]
    /\ seen = [p \in Procs |-> Nobody]
    /\ req = [p \in Procs |-> "none"]
    /\ boot = [p \in Procs |-> FALSE]
    /\ service \in Services
    /\ asks = 0 /\ swaps = 0 /\ mishap = {}

Goes(p, to) == at' = [at EXCEPT ![p] = to]

\* What the process has open and running ends with it; the file stays.
Ends(p) ==
    /\ Goes(p, "ended")
    /\ port' = IF port = p THEN Nobody ELSE port
    /\ req' = [req EXCEPT ![p] = "none"]
    /\ boot' = [boot EXCEPT ![p] = FALSE]

Works(p) == at[p] \in Open \/ req[p] # "none" \/ boot[p]

(***************************************************************************)
(* Start                                                                   *)
(***************************************************************************)

\* No port of another interface.
CheckLoopback == config # "outside"

LoadServe == CheckLoopback /\ config # "broken"

\* runServe: the configuration is read and checked before anything else.
Launch(p) ==
    /\ at[p] = "off"
    /\ Goes(p, IF LoadServe THEN "look" ELSE "ended")
    /\ UNCHANGED <<config, sock, port, seen, req, boot, service, asks, swaps, mishap>>

\* Mutant: the socket is removed without dialling it.
LookOnly(p) ==
    /\ at[p] = "look"
    /\ \/ sock = Nobody /\ Goes(p, "connect") /\ UNCHANGED seen
       \/ sock # Nobody /\ Goes(p, "remove") /\ seen' = [seen EXCEPT ![p] = sock]
    /\ UNCHANGED <<config, sock, port, req, boot, service, asks, swaps, mishap>>

\* removeStaleSocket: whoever listens at the name keeps it; a file that nobody
\* listens on is going to be removed.
Look(p) ==
    /\ at[p] = "look"
    /\ \/ sock = Nobody /\ Goes(p, "connect") /\ UNCHANGED seen
       \/ sock # Nobody /\ at[sock] \in Listening /\ Goes(p, "ended") /\ UNCHANGED seen
       \/ /\ sock # Nobody /\ at[sock] \notin Listening
          /\ Goes(p, "remove") /\ seen' = [seen EXCEPT ![p] = sock]
    /\ UNCHANGED <<config, sock, port, req, boot, service, asks, swaps, mishap>>

\* os.Remove, by name.  If another start has removed the file, this one ends.
RemoveStaleSocket(p) ==
    /\ at[p] = "remove"
    /\ sock' = Nobody
    /\ Goes(p, IF sock = Nobody THEN "ended" ELSE "connect")
    /\ mishap' = mishap \cup (IF sock \notin {Nobody, seen[p]} THEN {"raced"} ELSE {})
    /\ UNCHANGED <<config, port, seen, req, boot, service, asks, swaps>>

\* SandboxInfo and CheckContract: what GetServerInfo returned, and whether the
\* service may be used.
SandboxInfo == CASE service = "down" -> "unavailable"
                 [] service = "old"  -> "failedPrecondition"
                 [] OTHER            -> "info"

CheckContract == SandboxInfo = "info" /\ service = "same"

\* connectSandbox and the check: a service that cannot be reached does not keep
\* serve from starting, another contract does.
Connect(p) ==
    /\ at[p] = "connect"
    /\ Goes(p, IF CheckContract \/ SandboxInfo = "unavailable" THEN "port" ELSE "ended")
    /\ UNCHANGED <<config, sock, port, seen, req, boot, service, asks, swaps, mishap>>

\* net.Listen of the loopback port, if there is one.
ListenPort(p) ==
    /\ at[p] = "port"
    /\ \/ config = "socket" /\ Goes(p, "bind") /\ UNCHANGED port
       \/ config = "port" /\ port = Nobody /\ Goes(p, "bind") /\ port' = p
       \/ config = "port" /\ port # Nobody /\ Goes(p, "ended") /\ UNCHANGED port
    /\ UNCHANGED <<config, sock, seen, req, boot, service, asks, swaps, mishap>>

\* Mutant: a start that cannot bind cleans the socket up.
BindOrUnlink(p) ==
    /\ at[p] = "bind"
    /\ IF sock = Nobody
       THEN /\ sock' = p /\ Goes(p, "recover")
            /\ mishap' = mishap \cup (IF \E q \in Procs : at[q] \in {"draining", "closing"}
                                     THEN {"closing"} ELSE {})
            /\ UNCHANGED <<port, req, boot>>
       ELSE Ends(p) /\ sock' = Nobody /\ UNCHANGED mishap
    /\ UNCHANGED <<config, seen, service, asks, swaps>>

\* net.Listen of the socket: the name must be free.
Bind(p) ==
    /\ at[p] = "bind"
    /\ IF sock = Nobody
       THEN /\ sock' = p /\ Goes(p, "recover")
            /\ mishap' = mishap \cup (IF \E q \in Procs : at[q] \in {"draining", "closing"}
                                     THEN {"closing"} ELSE {})
            /\ UNCHANGED <<port, req, boot>>
       ELSE Ends(p) /\ UNCHANGED <<sock, mishap>>
    /\ UNCHANGED <<config, seen, service, asks, swaps>>

\* A listener that closes removes its name, whoever has it by now.
Unlinks(p) ==
    /\ sock' = Nobody
    /\ mishap' = mishap \cup (IF sock \notin {Nobody, p} /\ at[sock] \in Listening
                             THEN {"unlinked"} ELSE {})

\* newBackend and recoverInterrupted, which may fail; then the handlers serve.
Recover(p) ==
    /\ at[p] = "recover"
    /\ \/ Goes(p, "serving") /\ UNCHANGED <<sock, port, req, boot, mishap>>
       \/ Unlinks(p) /\ Ends(p)
    /\ UNCHANGED <<config, seen, service, asks, swaps>>

(***************************************************************************)
(* Requests                                                                *)
(***************************************************************************)

\* A client reaches the process by the socket or by the port.
Ask(p) ==
    /\ asks < MaxAsks /\ req[p] = "none"
    /\ \/ sock = p /\ at[p] \in {"serving", "stopping"}
       \/ port = p /\ at[p] = "serving"
    /\ req' = [req EXCEPT ![p] = "arrived"]
    /\ asks' = asks + 1
    /\ UNCHANGED <<config, sock, port, at, seen, boot, service, swaps, mishap>>

\* Mutant: the service was checked when serve started.
CheckedAtStart(p) ==
    /\ req[p] = "arrived"
    /\ req' = [req EXCEPT ![p] = "checked"]
    /\ UNCHANGED <<config, sock, port, at, seen, boot, service, asks, swaps, mishap>>

\* checkSandbox, before Run and Resume do anything.
CheckSandbox(p) ==
    /\ req[p] = "arrived"
    /\ req' = [req EXCEPT ![p] = IF CheckContract THEN "checked" ELSE "none"]
    /\ UNCHANGED <<config, sock, port, at, seen, boot, service, asks, swaps, mishap>>

\* goBackground: the boot goes on after the request has returned.
GoBackground(p) ==
    /\ req[p] = "checked"
    /\ req' = [req EXCEPT ![p] = "none"]
    /\ boot' = [boot EXCEPT ![p] = TRUE]
    /\ UNCHANGED <<config, sock, port, at, seen, service, asks, swaps, mishap>>

\* The boot creates its VM, fails, or finds its ctx cancelled.
BootEnds(p) ==
    /\ boot[p]
    /\ boot' = [boot EXCEPT ![p] = FALSE]
    /\ UNCHANGED <<config, sock, port, at, seen, req, service, asks, swaps, mishap>>

(***************************************************************************)
(* Stop                                                                    *)
(***************************************************************************)

\* A signal, or the end of Serve: Shutdown of the port's server comes first.
StopBegins(p) ==
    /\ at[p] = "serving"
    /\ Goes(p, "stopping")
    /\ port' = IF port = p THEN Nobody ELSE port
    /\ UNCHANGED <<config, sock, seen, req, boot, service, asks, swaps, mishap>>

\* Shutdown closes the listener of the socket.
CloseListener(p) ==
    /\ at[p] = "stopping"
    /\ Goes(p, "draining") /\ Unlinks(p)
    /\ UNCHANGED <<config, port, seen, req, boot, service, asks, swaps>>

\* Shutdown waits for the requests it knows of, for five seconds at the most, and
\* not for those whose connection h2c has taken over.
Drained(p) ==
    /\ at[p] = "draining"
    /\ Goes(p, "closing")
    /\ mishap' = mishap \cup (IF req[p] # "none" THEN {"cut"} ELSE {})
    /\ UNCHANGED <<config, sock, port, seen, req, boot, service, asks, swaps>>

\* backend.close cancels what runs in the background and waits for it.
CloseBackend(p) ==
    /\ at[p] = "closing" /\ ~boot[p]
    /\ Goes(p, "unlink")
    /\ UNCHANGED <<config, sock, port, seen, req, boot, service, asks, swaps, mishap>>

\* The last of Stop removes the socket again; then the process ends.
RemoveSocket(p) ==
    /\ at[p] = "unlink"
    /\ Unlinks(p) /\ Ends(p)
    /\ UNCHANGED <<config, seen, service, asks, swaps>>

(***************************************************************************)
(* The environment                                                         *)
(***************************************************************************)

Crash(p) ==
    /\ at[p] \notin {"off", "ended"}
    /\ Ends(p)
    /\ UNCHANGED <<config, sock, seen, service, asks, swaps, mishap>>

\* The sandbox service is stopped, started, or replaced by another release.
Swap(s) ==
    /\ swaps < MaxSwaps /\ s # service
    /\ service' = s /\ swaps' = swaps + 1
    /\ mishap' = mishap \cup (IF \E p \in Procs : req[p] = "checked" \/ boot[p] THEN {"swapped"} ELSE {})
    /\ UNCHANGED <<config, sock, port, procVars, asks>>

ServerNext ==
    \/ \E p \in Procs :
        \/ Launch(p) \/ Look(p) \/ RemoveStaleSocket(p) \/ Connect(p) \/ ListenPort(p) \/ Bind(p) \/ Recover(p)
        \/ CheckSandbox(p) \/ GoBackground(p) \/ BootEnds(p)
        \/ StopBegins(p) \/ CloseListener(p) \/ Drained(p) \/ CloseBackend(p) \/ RemoveSocket(p)
        \/ Crash(p) \/ Ask(p)
    \/ \E s \in Services : Swap(s)

ServerSpec == ServerInit /\ [][ServerNext]_serverVars

(***************************************************************************)
(* Properties                                                              *)
(***************************************************************************)

\* One process at a time works on the data directory, from the moment it binds
\* the socket until its last request and its last boot are over
\* (serve/serve.go, removeStaleSocket: another serve's socket is not taken).
OneServeUnlessMishap ==
    mishap \cap {"raced", "closing", "unlinked", "cut"} = {} =>
        \A p, q \in Procs : p # q /\ at[p] \in Open => ~Works(q)

\* A process that serves is the one a client finds at the socket: no start that is
\* refused, and no end of another process, takes its name away
\* (serve/serve.go, Start, Stop).
ServingIsReachedUnlessMishap ==
    mishap \cap {"raced", "closing", "unlinked"} = {} =>
        \A p \in Procs : at[p] \in Listening => sock = p

\* A boot goes to a service that was built from the same sandbox.proto, even one
\* that was not there when serve started (serve/sandbox.go, checkSandbox).
BootsOnOwnContractUnlessMishap ==
    "swapped" \notin mishap =>
        \A p \in Procs : boot[p] => service = "same"

\* The two above: one process serves a data directory, and clients find it.
OneServeIsReachedUnlessMishap == OneServeUnlessMishap /\ ServingIsReachedUnlessMishap
=============================================================================
