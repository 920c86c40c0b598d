-------------------------- MODULE ServerLifecycle --------------------------
(***************************************************************************)
(* The life of the process: main, New and Run of pkg/server/server.go.     *)
(* The listener's goroutine, the select over the signal and the listener's *)
(* error, the shutdown with its grace period, and the exit code.           *)
(*                                                                         *)
(* http.Server is not in the repository.  Its Shutdown closes the listener *)
(* and looks again and again, at least once a tick, for connections that   *)
(* are idle, which it closes, until none is left or the context is done. A *)
(* connection on which nothing was sent counts as idle after NewIdle ticks.*)
(***************************************************************************)
EXTENDS Integers, FiniteSets

CONSTANTS Conns,      \* connections of clients
          Grace,      \* ticks Shutdown is given: 5 s
          NewIdle     \* ticks after which a silent connection is idle

ASSUME LifecycleAssumption == Grace \in Nat \ {0} /\ NewIdle \in Nat \ {0}

VARIABLES run,        \* where main is
          listener,   \* the goroutine of ListenAndServe
          errCh,      \* its channel: empty, an error in it, or closed
          signalled,  \* ctx is done
          conn,       \* each connection; "cut" if its request had no answer
          silent,     \* ticks a new connection has been silent, up to NewIdle
          clock,      \* ticks since Shutdown was called
          polled,     \* Shutdown has looked since the last tick
          exit        \* the exit code, -1 while the process lives

vars == <<run, listener, errCh, signalled, conn, silent, clock, polled, exit>>

TypeOK ==
  /\ run \in {"configure", "select", "shutdown", "exited"}
  /\ listener \in {"none", "starting", "serving", "ended"}
  /\ errCh \in {"empty", "error", "closed"}
  /\ signalled \in BOOLEAN /\ polled \in BOOLEAN
  /\ conn \in [Conns -> {"none", "new", "active", "idle", "closed", "cut"}]
  /\ silent \in [Conns -> 0..NewIdle]
  /\ clock \in 0..Grace
  /\ exit \in {-1, 0, 1}

Init ==
  /\ run = "configure" /\ listener = "none" /\ errCh = "empty" /\ signalled = FALSE
  /\ conn = [c \in Conns |-> "none"] /\ silent = [c \in Conns |-> 0]
  /\ clock = 0 /\ polled = FALSE /\ exit = -1

-----------------------------------------------------------------------------
(* The process ends: requests under way are cut, the rest is closed.       *)
Exit(code) ==
  /\ run' = "exited" /\ exit' = code
  /\ conn' = [c \in Conns |-> CASE conn[c] = "active" -> "cut"
                                [] conn[c] \in {"new", "idle"} -> "closed"
                                [] OTHER -> conn[c]]

(* New: one client that cannot be built ends the program.  Then the signal *)
(* is subscribed to and Run starts the goroutine.                          *)
Configure ==
  /\ run = "configure"
  /\ run' = "select" /\ listener' = "starting"
  /\ UNCHANGED <<errCh, signalled, conn, silent, clock, polled, exit>>

ConfigureFails ==
  /\ run = "configure"
  /\ Exit(1)
  /\ UNCHANGED <<listener, errCh, signalled, silent, clock, polled>>

(* The goroutine: it serves, or it has an error for the channel; after     *)
(* Shutdown its error is ErrServerClosed and it only closes the channel.   *)
Bind ==
  /\ listener = "starting" /\ run = "select"
  /\ listener' = "serving"
  /\ UNCHANGED <<run, errCh, signalled, conn, silent, clock, polled, exit>>

MutServeFails ==
  /\ listener \in {"starting", "serving"} /\ run = "select"
  /\ listener' = "ended" /\ errCh' = "closed"
  /\ UNCHANGED <<run, signalled, conn, silent, clock, polled, exit>>
ServeFails ==
  /\ listener \in {"starting", "serving"} /\ run = "select"
  /\ listener' = "ended" /\ errCh' = "error"
  /\ UNCHANGED <<run, signalled, conn, silent, clock, polled, exit>>

ServeEnds ==
  /\ listener \in {"starting", "serving"} /\ run = "shutdown"
  /\ listener' = "ended" /\ errCh' = "closed"
  /\ UNCHANGED <<run, signalled, conn, silent, clock, polled, exit>>

(* The signal.  A second one changes nothing: ctx is done already and the  *)
(* default action stays suppressed until cancel.                           *)
Signal ==
  /\ run \in {"select", "shutdown"}
  /\ signalled' = TRUE
  /\ UNCHANGED <<run, listener, errCh, conn, silent, clock, polled, exit>>

(* The select; if both are ready either may be taken.                      *)
MutReceiveSignal ==
  /\ run = "select" /\ signalled
  /\ Exit(0)
  /\ UNCHANGED <<listener, errCh, signalled, silent, clock, polled>>
ReceiveSignal ==
  /\ run = "select" /\ signalled
  /\ run' = "shutdown" /\ clock' = 0 /\ polled' = FALSE
  /\ UNCHANGED <<listener, errCh, signalled, conn, silent, exit>>

ReceiveError ==
  /\ run = "select" /\ errCh # "empty"
  /\ Exit(IF errCh = "error" THEN 1 ELSE 0)
  /\ UNCHANGED <<listener, errCh, signalled, silent, clock, polled>>

-----------------------------------------------------------------------------
(* Shutdown.                                                               *)
Idle(c) == conn[c] = "idle" \/ (conn[c] = "new" /\ silent[c] = NewIdle)

Poll ==
  /\ run = "shutdown" /\ ~polled
  /\ polled' = TRUE
  /\ IF \A c \in Conns : conn[c] \in {"new", "active", "idle"} => Idle(c)
       THEN Exit(0)
       ELSE /\ conn' = [c \in Conns |-> IF Idle(c) THEN "closed" ELSE conn[c]]
            /\ UNCHANGED <<run, exit>>
  /\ UNCHANGED <<listener, errCh, signalled, silent, clock>>

(* The context of Shutdown is one of its own, with the grace period: that  *)
(* of Run is done already.                                                 *)
MutGraceExpiresWhenIdle ==
  /\ run = "shutdown" /\ clock = Grace /\ \A c \in Conns : conn[c] # "active"
  /\ Exit(1)
  /\ UNCHANGED <<listener, errCh, signalled, silent, clock, polled>>
MutGraceExpires ==
  /\ run = "shutdown" /\ signalled
  /\ Exit(1)
  /\ UNCHANGED <<listener, errCh, signalled, silent, clock, polled>>
GraceExpires ==
  /\ run = "shutdown" /\ clock = Grace
  /\ Exit(1)
  /\ UNCHANGED <<listener, errCh, signalled, silent, clock, polled>>

(* Time.  Without a deadline it would go on for as long as a request does. *)
MutTick ==
  /\ run = "shutdown" /\ polled
  /\ clock' = clock + 1 /\ polled' = FALSE
  /\ silent' = [c \in Conns |-> IF conn[c] = "new" /\ silent[c] < NewIdle
                                  THEN silent[c] + 1 ELSE silent[c]]
  /\ UNCHANGED <<run, listener, errCh, signalled, conn, exit>>
Tick ==
  /\ run = "select" \/ (run = "shutdown" /\ polled /\ clock < Grace)
  /\ clock' = IF run = "shutdown" THEN clock + 1 ELSE clock
  /\ polled' = FALSE
  /\ silent' = [c \in Conns |-> IF conn[c] = "new" /\ silent[c] < NewIdle
                                  THEN silent[c] + 1 ELSE silent[c]]
  /\ UNCHANGED <<run, listener, errCh, signalled, conn, exit>>

-----------------------------------------------------------------------------
(* The clients: a connection, a request on it which lasts as long as it    *)
(* lasts, another request.  After a request of a server shutting down the  *)
(* connection is closed.                                                   *)
Connect(c) ==
  /\ listener = "serving" /\ run = "select" /\ conn[c] = "none"
  /\ conn' = [conn EXCEPT ![c] = "new"]
  /\ UNCHANGED <<run, listener, errCh, signalled, silent, clock, polled, exit>>

Send(c) ==
  /\ run \in {"select", "shutdown"} /\ conn[c] \in {"new", "idle"}
  /\ conn' = [conn EXCEPT ![c] = "active"]
  /\ UNCHANGED <<run, listener, errCh, signalled, silent, clock, polled, exit>>

Finish(c) ==
  /\ run \in {"select", "shutdown"} /\ conn[c] = "active"
  /\ conn' = [conn EXCEPT ![c] = IF run = "shutdown" THEN "closed" ELSE "idle"]
  /\ UNCHANGED <<run, listener, errCh, signalled, silent, clock, polled, exit>>

Next ==
  \/ Configure \/ ConfigureFails \/ Bind \/ ServeFails \/ ServeEnds
  \/ Signal \/ ReceiveSignal \/ ReceiveError \/ Poll \/ GraceExpires \/ Tick
  \/ \E c \in Conns : Connect(c) \/ Send(c) \/ Finish(c)

(* The program and the clock go on; signals, errors of the listener and    *)
(* clients may come or not.                                                *)
LifeSpec ==
  /\ Init /\ [][Next]_vars
  /\ WF_vars(Configure \/ ConfigureFails) /\ WF_vars(ReceiveSignal \/ ReceiveError)
  /\ WF_vars(Poll) /\ WF_vars(GraceExpires) /\ WF_vars(Tick)

-----------------------------------------------------------------------------
(* Code 0 means that somebody asked for the end and no request was cut; a  *)
(* request is cut only if the listener failed or the grace period is over, *)
(* and only these, or a client that could not be built, make the code 1.   *)
Graceful ==
  /\ exit = 0 => signalled /\ \A c \in Conns : conn[c] # "cut"
  /\ exit = 1 /\ listener # "none" => errCh = "error" \/ (signalled /\ clock = Grace)
  /\ \A c \in Conns : conn[c] = "cut" => exit = 1

(* A signal ends the process, however long the requests last.              *)
SignalEndsIt == signalled ~> exit # -1
=============================================================================
