----------------------- MODULE ServerLifecycleProofs -----------------------
(***************************************************************************)
(* The safety of the process's end, for any connections and any grace      *)
(* period.                                                                 *)
(***************************************************************************)
EXTENDS ServerLifecycle, TLAPS

USE LifecycleAssumption DEF LifecycleAssumption

(* What Graceful does not say and its steps rest on: the process lives     *)
(* until it exits, requests are cut by the exit alone, Shutdown is called  *)
(* only after a signal, and until then the channel is not closed, so that  *)
(* the select cannot take the end of the listener for a clean one.         *)
Lives ==
  /\ run = "exited" <=> exit # -1
  /\ (\E c \in Conns : conn[c] = "cut") => run = "exited"
  /\ run = "shutdown" => signalled
  /\ run = "select" => errCh # "closed"
  /\ run = "configure" => listener = "none" /\ errCh = "empty"
  /\ listener = "none" => run \in {"configure", "exited"}

IInv == TypeOK /\ Lives /\ Graceful

-----------------------------------------------------------------------------
(* No step leaves the types: the clock stops at the deadline of Shutdown.  *)
LEMMA TypeStep == TypeOK /\ [Next]_vars => TypeOK'
<1> SUFFICES ASSUME TypeOK, [Next]_vars PROVE TypeOK'
  OBVIOUS
<1>1. CASE Configure BY <1>1 DEF TypeOK, Configure
<1>2. CASE ConfigureFails BY <1>2 DEF TypeOK, ConfigureFails, Exit
<1>3. CASE Bind BY <1>3 DEF TypeOK, Bind
<1>4. CASE ServeFails BY <1>4 DEF TypeOK, ServeFails
<1>5. CASE ServeEnds BY <1>5 DEF TypeOK, ServeEnds
<1>6. CASE Signal BY <1>6 DEF TypeOK, Signal
<1>7. CASE ReceiveSignal
  <2>1. clock' \in 0..Grace BY <1>7 DEF ReceiveSignal
  <2>2. polled' \in BOOLEAN BY <1>7 DEF ReceiveSignal
  <2> QED BY <1>7, <2>1, <2>2 DEF TypeOK, ReceiveSignal
<1>8. CASE ReceiveError BY <1>8 DEF TypeOK, ReceiveError, Exit
<1>9. CASE Poll
  <2>1. CASE \A c \in Conns : conn[c] \in {"new", "active", "idle"} => Idle(c)
    BY <1>9, <2>1 DEF TypeOK, Poll, Exit
  <2>2. CASE ~\A c \in Conns : conn[c] \in {"new", "active", "idle"} => Idle(c)
    BY <1>9, <2>2 DEF TypeOK, Poll
  <2> QED BY <2>1, <2>2
<1>10. CASE GraceExpires BY <1>10 DEF TypeOK, GraceExpires, Exit
<1>11. CASE Tick
  <2>1. clock' \in 0..Grace BY <1>11 DEF TypeOK, Tick
  <2>2. silent' \in [Conns -> 0..NewIdle] BY <1>11 DEF TypeOK, Tick
  <2> QED BY <1>11, <2>1, <2>2 DEF TypeOK, Tick
<1>12. ASSUME NEW c \in Conns, Connect(c) \/ Send(c) \/ Finish(c) PROVE TypeOK'
  BY <1>12 DEF TypeOK, Connect, Send, Finish
<1>13. CASE UNCHANGED vars BY <1>13 DEF TypeOK, vars
<1> QED BY <1>1, <1>2, <1>3, <1>4, <1>5, <1>6, <1>7, <1>8, <1>9, <1>10, <1>11, <1>12, <1>13 DEF Next

(* The exits.  Each is the end of the process, whatever led to it.         *)
LEMMA StepKeepsInv == IInv /\ [Next]_vars => IInv'
<1> SUFFICES ASSUME IInv, [Next]_vars PROVE (Lives /\ Graceful)'
  BY TypeStep DEF IInv
<1> USE DEF IInv
<1>1. CASE Configure BY <1>1 DEF TypeOK, Lives, Graceful, Configure
<1>2. CASE ConfigureFails BY <1>2 DEF TypeOK, Lives, Graceful, ConfigureFails, Exit
<1>3. CASE Bind BY <1>3 DEF TypeOK, Lives, Graceful, Bind
<1>4. CASE ServeFails BY <1>4 DEF TypeOK, Lives, Graceful, ServeFails
<1>5. CASE ServeEnds BY <1>5 DEF TypeOK, Lives, Graceful, ServeEnds
<1>6. CASE Signal BY <1>6 DEF TypeOK, Lives, Graceful, Signal
<1>7. CASE ReceiveSignal BY <1>7 DEF TypeOK, Lives, Graceful, ReceiveSignal
<1>8. CASE ReceiveError
  <2>1. errCh = "error" BY <1>8 DEF TypeOK, Lives, ReceiveError
  <2> QED BY <1>8, <2>1 DEF TypeOK, Lives, Graceful, ReceiveError, Exit
<1>9. CASE Poll
  <2>1. CASE \A c \in Conns : conn[c] \in {"new", "active", "idle"} => Idle(c)
    <3>1. \A c \in Conns : conn[c] # "active"
      BY <2>1 DEF Idle
    <3>2. \A c \in Conns : conn'[c] # "cut"
      BY <1>9, <2>1, <3>1 DEF TypeOK, Lives, Poll, Exit
    <3> QED BY <1>9, <2>1, <3>2 DEF TypeOK, Lives, Graceful, Poll, Exit
  <2>2. CASE ~\A c \in Conns : conn[c] \in {"new", "active", "idle"} => Idle(c)
    BY <1>9, <2>2 DEF TypeOK, Lives, Graceful, Poll
  <2> QED BY <2>1, <2>2
<1>10. CASE GraceExpires BY <1>10 DEF TypeOK, Lives, Graceful, GraceExpires, Exit
<1>11. CASE Tick BY <1>11 DEF TypeOK, Lives, Graceful, Tick
<1>12. ASSUME NEW c \in Conns, Connect(c) \/ Send(c) \/ Finish(c) PROVE (Lives /\ Graceful)'
  BY <1>12 DEF TypeOK, Lives, Graceful, Connect, Send, Finish
<1>13. CASE UNCHANGED vars BY <1>13 DEF TypeOK, Lives, Graceful, vars
<1> QED BY <1>1, <1>2, <1>3, <1>4, <1>5, <1>6, <1>7, <1>8, <1>9, <1>10, <1>11, <1>12, <1>13 DEF Next

LEMMA InitIsSafe == Init => IInv
<1> SUFFICES ASSUME Init PROVE IInv
  OBVIOUS
<1>1. TypeOK
  <2>1. clock \in 0..Grace BY DEF Init
  <2>2. silent \in [Conns -> 0..NewIdle] BY DEF Init
  <2>3. signalled \in BOOLEAN /\ polled \in BOOLEAN BY DEF Init
  <2> QED BY <2>1, <2>2, <2>3 DEF Init, TypeOK
<1>2. Lives /\ Graceful BY DEF Init, Lives, Graceful
<1> QED BY <1>1, <1>2 DEF IInv

(* Type correctness of the life of the process (server.go:106-124).        *)
THEOREM LifecycleTypeCorrect == LifeSpec => []TypeOK
<1>1. Init => TypeOK BY InitIsSafe DEF IInv
<1> QED BY <1>1, TypeStep, PTL DEF LifeSpec

(* The exit code tells the truth (server.go:115-123, main.go:52-57): code  *)
(* 0 only after a signal and with every request answered; code 1 of a      *)
(* server that was configured only for the listener's error or the end of  *)
(* the grace period; and no request is cut by an exit with code 0.         *)
THEOREM EndIsGraceful == LifeSpec => []Graceful
<1>1. IInv => Graceful BY DEF IInv
<1> QED BY <1>1, InitIsSafe, StepKeepsInv, PTL DEF LifeSpec
=============================================================================
