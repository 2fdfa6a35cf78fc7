-------------------------- MODULE ServerLifecycle ---------------------------
(***************************************************************************)
(* Server.Run: the daemon from its start to its exit.  One goroutine per   *)
(* listener serves and then sends its result to a channel; the main one    *)
(* waits for the first result or for a signal and shuts the listeners      *)
(* down, one after another, within one deadline for all of them.           *)
(*                                                                         *)
(* Listeners are given by the order of their shutdown, in which keyVault   *)
(* is first and management last.  Each has at most one request in progress *)
(* at a time.  The daemon is started again after an exit or a kill, and    *)
(* meets the certificate and the key that the last one, or tinycloud env   *)
(* terraform, has left.                                                    *)
(***************************************************************************)
EXTENDS Naturals, FiniteSets, Sequences, SequencesExt

CONSTANTS
  Order,          \* the listeners, in the order of their shutdown
  Tls, Dns,       \* those of the management service on TLS and of DNS
  Capacity,       \* of errCh
  MaxStart,       \* bound on the number of starts of the daemon and of calls of
                  \* tinycloud env terraform
  MaxFault        \* bound on the number of kills and of listeners that fail

Listeners == ToSet(Order)

ASSUME ServerAssumption ==
  /\ Order \in Seq(Listeners) /\ Order # <<>> /\ IsInjective(Order)
  /\ Capacity \in Nat /\ Len(Order) <= Capacity
  /\ Tls \in Listeners /\ Tls # Dns
  /\ MaxStart \in Nat /\ MaxFault \in Nat

VARIABLES
  cert, key, ensure, mine, pairs, overlap, spoiled,  \* see CertificatePair
  main,      \* where the main goroutine is
  next,      \* the place in Order of the next listener to shut down
  err,       \* the error that Run returns, or "nil"
  listener,  \* per listener, where its goroutine is
  errCh,     \* the results sent; one of them is received at most
  down,      \* the HTTP listeners whose Shutdown has been called
  open,      \* the listeners with a request in progress
  late,      \* the deadline of the shutdown has passed
  asked,     \* a signal has come
  served,    \* the pair that the TLS listener has loaded
  starts,    \* number of starts of the daemon and of calls of env terraform
  faults,    \* number of kills and of listeners that failed
  \* history, read by no guard
  early      \* Close came before the DNS listener had stored its connection

(* The daemon, and a command in a process of its own. *)
Processes == {"daemon", "cli"}

Pair == INSTANCE CertificatePair

certificates == <<cert, key, ensure, mine, pairs, overlap, spoiled>>
process == <<main, next, err, listener, errCh, down, open, late, asked, served, early>>
bounds == <<starts, faults>>
vars == <<certificates, process, bounds>>

In(place) == main = place

Main(place) == main' = place /\ UNCHANGED <<next, err>>

Stopping == In("graceful") \/ In("failing")

NoProcess ==
  /\ main' = "down" /\ next' = 1 /\ err' = "nil"
  /\ listener' = [l \in Listeners |-> "off"]
  /\ errCh' = {}
  /\ down' = {} /\ open' = {} /\ late' = FALSE /\ asked' = FALSE
  /\ served' = 0 /\ early' = FALSE

Init ==
  /\ Pair!Init
  /\ main = "down" /\ next = 1 /\ err = "nil"
  /\ listener = [l \in Listeners |-> "off"]
  /\ errCh = {}
  /\ down = {} /\ open = {} /\ late = FALSE /\ asked = FALSE
  /\ served = 0 /\ early = FALSE
  /\ starts = 0 /\ faults = 0

-----------------------------------------------------------------------------
(* The main goroutine. *)

Boot ==
  /\ In("down")
  /\ starts < MaxStart /\ starts' = starts + 1
  /\ Main("init")
  /\ UNCHANGED <<certificates, listener, errCh, down, open, late, asked, served, early, faults>>

(* Kills and failures are bounded. *)
Fault == faults < MaxFault /\ faults' = faults + 1

ReturnError == main' = "returned" /\ err' = "error" /\ UNCHANGED next

(* Validate, RequireServices and the store's Init. *)
InitStore ==
  /\ In("init")
  /\ \/ Main("ensure") /\ Pair!Begin("daemon")
     \/ ReturnError /\ UNCHANGED certificates
  /\ UNCHANGED <<listener, errCh, down, open, late, asked, served, early, bounds>>

(* The goroutines are begun. *)
Ensured ==
  /\ In("ensure")
  /\ Pair!Return("daemon")
  /\ \/ /\ Pair!At("daemon", "done")
        /\ Main("select")
        /\ listener' = [l \in Listeners |-> "called"]
     \/ Pair!At("daemon", "failed") /\ ReturnError /\ UNCHANGED listener
  /\ UNCHANGED <<errCh, down, open, late, asked, served, early, bounds>>

(* select takes the signal or a result; if both are there, either.  Before *)
(* this all results are errors, so that their order tells nothing.         *)
TakeSignal ==
  /\ In("select") /\ asked
  /\ Main("graceful")
  /\ UNCHANGED <<certificates, listener, errCh, down, open, late, asked, served, early, bounds>>

TakeError ==
  /\ In("select") /\ errCh # {}
  /\ main' = "failing" /\ err' \in errCh
  /\ UNCHANGED <<certificates, next, listener, errCh, down, open, late, asked, served, early, bounds>>

Current == Order[next]

NextListener ==
  /\ UNCHANGED err
  /\ IF next = Len(Order) THEN main' = "returned" /\ UNCHANGED next
     ELSE next' = next + 1 /\ UNCHANGED main

(* http.Server.Shutdown closes the listener, *)
BeginShutdown ==
  /\ Stopping
  /\ Current # Dns /\ Current \notin down
  /\ down' = down \union {Current}
  /\ listener' = [listener EXCEPT ![Current] = IF @ = "serving" THEN "closed" ELSE @]
  /\ UNCHANGED <<certificates, main, next, err, errCh, open, late, asked, served, early, bounds>>

(* Faulty variant: the error is ignored, as after the failure of a listener. *)
EndShutdownIgnoring ==
  /\ Stopping
  /\ Current \in down
  /\ Current \notin open \/ late
  /\ NextListener
  /\ UNCHANGED <<certificates, listener, errCh, down, open, late, asked, served, early, bounds>>

(* Faulty variant: without a deadline. *)
EndShutdownWaiting ==
  /\ Stopping
  /\ Current \in down
  /\ Current \notin open
  /\ NextListener
  /\ UNCHANGED <<certificates, listener, errCh, down, open, late, asked, served, early, bounds>>

(* and waits until no request is in progress or the deadline has passed,   *)
(* which is an error: after a signal Run returns it at once.               *)
EndShutdown ==
  /\ Stopping
  /\ Current \in down
  /\ \/ Current \notin open /\ NextListener
     \/ /\ Current \in open /\ late
        /\ IF In("graceful") THEN ReturnError ELSE NextListener
  /\ UNCHANGED <<certificates, listener, errCh, down, open, late, asked, served, early, bounds>>

(* Faulty variant: the connection is forgotten and not closed. *)
CloseDnsForgetting ==
  /\ Stopping
  /\ Current = Dns
  /\ early' = (early \/ listener[Dns] \in {"called", "bound"})
  /\ NextListener
  /\ UNCHANGED <<certificates, listener, errCh, down, open, late, asked, served, bounds>>

(* The DNS listener's Close does nothing without a connection. *)
CloseDns ==
  /\ Stopping
  /\ Current = Dns
  /\ listener' = [listener EXCEPT ![Dns] = IF @ = "serving" THEN "closed" ELSE @]
  /\ early' = (early \/ listener[Dns] \in {"called", "bound"})
  /\ NextListener
  /\ UNCHANGED <<certificates, errCh, down, open, late, asked, served, bounds>>

(* Main returns, with exit code 0, or calls log.Fatalf. *)
Exit ==
  /\ In("returned")
  /\ NoProcess
  /\ UNCHANGED <<certificates, bounds>>

MainStep ==
  \/ InitStore \/ Ensured \/ TakeSignal \/ TakeError
  \/ BeginShutdown \/ EndShutdown \/ CloseDns \/ Exit

-----------------------------------------------------------------------------
(* The goroutines of the listeners. *)

(* The channel has room for one result of each. *)
Send(l, result) ==
  /\ Cardinality({k \in Listeners : listener[k] = "returned"}) < Capacity
  /\ errCh' = errCh \union {result}
  /\ listener' = [listener EXCEPT ![l] = "returned"]

Reach(l, place) == listener' = [listener EXCEPT ![l] = place] /\ UNCHANGED errCh

(* An HTTP server that was shut down before it listens returns at once.    *)
Bind(l) ==
  /\ listener[l] = "called"
  /\ \/ l \in down /\ Send(l, "nil") /\ UNCHANGED faults
     \/ l \notin down /\ Reach(l, "bound") /\ UNCHANGED faults
     \/ l \notin down /\ Send(l, "error") /\ Fault
  /\ UNCHANGED <<certificates, main, next, err, down, open, late, asked, served, early, starts>>

(* The certificate and the key are loaded; an HTTP server that was shut    *)
(* down meanwhile closes what it listens on; that of DNS stores it.        *)
Serve(l) ==
  /\ listener[l] = "bound"
  /\ \/ l = Tls /\ ~Pair!Match /\ Send(l, "error") /\ UNCHANGED served
     \/ /\ l = Tls => Pair!Match
        /\ IF l \in down THEN Send(l, "nil") ELSE Reach(l, "serving")
        /\ served' = IF l = Tls THEN cert.pair ELSE served
  /\ UNCHANGED <<certificates, main, next, err, down, open, late, asked, early, bounds>>

ServeFails(l) ==
  /\ listener[l] = "serving"
  /\ Send(l, "error") /\ Fault
  /\ UNCHANGED <<certificates, main, next, err, down, open, late, asked, served, early, starts>>

ServeEnds(l) ==
  /\ listener[l] = "closed"
  /\ Send(l, "nil")
  /\ UNCHANGED <<certificates, main, next, err, down, open, late, asked, served, early, bounds>>

-----------------------------------------------------------------------------
(* The environment. *)

(* A DNS query is answered by the listener's own goroutine. *)
Accept(l) ==
  /\ l # Dns /\ listener[l] = "serving" /\ l \notin open
  /\ open' = open \union {l}
  /\ UNCHANGED <<certificates, main, next, err, listener, errCh, down, late, asked, served, early, bounds>>

Answer(l) ==
  /\ l \in open
  /\ open' = open \ {l}
  /\ UNCHANGED <<certificates, main, next, err, listener, errCh, down, late, asked, served, early, bounds>>

Signal ==
  /\ ~In("down") /\ ~asked
  /\ asked' = TRUE
  /\ UNCHANGED <<certificates, main, next, err, listener, errCh, down, open, late, served, early, bounds>>

Deadline ==
  /\ Stopping /\ ~late
  /\ late' = TRUE
  /\ UNCHANGED <<certificates, main, next, err, listener, errCh, down, open, asked, served, early, bounds>>

KillDaemon ==
  /\ ~In("down")
  /\ Fault
  /\ NoProcess
  /\ Pair!Kill("daemon")
  /\ UNCHANGED starts

(* tinycloud env terraform, *)
CallEnv ==
  /\ starts < MaxStart /\ starts' = starts + 1
  /\ Pair!Begin("cli")
  /\ UNCHANGED <<process, faults>>

(* which prints the path of the certificate. *)
EnvEnds == Pair!Return("cli") /\ UNCHANGED <<process, bounds>>

KillEnv ==
  /\ Pair!Calling("cli")
  /\ Fault
  /\ Pair!Kill("cli")
  /\ UNCHANGED <<process, starts>>

(* While neither the daemon nor the command is there (see Remove). *)
RemoveFile ==
  /\ In("down")
  /\ Pair!Remove
  /\ UNCHANGED <<process, bounds>>

PairStep(p) == Pair!Step(p) /\ UNCHANGED <<process, bounds>>

Next ==
  \/ Boot \/ MainStep
  \/ \E l \in Listeners :
       Bind(l) \/ Serve(l) \/ ServeFails(l) \/ ServeEnds(l) \/ Accept(l) \/ Answer(l)
  \/ Signal \/ Deadline \/ KillDaemon
  \/ CallEnv \/ EnvEnds \/ KillEnv \/ RemoveFile
  \/ \E p \in Processes : PairStep(p)

Spec == Init /\ [][Next]_vars

(* The main goroutine goes on, and time passes; nothing is assumed of the  *)
(* listeners, of requests, which may take for ever, and of users.          *)
LiveSpec ==
  Spec /\ WF_vars(MainStep) /\ WF_vars(PairStep("daemon")) /\ WF_vars(Deadline)

-----------------------------------------------------------------------------
TypeOK ==
  /\ Pair!TypeOK
  /\ main \in {"down", "init", "ensure", "select", "graceful", "failing", "returned"}
  /\ next \in 1..Len(Order) /\ err \in {"nil", "error"}
  /\ listener \in [Listeners -> {"off", "called", "bound", "serving", "closed", "returned"}]
  /\ errCh \subseteq {"nil", "error"}
  /\ errCh # {} <=> \E l \in Listeners : listener[l] = "returned"
  /\ down \subseteq Listeners \ {Dns} /\ open \subseteq Listeners \ {Dns}
  /\ {late, asked, early} \subseteq BOOLEAN
  /\ served \in 0..pairs
  /\ starts \in 0..MaxStart /\ faults \in 0..MaxFault

(* The daemon exits with code 0 only if it was asked to, and then every    *)
(* request that it has accepted has been answered; and however it exits,   *)
(* but for a kill, no request is cut before the deadline, though the first *)
(* listener that fails to shut down ends the shutdown of the others        *)
(* (server.go 291-341).                                                    *)
ExitTellsTruth ==
  In("returned") =>
    /\ err = "nil" => asked /\ open = {}
    /\ open # {} => late

(* A listener that the shutdown has passed accepts nothing any more,       *)
(* however far its goroutine was; that of DNS may, if it had not yet       *)
(* stored its connection (server.go 229-341, dns/server.go 59-98).         *)
OnlyDnsLingers ==
  Stopping =>
    \A i \in 1..(next - 1) :
      listener[Order[i]] = "serving" => Order[i] = Dns /\ early

(* The certificate that tinycloud env terraform has made sure of, and that *)
(* tinyterraform then trusts, is the one that the daemon serves with: what *)
(* either leaves is a pair that matches, the other takes it as it is, and  *)
(* a kill or a failure on the way is made good by the next call unless it  *)
(* came in the middle of a file while both were there (tls.go 22-26,       *)
(* 57-66).  Calls at the same time are set apart.                          *)
CertificateServed ==
  /\ Pair!EnsuredPairMatches
  /\ ~overlap /\ ~spoiled /\ listener[Tls] = "serving" => Pair!Match /\ served = cert.pair

(* A daemon that was asked to stop, or of which a listener has failed,     *)
(* comes to its end, whatever its requests and listeners do.               *)
RunReturns ==
  asked \/ errCh # {} ~> In("returned") \/ In("down")
=============================================================================
