---------------------------- MODULE DaemonProofs ----------------------------
(***************************************************************************)
(* The daemon.  ServerLifecycle: its certificate, its shutdown and its     *)
(* exit code, for any number of listeners and in whichever order they are  *)
(* shut down.  ServiceSelection: which services it runs and is said to     *)
(* run, for any values of the selection and any number of commands.        *)
(***************************************************************************)
EXTENDS ServerLifecycle, ServiceSelection, TLAPS

-----------------------------------------------------------------------------
(* ServerLifecycle. *)

Generating(p) ==
  ensure[p] \in {"generate", "open cert", "write cert", "open key", "write key"}

Between(p) == ensure[p] \in {"write cert", "open key", "write key"}

(***************************************************************************)
(* A pair that matches is left alone because a call that generates one has *)
(* seen that a file is missing, and nobody else makes it then.             *)
(***************************************************************************)
PairSound ==
  /\ \A p, q \in Processes : Pair!Calling(p) /\ Pair!Calling(q) => p = q
  /\ \A p \in Processes :
       /\ Pair!At(p, "done") => Pair!Match
       /\ Pair!At(p, "stat key") => cert # Pair!Absent
       /\ Generating(p) => ~Pair!Match
       /\ Pair!At(p, "write cert") => cert = Pair!Torn
       /\ ensure[p] \in {"open key", "write key"} => cert = Pair!Of(mine[p])
       /\ Pair!At(p, "write key") => key = Pair!Torn
       /\ ensure[p] \in {"open cert", "write cert", "open key"}
            => key # Pair!Of(mine[p])
  /\ (\A p \in Processes : ~Between(p))
       => cert = Pair!Absent \/ key = Pair!Absent \/ Pair!Match

PairInv == Pair!TypeOK /\ (~overlap /\ ~spoiled => PairSound)

-----------------------------------------------------------------------------
LEMMA Intervals ==
  ASSUME NEW n \in Nat
  PROVE  /\ 0 \in 0..n
         /\ n + 1 \in Nat /\ n + 1 \in 0..(n + 1) /\ n + 1 \notin 0..n
         /\ 0..n \subseteq 0..(n + 1)
OBVIOUS

LEMMA PairInvInit == Pair!Init => PairInv
<1> SUFFICES ASSUME Pair!Init
             PROVE  PairInv
  OBVIOUS
<1>1. Pair!TypeOK
  <2>1. 0 \in 0..pairs /\ pairs \in Nat
    BY DEF Pair!Init
  <2>2. ensure \in [Processes -> Pair!Places]
    BY DEF Pair!Init, Pair!Places
  <2>3. mine \in [Processes -> 0..pairs]
    BY <2>1 DEF Pair!Init
  <2> QED
    BY <2>1, <2>2, <2>3 DEF Pair!Init, Pair!TypeOK, Pair!Files
<1>2. PairSound
  BY DEF Pair!Init, PairSound, Pair!At, Pair!Calling, Generating
<1> QED
  BY <1>1, <1>2 DEF PairInv

LEMMA PairTypes ==
  ASSUME Pair!TypeOK, Pair!Next
  PROVE  Pair!TypeOK'
<1> USE DEF Pair!Places, Pair!Goto, Pair!TypeOK
<1>1. ASSUME NEW p \in Processes, Pair!Begin(p) \/ Pair!StatCert(p) \/ Pair!StatKey(p)
      PROVE  Pair!TypeOK'
  BY <1>1 DEF Pair!Begin, Pair!StatCert, Pair!StatKey, Pair!Files
<1>2. ASSUME NEW p \in Processes, Pair!Generate(p)
      PROVE  Pair!TypeOK'
  <2>1. CASE pairs' = pairs + 1 /\ mine' = [mine EXCEPT ![p] = pairs + 1]
             /\ Pair!Goto(p, "open cert")
    <3>1. 0..pairs \subseteq 0..pairs' /\ pairs + 1 \in 0..pairs' /\ pairs' \in Nat
      BY <2>1, Intervals
    <3>2. mine' \in [Processes -> 0..pairs']
      BY <2>1, <3>1
    <3>3. Pair!Files \subseteq Pair!Files'
      BY <3>1 DEF Pair!Files
    <3> QED
      BY <1>2, <2>1, <3>1, <3>2, <3>3 DEF Pair!Generate
  <2>2. CASE Pair!Goto(p, "failed") /\ UNCHANGED <<pairs, mine>>
    BY <1>2, <2>2 DEF Pair!Generate, Pair!Files
  <2> QED
    BY <1>2, <2>1, <2>2 DEF Pair!Generate
<1>3. ASSUME NEW p \in Processes,
             Pair!OpenCert(p) \/ Pair!OpenKey(p) \/ Pair!WriteCert(p) \/ Pair!WriteKey(p)
      PROVE  Pair!TypeOK'
  <2>1. {Pair!Torn, Pair!Of(mine[p])} \subseteq Pair!Files
    BY DEF Pair!Files
  <2> QED
    BY <1>3, <2>1 DEF Pair!OpenCert, Pair!OpenKey, Pair!WriteCert, Pair!WriteKey, Pair!Fail,
                      Pair!Spoils, Pair!Written, Pair!Files
<1>4. ASSUME NEW p \in Processes, Pair!Return(p) \/ Pair!Kill(p)
      PROVE  Pair!TypeOK'
  <2>1. 0 \in 0..pairs
    BY Intervals
  <2>2. mine' \in [Processes -> 0..pairs] /\ ensure' \in [Processes -> Pair!Places]
    BY <1>4, <2>1 DEF Pair!Return, Pair!Kill, Pair!Clear
  <2>3. UNCHANGED <<cert, key, pairs, overlap>> /\ spoiled' \in BOOLEAN
    BY <1>4 DEF Pair!Return, Pair!Kill, Pair!Spoils
  <2> QED
    BY <2>2, <2>3 DEF Pair!Files
<1>5. ASSUME Pair!Remove
      PROVE  Pair!TypeOK'
  BY <1>5 DEF Pair!Remove, Pair!Files
<1> QED
  BY <1>1, <1>2, <1>3, <1>4, <1>5 DEF Pair!Next, Pair!Step

LEMMA FilesDiffer ==
  /\ Pair!Absent # Pair!Torn
  /\ \A x : Pair!Of(x) # Pair!Absent /\ Pair!Of(x) # Pair!Torn
  /\ \A x, y : Pair!Of(x) = Pair!Of(y) => x = y
  /\ Pair!Absent.state # "whole" /\ Pair!Torn.state # "whole"
  /\ \A x : Pair!Of(x).state = "whole"
BY DEF Pair!Absent, Pair!Torn, Pair!Of

(* What is left at a call's end, and where its writes are. *)
LEMMA PairSteps ==
  ASSUME PairInv, Pair!Next
  PROVE  PairInv'
<1>1. Pair!TypeOK /\ Pair!TypeOK'
  BY PairTypes DEF PairInv
<1> SUFFICES ASSUME ~overlap', ~spoiled'
             PROVE  PairSound'
  BY <1>1 DEF PairInv
<1>2. ~overlap /\ ~spoiled /\ PairSound
  BY <1>1 DEF PairInv, Pair!Next, Pair!Step, Pair!Begin, Pair!StatCert, Pair!StatKey, Pair!Generate,
     Pair!OpenCert, Pair!WriteCert, Pair!OpenKey, Pair!WriteKey, Pair!Fail, Pair!Spoils,
     Pair!Return, Pair!Kill, Pair!Remove, Pair!TypeOK
<1>3. ensure \in [Processes -> Pair!Places] /\ mine \in [Processes -> 0..pairs]
  BY <1>1 DEF Pair!TypeOK
<1> USE <1>2, <1>3, FilesDiffer
<1> USE DEF PairSound, Pair!Goto, Pair!At, Pair!Calling, Generating, Between, Pair!Match
<1>4. ASSUME NEW p \in Processes, Pair!Begin(p)
      PROVE  PairSound'
  BY <1>4 DEF Pair!Begin
<1>5. ASSUME NEW p \in Processes, Pair!StatCert(p)
      PROVE  PairSound'
  BY <1>5 DEF Pair!StatCert
<1>6. ASSUME NEW p \in Processes, Pair!StatKey(p)
      PROVE  PairSound'
  BY <1>6 DEF Pair!StatKey
<1>7. ASSUME NEW p \in Processes, Pair!Generate(p)
      PROVE  PairSound'
  <2>1. pairs \in Nat /\ key \in Pair!Files
    BY <1>1 DEF Pair!TypeOK
  <2>2. key # Pair!Of(pairs + 1)
    <3>1. CASE key \in {Pair!Absent, Pair!Torn}
      BY <3>1
    <3>2. CASE key \in {Pair!Of(n) : n \in 0..pairs}
      <4>1. PICK n \in 0..pairs : key = Pair!Of(n)
        BY <3>2
      <4>2. n # pairs + 1
        BY <2>1, Intervals
      <4> QED
        BY <4>1, <4>2
    <3> QED
      BY <2>1, <3>1, <3>2 DEF Pair!Files
  <2>3. UNCHANGED <<cert, key>> /\ Pair!At(p, "generate")
    BY <1>7 DEF Pair!Generate
  <2>4. CASE mine' = [mine EXCEPT ![p] = pairs + 1] /\ Pair!Goto(p, "open cert")
    <3>1. key # Pair!Of(mine'[p]) /\ \A q \in Processes \ {p} : mine'[q] = mine[q]
      BY <2>2, <2>4
    <3>2. \A q \in Processes : ensure'[q] = IF q = p THEN "open cert" ELSE ensure[q]
      BY <2>4
    <3> QED
      BY <2>3, <3>1, <3>2
  <2>5. CASE UNCHANGED mine /\ Pair!Goto(p, "failed")
    BY <2>3, <2>5
  <2> QED
    BY <1>7, <2>4, <2>5 DEF Pair!Generate
<1>8. ASSUME NEW p \in Processes, Pair!OpenCert(p)
      PROVE  PairSound'
  BY <1>8 DEF Pair!OpenCert
<1>9. ASSUME NEW p \in Processes, Pair!WriteCert(p)
      PROVE  PairSound'
  BY <1>9 DEF Pair!WriteCert, Pair!Fail, Pair!Spoils, Pair!Written
<1>10. ASSUME NEW p \in Processes, Pair!OpenKey(p)
      PROVE  PairSound'
  BY <1>10 DEF Pair!OpenKey, Pair!Fail, Pair!Spoils
<1>11. ASSUME NEW p \in Processes, Pair!WriteKey(p)
      PROVE  PairSound'
  BY <1>11 DEF Pair!WriteKey, Pair!Fail, Pair!Spoils, Pair!Written
<1>12. ASSUME NEW p \in Processes, Pair!Return(p)
      PROVE  PairSound'
  BY <1>12 DEF Pair!Return, Pair!Clear
<1>13. ASSUME NEW p \in Processes, Pair!Kill(p)
      PROVE  PairSound'
  BY <1>13 DEF Pair!Kill, Pair!Clear, Pair!Spoils
<1>14. ASSUME Pair!Remove
      PROVE  PairSound'
  BY <1>14 DEF Pair!Remove
<1> QED
  BY <1>4, <1>5, <1>6, <1>7, <1>8, <1>9, <1>10, <1>11, <1>12, <1>13, <1>14
     DEF Pair!Next, Pair!Step

-----------------------------------------------------------------------------
LEMMA OrderInListeners == \A i \in 1..Len(Order) : Order[i] \in Listeners
BY ServerAssumption DEF Listeners, ToSet

PairMoves ==
  \E p \in Processes : Pair!Begin(p) \/ Pair!Step(p) \/ Pair!Return(p) \/ Pair!Kill(p)

LEMMA StepsPair ==
  ASSUME [Next]_vars
  PROVE  PairMoves \/ RemoveFile \/ UNCHANGED Pair!vars
<1> USE DEF certificates, Pair!vars, Processes
<1>1. CASE Boot \/ MainStep
  BY <1>1 DEF Boot, MainStep, InitStore, Ensured, TakeSignal, TakeError, BeginShutdown,
              EndShutdown, CloseDns, Exit, PairMoves
<1>2. CASE \E l \in Listeners :
             Bind(l) \/ Serve(l) \/ ServeFails(l) \/ ServeEnds(l) \/ Accept(l) \/ Answer(l)
  BY <1>2 DEF Bind, Serve, ServeFails, ServeEnds, Accept, Answer
<1>3. CASE Signal \/ Deadline \/ KillDaemon \/ CallEnv \/ EnvEnds \/ KillEnv \/ RemoveFile
  BY <1>3 DEF Signal, Deadline, KillDaemon, CallEnv, EnvEnds, KillEnv, PairMoves
<1>4. CASE \E p \in Processes : PairStep(p)
  BY <1>4 DEF PairStep, PairMoves
<1>5. CASE UNCHANGED vars
  BY <1>5 DEF vars
<1> QED
  BY <1>1, <1>2, <1>3, <1>4, <1>5 DEF Next

LEMMA PairStays ==
  ASSUME PairInv, [Next]_vars
  PROVE  PairInv'
<1>1. CASE Pair!Next
  BY <1>1, PairSteps
<1>2. CASE UNCHANGED Pair!vars
  BY <1>2 DEF Pair!vars, PairInv, PairSound, Pair!TypeOK, Pair!Files, Pair!At, Pair!Calling,
              Generating, Between, Pair!Match
<1>3. PairMoves \/ RemoveFile => Pair!Next
  BY DEF PairMoves, Pair!Next, RemoveFile
<1> QED
  BY <1>1, <1>2, <1>3, StepsPair

(* The daemon and tinycloud env terraform together use the two files as    *)
(* CertificatePair says.                                                   *)
THEOREM ServerImplementsPair == Spec => Pair!Spec
<1>1. Init => Pair!Init
  BY DEF Init
<1>2. [Next]_vars => [Pair!Next]_(Pair!vars)
  BY StepsPair DEF PairMoves, Pair!Next, RemoveFile
<1> QED
  BY <1>1, <1>2, PTL DEF Spec, Pair!Spec

-----------------------------------------------------------------------------
(***************************************************************************)
(* Where the goroutines can be while the main one is at a place, and what  *)
(* has become of the listeners that the shutdown has passed.               *)
(***************************************************************************)
Running == {"select", "graceful", "failing"}

Passed(i) ==
  IF Order[i] = Dns THEN early \/ listener[Dns] \in {"closed", "returned"}
  ELSE Order[i] \in down /\ (Order[i] \in open => late /\ main = "failing")

Quiesced(l) == l \notin open /\ (l \in down \/ listener[l] = "off")

LocalInv ==
  /\ main \in Running \union {"down", "init", "ensure", "returned"}
  /\ next \in 1..Len(Order)
  /\ listener \in [Listeners -> {"off", "called", "bound", "serving", "closed", "returned"}]
  /\ open \subseteq Listeners \ {Dns} /\ down \subseteq Listeners \ {Dns}

MainInv ==
  /\ main \in {"down", "init", "ensure"} => \A l \in Listeners : listener[l] = "off"
  /\ main \in {"down", "init", "ensure"} => open = {} /\ errCh = {}
  /\ main \in {"down", "init", "ensure", "select"} => down = {} /\ next = 1
  /\ main = "select" => errCh \subseteq {"error"} /\ \A l \in Listeners : listener[l] # "closed"
  /\ main \in Running => \A l \in Listeners : listener[l] # "off"
  /\ \A l \in down : listener[l] # "serving"
  /\ main = "graceful" => asked
  /\ main = "failing" => err = "error"
  /\ Stopping => \A i \in 1..(next - 1) : Passed(i)
  /\ main = "returned" =>
       /\ err = "nil" => asked
       /\ \/ late /\ err = "error"
          \/ \A l \in Listeners \ {Dns} : Quiesced(l)

LEMMA MainInvInit == Init => LocalInv /\ MainInv
BY ServerAssumption DEF Init, LocalInv, MainInv, Running, Stopping, In

(* Where a step goes. *)
LEMMA LocalStays ==
  ASSUME LocalInv, [Next]_vars
  PROVE  LocalInv'
<1> USE DEF LocalInv, Running
<1>1. ASSUME Boot \/ InitStore \/ Ensured \/ TakeSignal \/ TakeError
      PROVE  LocalInv'
  BY <1>1 DEF Boot, InitStore, Ensured, TakeSignal, TakeError, Main, ReturnError
<1>2. ASSUME NextListener
      PROVE  /\ main' \in Running \union {"down", "init", "ensure", "returned"}
             /\ next' \in 1..Len(Order)
  BY <1>2, ServerAssumption DEF NextListener
<1>3. Current \in Listeners
  BY OrderInListeners DEF Current
<1>4. ASSUME BeginShutdown
      PROVE  LocalInv'
  BY <1>3, <1>4 DEF BeginShutdown
<1>5. ASSUME EndShutdown
      PROVE  LocalInv'
  BY <1>2, <1>5 DEF EndShutdown, ReturnError
<1>6. ASSUME CloseDns
      PROVE  LocalInv'
  BY <1>2, <1>3, <1>6 DEF CloseDns
<1>7. ASSUME NoProcess
      PROVE  LocalInv'
  BY <1>7, ServerAssumption DEF NoProcess
<1>8. ASSUME NEW l \in Listeners, Bind(l) \/ Serve(l) \/ ServeFails(l) \/ ServeEnds(l)
      PROVE  LocalInv'
  BY <1>8 DEF Bind, Serve, ServeFails, ServeEnds, Send, Reach
<1>9. ASSUME NEW l \in Listeners, Accept(l) \/ Answer(l)
      PROVE  LocalInv'
  BY <1>9 DEF Accept, Answer
<1>10. ASSUME \/ Signal \/ Deadline \/ CallEnv \/ EnvEnds \/ KillEnv \/ RemoveFile
              \/ \E p \in Processes : PairStep(p)
              \/ UNCHANGED vars
       PROVE  LocalInv'
  BY <1>10 DEF Signal, Deadline, CallEnv, EnvEnds, KillEnv, RemoveFile, PairStep, vars, process
<1> QED
  BY <1>1, <1>4, <1>5, <1>6, <1>7, <1>8, <1>9, <1>10 DEF Next, MainStep, Exit, KillDaemon

(* A goroutine of a listener gets one place further. *)
LEMMA GoroutineMoves ==
  ASSUME LocalInv, MainInv, NEW l \in Listeners, NEW place \in {"bound", "serving", "returned"},
         listener[l] \in {"called", "bound", "serving", "closed"},
         listener' = [listener EXCEPT ![l] = place],
         place # "returned" => listener[l] \in {"called", "bound"} /\ l \notin down,
         main = "select" => errCh' \subseteq errCh \union {"error"},
         UNCHANGED <<main, next, err, down, open, late, asked, early>>
  PROVE  MainInv'
<1>1. main \notin {"down", "init", "ensure"}
  BY DEF MainInv
<1>2. \A k \in Listeners : listener'[k] = IF k = l THEN place ELSE listener[k]
  BY DEF LocalInv
<1>3. ASSUME NEW i \in 1..(next - 1), Stopping
      PROVE  Passed(i)'
  <2>1. Passed(i) /\ Order[i] \in Listeners
    BY <1>3, OrderInListeners DEF MainInv, LocalInv
  <2>2. CASE Order[i] = Dns
    BY <1>2, <2>1, <2>2 DEF Passed
  <2>3. CASE Order[i] # Dns
    BY <2>1, <2>3 DEF Passed
  <2> QED
    BY <2>2, <2>3
<1>4. ASSUME main = "returned", NEW k \in Listeners, Quiesced(k)
      PROVE  Quiesced(k)'
  BY <1>2, <1>4 DEF Quiesced
<1>5. \A k \in down : listener'[k] # "serving"
  BY <1>2 DEF MainInv, LocalInv
<1> QED
  BY <1>1, <1>2, <1>3, <1>4, <1>5 DEF MainInv, Stopping, In, Running

(* The shutdown goes on to the next listener, or is over. *)
LEMMA NextPassed ==
  ASSUME LocalInv, MainInv, Stopping, NextListener, Passed(next),
         UNCHANGED <<listener, down, open, late, asked, early>>
  PROVE  MainInv'
<1> USE DEF Stopping, In
<1>1. next \in 1..Len(Order) /\ Len(Order) \in Nat /\ UNCHANGED err
  BY ServerAssumption DEF LocalInv, NextListener
<1>2. \A i \in 1..next : Passed(i)
  BY <1>1 DEF MainInv
<1>3. CASE next # Len(Order)
  <2>1. next' - 1 = next /\ UNCHANGED main
    BY <1>1, <1>3 DEF NextListener
  <2>2. \A i \in 1..(next' - 1) : Passed(i)'
    BY <1>2, <2>1 DEF Passed
  <2> QED
    BY <1>1, <2>1, <2>2 DEF MainInv, Running
<1>4. CASE next = Len(Order)
  <2>1. main' = "returned"
    BY <1>4 DEF NextListener
  <2>2. ASSUME NEW l \in Listeners \ {Dns}
        PROVE  l \in down /\ (l \in open => late /\ main = "failing")
    <3>1. PICK i \in 1..Len(Order) : l = Order[i]
      BY ServerAssumption DEF Listeners, ToSet
    <3> QED
      BY <1>2, <1>4, <3>1 DEF Passed
  <2>3. CASE main = "failing" /\ late
    BY <1>1, <2>1, <2>3 DEF MainInv, Running
  <2>4. CASE ~(main = "failing" /\ late)
    <3>1. (\A l \in Listeners \ {Dns} : Quiesced(l))'
      BY <2>2, <2>4 DEF Quiesced
    <3>2. err' = "nil" => asked'
      BY <1>1 DEF MainInv
    <3>3. \A l \in down' : listener'[l] # "serving"
      BY DEF MainInv
    <3> QED
      BY <2>1, <3>1, <3>2, <3>3 DEF MainInv, Running
  <2> QED
    BY <2>3, <2>4
<1> QED
  BY <1>3, <1>4

(* After the DNS listener's Close, it has ended or Close came early. *)
LEMMA DnsPassed ==
  ASSUME LocalInv, MainInv, CloseDns
  PROVE  MainInv'
<1> DEFINE place(l) == IF l = Dns /\ listener[l] = "serving" THEN "closed" ELSE listener[l]
<1>1. /\ Stopping /\ Current = Dns /\ Dns \in Listeners
      /\ listener' = [listener EXCEPT ![Dns] = IF @ = "serving" THEN "closed" ELSE @]
      /\ early' = (early \/ listener[Dns] \in {"called", "bound"})
      /\ UNCHANGED <<errCh, down, open, late, asked, err>>
  BY OrderInListeners DEF CloseDns, Current, LocalInv, NextListener
<1>2. \A l \in Listeners : listener'[l] = place(l)
  BY <1>1 DEF LocalInv
<1>3. early' \/ listener'[Dns] \in {"closed", "returned"}
  BY <1>1, <1>2 DEF LocalInv, MainInv, Stopping, In, Running
<1>4. next \in 1..Len(Order) /\ Len(Order) \in Nat /\ Order[next] = Dns
  BY <1>1, ServerAssumption DEF LocalInv, Current
<1>5. ASSUME NEW i \in 1..next
      PROVE  IF Order[i] = Dns THEN early' \/ listener'[Dns] \in {"closed", "returned"}
             ELSE Order[i] \in down /\ (Order[i] \in open => late /\ main = "failing")
  BY <1>1, <1>3, <1>4 DEF MainInv, Passed
<1>6. \A l \in down : listener'[l] # "serving"
  BY <1>2 DEF MainInv, LocalInv
<1>7. CASE next # Len(Order)
  <2>1. next' - 1 = next /\ UNCHANGED main
    BY <1>4, <1>7 DEF CloseDns, NextListener
  <2>2. \A i \in 1..(next' - 1) : Passed(i)'
    BY <1>1, <1>5, <2>1 DEF Passed
  <2> QED
    BY <1>1, <1>2, <1>6, <2>1, <2>2 DEF MainInv, Running, Stopping, In
<1>8. CASE next = Len(Order)
  <2>1. main' = "returned"
    BY <1>8 DEF CloseDns, NextListener
  <2>2. ASSUME NEW l \in Listeners \ {Dns}
        PROVE  l \in down /\ (l \in open => late /\ main = "failing")
    <3>1. PICK i \in 1..Len(Order) : l = Order[i]
      BY ServerAssumption DEF Listeners, ToSet
    <3> QED
      BY <1>5, <1>8, <3>1
  <2>3. CASE main = "failing" /\ late
    BY <1>1, <1>6, <2>1, <2>3 DEF MainInv, Running, Stopping, In
  <2>4. CASE ~(main = "failing" /\ late)
    <3>1. (\A l \in Listeners \ {Dns} : Quiesced(l))'
      BY <1>1, <2>2, <2>4 DEF Quiesced
    <3>2. err' = "nil" => asked'
      BY <1>1 DEF MainInv, Stopping, In
    <3> QED
      BY <1>1, <1>6, <2>1, <3>1, <3>2 DEF MainInv, Running, Stopping, In
  <2> QED
    BY <2>3, <2>4
<1> QED
  BY <1>7, <1>8

LEMMA MainStays ==
  ASSUME LocalInv, MainInv, [Next]_vars
  PROVE  MainInv'
<1>0. LocalInv'
  BY LocalStays
<1> USE DEF LocalInv, MainInv, Running, Stopping, In, Quiesced, Passed
<1>1. ASSUME Boot
      PROVE  MainInv'
  BY <1>0, <1>1 DEF Boot, Main
<1>2. ASSUME InitStore
      PROVE  MainInv'
  BY <1>0, <1>2 DEF InitStore, Main, ReturnError
<1>3. ASSUME Ensured
      PROVE  MainInv'
  BY <1>0, <1>3 DEF Ensured, Main, ReturnError
<1>4. ASSUME TakeSignal
      PROVE  MainInv'
  BY <1>0, <1>4 DEF TakeSignal, Main
<1>5. ASSUME TakeError
      PROVE  MainInv'
  BY <1>0, <1>5 DEF TakeError
<1>6. ASSUME BeginShutdown
      PROVE  MainInv'
  BY <1>0, <1>6 DEF BeginShutdown
<1>7. ASSUME EndShutdown
      PROVE  MainInv'
  <2>1. /\ Stopping /\ Current \in down
        /\ UNCHANGED <<listener, errCh, down, open, late, asked, early>>
    BY <1>7 DEF EndShutdown
  <2>2. CASE ReturnError /\ late
    BY <1>0, <2>1, <2>2 DEF ReturnError
  <2>3. CASE NextListener /\ (Current \in open => late /\ main = "failing")
    <3>1. Passed(next)
      BY <2>1, <2>3 DEF Current
    <3> QED
      BY <2>1, <2>3, <3>1, NextPassed DEF NextListener
  <2> QED
    BY <1>7, <2>2, <2>3 DEF EndShutdown
<1>8. ASSUME CloseDns
      PROVE  MainInv'
  BY <1>8, DnsPassed
<1>9. ASSUME NoProcess
      PROVE  MainInv'
  BY <1>9 DEF NoProcess
<1>10. ASSUME NEW l \in Listeners, Bind(l)
       PROVE  MainInv'
  BY <1>10, GoroutineMoves DEF Bind, Send, Reach
<1>11. ASSUME NEW l \in Listeners, Serve(l)
       PROVE  MainInv'
  BY <1>11, GoroutineMoves DEF Serve, Send, Reach
<1>12. ASSUME NEW l \in Listeners, ServeFails(l)
       PROVE  MainInv'
  BY <1>12, GoroutineMoves DEF ServeFails, Send
<1>13. ASSUME NEW l \in Listeners, ServeEnds(l)
       PROVE  MainInv'
  BY <1>13, GoroutineMoves DEF ServeEnds, Send
<1>14. ASSUME NEW l \in Listeners, Accept(l)
       PROVE  MainInv'
  BY <1>0, <1>14 DEF Accept
<1>15. ASSUME NEW l \in Listeners, Answer(l)
       PROVE  MainInv'
  BY <1>0, <1>15 DEF Answer
<1>16. ASSUME Signal \/ Deadline
       PROVE  MainInv'
  <2>1. CASE Signal
    BY <2>1 DEF Signal
  <2>2. CASE Deadline
    BY <2>2 DEF Deadline
  <2> QED
    BY <1>16, <2>1, <2>2
<1>17. ASSUME UNCHANGED process
       PROVE  MainInv'
  BY <1>17 DEF process
<1> QED
  BY <1>1, <1>2, <1>3, <1>4, <1>5, <1>6, <1>7, <1>8, <1>9, <1>10, <1>11, <1>12, <1>13, <1>14,
     <1>15, <1>16, <1>17
     DEF Next, MainStep, Exit, KillDaemon, CallEnv, EnvEnds, KillEnv, RemoveFile, PairStep, vars

MainBoth == LocalInv /\ MainInv

LEMMA MainInvariant == Spec => []MainBoth
<1>1. Init => MainBoth
  BY MainInvInit DEF MainBoth
<1>2. MainBoth /\ [Next]_vars => MainBoth'
  BY LocalStays, MainStays DEF MainBoth
<1> QED
  BY <1>1, <1>2, PTL DEF Spec

(* See ExitTellsTruth: the listeners behind the one that did not shut down *)
(* in time lose nothing by being left out, as the deadline is theirs, too. *)
THEOREM ExitIsTruthful == Spec => []ExitTellsTruth
<1>1. MainBoth => ExitTellsTruth
  BY DEF MainBoth, LocalInv, MainInv, ExitTellsTruth, Quiesced, In
<1> QED
  BY <1>1, MainInvariant, PTL

(* See OnlyDnsLingers. *)
THEOREM OnlyTheResolverLingers == Spec => []OnlyDnsLingers
<1>1. MainBoth => OnlyDnsLingers
  <2> SUFFICES ASSUME MainBoth, Stopping, NEW i \in 1..(next - 1),
                      listener[Order[i]] = "serving"
               PROVE  Order[i] = Dns /\ early
    BY DEF OnlyDnsLingers
  <2>1. Passed(i)
    BY DEF MainBoth, MainInv
  <2> QED
    BY <2>1 DEF MainBoth, MainInv, Passed
<1> QED
  BY <1>1, MainInvariant, PTL

-----------------------------------------------------------------------------
(* The daemon serves with the files that are there. *)
ServedInv ==
  ~overlap /\ ~spoiled /\ listener[Tls] = "serving" => Pair!Match /\ served = cert.pair

CertInv == MainBoth /\ PairInv /\ ServedInv

(* Nobody touches a pair that matches but the user, without a daemon. *)
LEMMA MatchStays ==
  ASSUME PairInv, [Next]_vars, ~overlap', ~spoiled', Pair!Match, ~RemoveFile
  PROVE  UNCHANGED <<cert, key>>
<1>1. ~overlap /\ ~spoiled /\ PairSound
  BY StepsPair DEF PairInv, Pair!vars, PairMoves, Pair!Step, Pair!Begin, Pair!StatCert,
     Pair!StatKey, Pair!Generate, Pair!OpenCert, Pair!WriteCert, Pair!OpenKey, Pair!WriteKey,
     Pair!Fail, Pair!Spoils, Pair!Return, Pair!Kill, Pair!TypeOK
<1>2. \A p \in Processes : ~Generating(p)
  BY <1>1 DEF PairSound
<1>3. ASSUME NEW p \in Processes, Pair!Step(p)
      PROVE  UNCHANGED <<cert, key>>
  BY <1>2, <1>3 DEF Generating, Pair!Step, Pair!StatCert, Pair!StatKey, Pair!Generate,
     Pair!OpenCert, Pair!WriteCert, Pair!OpenKey, Pair!WriteKey, Pair!At
<1> QED
  BY <1>3, StepsPair DEF PairMoves, Pair!Begin, Pair!Return, Pair!Kill, Pair!vars

(* The TLS listener begins to serve, or what it serves with changes, only  *)
(* by its own step.                                                        *)
LEMMA OnlyServeServes ==
  ASSUME LocalInv, MainInv, [Next]_vars, listener'[Tls] = "serving",
         ~(listener[Tls] = "serving" /\ UNCHANGED served)
  PROVE  Serve(Tls)
<1>0. Tls \in Listeners /\ Tls # Dns /\ listener \in
          [Listeners -> {"off", "called", "bound", "serving", "closed", "returned"}]
  BY ServerAssumption DEF LocalInv
<1>1. ~NoProcess
  BY <1>0 DEF NoProcess
<1>2. ~(Boot \/ InitStore \/ Ensured \/ TakeSignal \/ TakeError \/ EndShutdown)
  BY <1>0 DEF Boot, InitStore, Ensured, TakeSignal, TakeError, EndShutdown
<1>3. ~(BeginShutdown \/ CloseDns)
  BY <1>0, OrderInListeners DEF BeginShutdown, CloseDns, Current, LocalInv
<1>4. ASSUME NEW l \in Listeners, Bind(l) \/ ServeFails(l) \/ ServeEnds(l)
      PROVE  FALSE
  BY <1>0, <1>4 DEF Bind, ServeFails, ServeEnds, Send, Reach
<1>5. ASSUME NEW l \in Listeners, Serve(l), l # Tls
      PROVE  FALSE
  BY <1>0, <1>5 DEF Serve, Send, Reach
<1>6. ASSUME \/ \E l \in Listeners : Accept(l) \/ Answer(l)
             \/ Signal \/ Deadline \/ CallEnv \/ EnvEnds \/ KillEnv \/ RemoveFile
             \/ \E p \in Processes : PairStep(p)
             \/ UNCHANGED vars
      PROVE  FALSE
  BY <1>6 DEF Accept, Answer, Signal, Deadline, CallEnv, EnvEnds, KillEnv, RemoveFile, PairStep,
              vars, process
<1> QED
  BY <1>1, <1>2, <1>3, <1>4, <1>5, <1>6 DEF Next, MainStep, Exit, KillDaemon

LEMMA ServedStays ==
  ASSUME CertInv, [Next]_vars
  PROVE  ServedInv'
<1> SUFFICES ASSUME ~overlap', ~spoiled', listener'[Tls] = "serving"
             PROVE  Pair!Match' /\ served' = cert'.pair
  BY DEF ServedInv
<1>1. ~overlap /\ ~spoiled
  BY StepsPair DEF CertInv, PairInv, Pair!vars, PairMoves, Pair!Step, Pair!Begin, Pair!StatCert,
     Pair!StatKey, Pair!Generate, Pair!OpenCert, Pair!WriteCert, Pair!OpenKey, Pair!WriteKey,
     Pair!Fail, Pair!Spoils, Pair!Return, Pair!Kill, Pair!Remove, RemoveFile, Pair!TypeOK
<1>2. Tls \in Listeners /\ Tls # Dns /\ LocalInv /\ MainInv /\ PairInv
  BY ServerAssumption DEF CertInv, MainBoth
<1>3. CASE listener[Tls] = "serving" /\ UNCHANGED served
  <2>1. Pair!Match /\ served = cert.pair
    BY <1>1, <1>3 DEF CertInv, ServedInv
  <2>2. ~RemoveFile
    BY <1>2, <1>3 DEF RemoveFile, In, MainInv
  <2>3. UNCHANGED <<cert, key>>
    BY <1>2, <2>1, <2>2, MatchStays
  <2> QED
    BY <1>3, <2>1, <2>3 DEF Pair!Match
<1>4. CASE ~(listener[Tls] = "serving" /\ UNCHANGED served)
  <2>1. Serve(Tls)
    BY <1>2, <1>4, OnlyServeServes
  <2>2. Pair!Match /\ UNCHANGED <<cert, key>> /\ served' = cert.pair
    BY <1>2, <2>1 DEF Serve, Send, certificates, LocalInv
  <2> QED
    BY <2>2 DEF Pair!Match
<1> QED
  BY <1>3, <1>4

(* See CertificateServed. *)
THEOREM CertificateIsServed == Spec => []CertificateServed
<1>1. Init => CertInv
  BY MainInvInit, PairInvInit, ServerAssumption DEF Init, CertInv, MainBoth, ServedInv
<1>2. CertInv /\ [Next]_vars => CertInv'
  BY LocalStays, MainStays, PairStays, ServedStays DEF CertInv, MainBoth
<1>3. CertInv => CertificateServed
  BY DEF CertInv, PairInv, PairSound, ServedInv, CertificateServed, Pair!EnsuredPairMatches
<1> QED
  BY <1>1, <1>2, <1>3, PTL DEF Spec

-----------------------------------------------------------------------------
(* What is left of TypeOK. *)
Results ==
  /\ errCh \subseteq {"nil", "error"}
  /\ errCh # {} <=> \E l \in Listeners : listener[l] = "returned"

Rest ==
  /\ err \in {"nil", "error"}
  /\ late \in BOOLEAN /\ asked \in BOOLEAN /\ early \in BOOLEAN
  /\ starts \in 0..MaxStart /\ faults \in 0..MaxFault

TypesInv == CertInv /\ Results /\ Rest /\ served \in 0..pairs

(* A listener has come to its end if and only if there is a result. *)
LEMMA ResultsStay ==
  ASSUME LocalInv, MainInv, Results, [Next]_vars
  PROVE  Results'
<1> USE DEF Results, LocalInv
<1>1. CASE NoProcess
  BY <1>1 DEF NoProcess
<1>2. CASE Ensured
  <2>1. CASE Pair!At("daemon", "failed") /\ ReturnError /\ UNCHANGED listener
    BY <1>2, <2>1 DEF Ensured
  <2>2. CASE listener' = [l \in Listeners |-> "called"]
    BY <1>2, <2>2 DEF Ensured, MainInv, In
  <2> QED
    BY <1>2, <2>1, <2>2 DEF Ensured
<1>3. ASSUME NEW k \in Listeners, BeginShutdown \/ CloseDns,
             listener' = [listener EXCEPT ![k] = IF @ = "serving" THEN "closed" ELSE @]
      PROVE  Results'
  <2>1. \A l \in Listeners : listener'[l] = "returned" <=> listener[l] = "returned"
    BY <1>3
  <2>2. UNCHANGED errCh
    BY <1>3 DEF BeginShutdown, CloseDns
  <2> QED
    BY <2>1, <2>2
<1>4. ASSUME NEW l \in Listeners, NEW result \in {"nil", "error"}, Send(l, result)
      PROVE  Results'
  <2>1. errCh' = errCh \union {result} /\ listener'[l] = "returned"
    BY <1>4 DEF Send
  <2> QED
    BY <2>1
<1>5. ASSUME NEW l \in Listeners, NEW place \in {"bound", "serving"},
             listener[l] # "returned", Reach(l, place)
      PROVE  Results'
  <2>1. \A k \in Listeners : listener'[k] = "returned" <=> listener[k] = "returned"
    BY <1>5 DEF Reach
  <2> QED
    BY <1>5, <2>1 DEF Reach
<1>6. ASSUME UNCHANGED <<listener, errCh>>
      PROVE  Results'
  BY <1>6
<1>7. ASSUME BeginShutdown \/ CloseDns
      PROVE  Results'
  <2>1. Dns \in Listeners \/ ~CloseDns
    BY OrderInListeners DEF CloseDns, Current
  <2>2. Current \in Listeners
    BY OrderInListeners DEF Current
  <2> QED
    BY <1>3, <1>7, <2>1, <2>2 DEF BeginShutdown, CloseDns
<1>8. ASSUME NEW l \in Listeners, Bind(l) \/ Serve(l) \/ ServeFails(l) \/ ServeEnds(l)
      PROVE  Results'
  BY <1>4, <1>5, <1>8 DEF Bind, Serve, ServeFails, ServeEnds
<1>9. ASSUME NEW l \in Listeners, Accept(l) \/ Answer(l)
      PROVE  Results'
  BY <1>6, <1>9 DEF Accept, Answer
<1>10. CASE \/ Boot \/ InitStore \/ TakeSignal \/ TakeError \/ EndShutdown
            \/ Signal \/ Deadline \/ CallEnv \/ EnvEnds \/ KillEnv \/ RemoveFile
            \/ \E p \in Processes : PairStep(p)
            \/ UNCHANGED vars
  BY <1>6, <1>10 DEF Boot, InitStore, TakeSignal, TakeError, EndShutdown, Signal, Deadline,
     CallEnv, EnvEnds, KillEnv, RemoveFile, PairStep, vars, process
<1> QED
  BY <1>1, <1>2, <1>7, <1>8, <1>9, <1>10 DEF Next, MainStep, Exit, KillDaemon

LEMMA RestStays ==
  ASSUME Results, Rest, [Next]_vars
  PROVE  Rest'
<1> USE DEF Rest
<1>1. CASE Boot \/ MainStep
  <2>1. CASE Boot
    BY <2>1, ServerAssumption DEF Boot, Main
  <2>2. CASE InitStore \/ Ensured \/ TakeSignal
    BY <2>2 DEF InitStore, Ensured, TakeSignal, Main, ReturnError, bounds
  <2>3. CASE TakeError
    BY <2>3 DEF TakeError, bounds, Results
  <2>4. CASE BeginShutdown \/ EndShutdown \/ CloseDns
    BY <2>4 DEF BeginShutdown, EndShutdown, CloseDns, NextListener, ReturnError, bounds
  <2>5. CASE Exit
    BY <2>5 DEF Exit, NoProcess, bounds
  <2> QED
    BY <1>1, <2>1, <2>2, <2>3, <2>4, <2>5 DEF MainStep
<1>2. ASSUME NEW l \in Listeners,
             Bind(l) \/ Serve(l) \/ ServeFails(l) \/ ServeEnds(l) \/ Accept(l) \/ Answer(l)
      PROVE  Rest'
  BY <1>2, ServerAssumption
     DEF Bind, Serve, ServeFails, ServeEnds, Accept, Answer, Fault, bounds
<1>3. CASE Signal \/ Deadline \/ KillDaemon
  <2>1. CASE Signal \/ Deadline
    BY <2>1 DEF Signal, Deadline, bounds
  <2>2. CASE KillDaemon
    <3>1. err' = "nil" /\ late' = FALSE /\ asked' = FALSE /\ early' = FALSE
      BY <2>2 DEF KillDaemon, NoProcess
    <3>2. UNCHANGED starts /\ faults < MaxFault /\ faults' = faults + 1
      BY <2>2 DEF KillDaemon, Fault
    <3>3. faults' \in 0..MaxFault
      BY <3>2, ServerAssumption
    <3> QED
      BY <3>1, <3>2, <3>3, Zenon
  <2> QED
    BY <1>3, <2>1, <2>2
<1>4. CASE \/ CallEnv \/ EnvEnds \/ KillEnv \/ RemoveFile
           \/ \E p \in Processes : PairStep(p)
  BY <1>4, ServerAssumption
     DEF CallEnv, EnvEnds, KillEnv, RemoveFile, PairStep, process, Fault, bounds
<1>5. CASE UNCHANGED vars
  BY <1>5 DEF vars, process, bounds
<1> QED
  BY <1>1, <1>2, <1>3, <1>4, <1>5 DEF Next

(* Pairs are generated and never taken back. *)
LEMMA PairsGrow ==
  ASSUME Pair!TypeOK, [Next]_vars
  PROVE  pairs \in Nat /\ pairs' \in Nat /\ pairs <= pairs'
<1>1. pairs \in Nat
  BY DEF Pair!TypeOK
<1>2. ASSUME NEW p \in Processes, Pair!Begin(p) \/ Pair!Return(p) \/ Pair!Kill(p)
      PROVE  UNCHANGED pairs
  BY <1>2 DEF Pair!Begin, Pair!Return, Pair!Kill
<1>3. ASSUME NEW p \in Processes, Pair!Step(p)
      PROVE  pairs' \in {pairs, pairs + 1}
  BY <1>3 DEF Pair!Step, Pair!StatCert, Pair!StatKey, Pair!Generate, Pair!OpenCert,
     Pair!WriteCert, Pair!OpenKey, Pair!WriteKey
<1>4. pairs' \in {pairs, pairs + 1}
  BY <1>2, <1>3, StepsPair DEF PairMoves, Pair!vars, Pair!Remove, RemoveFile
<1> QED
  BY <1>1, <1>4

LEMMA ServedTyped ==
  ASSUME Pair!TypeOK, served \in 0..pairs, [Next]_vars
  PROVE  served' \in 0..pairs'
<1>1. CASE UNCHANGED served
  BY <1>1, PairsGrow
<1>2. CASE served' = 0
  BY <1>2, PairsGrow
<1>3. ASSUME Pair!Match
      PROVE  cert.pair \in 0..pairs
  <2>1. PICK pair \in 0..pairs : cert = Pair!Of(pair)
    BY <1>3 DEF Pair!TypeOK, Pair!Files, Pair!Match, Pair!Absent, Pair!Torn
  <2> QED
    BY <2>1 DEF Pair!Of
<1>4. ASSUME NEW l \in Listeners, Serve(l)
      PROVE  UNCHANGED served \/ (served' = cert.pair /\ Pair!Match)
  BY <1>4 DEF Serve
<1>5. ASSUME NEW l \in Listeners, Serve(l)
      PROVE  served' \in 0..pairs'
  BY <1>1, <1>3, <1>4, <1>5, PairsGrow
<1>6. CASE Boot \/ MainStep
  BY <1>1, <1>2, <1>6 DEF Boot, MainStep, InitStore, Ensured, TakeSignal, TakeError,
     BeginShutdown, EndShutdown, CloseDns, Exit, NoProcess
<1>7. CASE \E l \in Listeners :
             Bind(l) \/ ServeFails(l) \/ ServeEnds(l) \/ Accept(l) \/ Answer(l)
  BY <1>1, <1>7 DEF Bind, ServeFails, ServeEnds, Accept, Answer
<1>8. CASE \/ Signal \/ Deadline \/ KillDaemon \/ CallEnv \/ EnvEnds \/ KillEnv
           \/ RemoveFile
           \/ \E p \in Processes : PairStep(p)
           \/ UNCHANGED vars
  BY <1>1, <1>2, <1>8 DEF Signal, Deadline, KillDaemon, CallEnv, EnvEnds, KillEnv, RemoveFile,
     PairStep, NoProcess, vars, process
<1> QED
  BY <1>5, <1>6, <1>7, <1>8 DEF Next

(* Every state of the daemon and of its files is well typed; in            *)
(* particular a result is in the channel, or was, if and only if a         *)
(* listener has come to its end.                                           *)
THEOREM ServerTypeCorrect == Spec => []TypeOK
<1>1. Init => TypesInv
  <2> SUFFICES ASSUME Init PROVE TypesInv
    OBVIOUS
  <2>1. CertInv
    BY MainInvInit, PairInvInit, ServerAssumption DEF Init, CertInv, MainBoth, ServedInv
  <2>2. Results /\ Rest /\ served \in 0..pairs
    <3>1. pairs = 0 /\ served = 0
      BY DEF Init, Pair!Init
    <3>2. 0 \in 0..MaxStart /\ 0 \in 0..MaxFault /\ 0 \in 0..pairs
      BY <3>1, ServerAssumption
    <3> QED
      BY <3>1, <3>2 DEF Init, Results, Rest
  <2> QED
    BY <2>1, <2>2 DEF TypesInv
<1>2. TypesInv /\ [Next]_vars => TypesInv'
  BY LocalStays, MainStays, PairStays, ServedStays, ResultsStay, RestStays, ServedTyped
     DEF TypesInv, CertInv, MainBoth, PairInv
<1>3. TypesInv => TypeOK
  BY DEF TypesInv, CertInv, MainBoth, PairInv, LocalInv, Results, Rest, Running, TypeOK
<1> QED
  BY <1>1, <1>2, <1>3, PTL DEF Spec

-----------------------------------------------------------------------------
(* How far the main goroutine has still to go: while it makes sure of the  *)
(* certificate by its place in that, while it shuts down by the listeners  *)
(* that are left.                                                          *)
PairAhead ==
  [place \in Pair!Places |->
     CASE place \in {"idle", "done", "failed"} -> 0
       [] place = "write key"                  -> 1
       [] place = "open key"                   -> 2
       [] place = "write cert"                 -> 3
       [] place = "open cert"                  -> 4
       [] place = "generate"                   -> 5
       [] place = "stat key"                   -> 6
       [] place = "stat cert"                  -> 7]

ListenersLeft ==
  2 * (Len(Order) - next) + (IF Current \in down THEN 2 ELSE 3)

Remains ==
  CASE In("down")     -> 0
    [] In("returned") -> 1
    [] Stopping       -> ListenersLeft
    [] In("select")   -> 2 * Len(Order) + 2
    [] In("ensure")   -> 2 * Len(Order) + 3 + PairAhead[ensure["daemon"]]
    [] In("init")     -> 2 * Len(Order) + 11

(* The daemon's call is in progress only while the main goroutine waits. *)
DaemonInv ==
  /\ LocalInv /\ Pair!TypeOK
  /\ ~In("ensure") => ensure["daemon"] = "idle"

LEMMA PairLeads ==
  /\ PairAhead["stat key"] < PairAhead["stat cert"]
  /\ PairAhead["generate"] < PairAhead["stat cert"]
  /\ PairAhead["done"] < PairAhead["stat key"]
  /\ PairAhead["generate"] < PairAhead["stat key"]
  /\ PairAhead["open cert"] < PairAhead["generate"]
  /\ PairAhead["failed"] < PairAhead["generate"]
  /\ PairAhead["write cert"] < PairAhead["open cert"]
  /\ PairAhead["failed"] < PairAhead["open cert"]
  /\ PairAhead["open key"] < PairAhead["write cert"]
  /\ PairAhead["failed"] < PairAhead["write cert"]
  /\ PairAhead["write key"] < PairAhead["open key"]
  /\ PairAhead["failed"] < PairAhead["open key"]
  /\ PairAhead["done"] < PairAhead["write key"]
  /\ PairAhead["failed"] < PairAhead["write key"]
BY DEF PairAhead, Pair!Places

LEMMA PairStepLeads ==
  ASSUME Pair!TypeOK, NEW p \in Processes, Pair!Step(p)
  PROVE  /\ PairAhead[ensure'[p]] < PairAhead[ensure[p]]
         /\ \A q \in Processes : q # p => ensure'[q] = ensure[q]
<1>1. ASSUME NEW place, Pair!Goto(p, place)
      PROVE  /\ ensure'[p] = place
             /\ \A q \in Processes : q # p => ensure'[q] = ensure[q]
  BY <1>1 DEF Pair!Goto, Pair!TypeOK
<1> USE <1>1, PairLeads DEF Pair!At, Pair!Fail
<1>2. CASE Pair!StatCert(p)
  BY <1>2 DEF Pair!StatCert
<1>3. CASE Pair!StatKey(p)
  BY <1>3 DEF Pair!StatKey
<1>4. CASE Pair!Generate(p)
  BY <1>4 DEF Pair!Generate
<1>5. CASE Pair!OpenCert(p)
  BY <1>5 DEF Pair!OpenCert
<1>6. CASE Pair!WriteCert(p)
  BY <1>6 DEF Pair!WriteCert
<1>7. CASE Pair!OpenKey(p)
  BY <1>7 DEF Pair!OpenKey
<1>8. CASE Pair!WriteKey(p)
  BY <1>8 DEF Pair!WriteKey
<1> QED
  BY <1>2, <1>3, <1>4, <1>5, <1>6, <1>7, <1>8 DEF Pair!Step

(* The other process' call is its own. *)
LEMMA PairOthers ==
  ASSUME Pair!TypeOK, NEW p \in Processes, NEW q \in Processes, q # p,
         Pair!Begin(p) \/ Pair!Step(p) \/ Pair!Return(p) \/ Pair!Kill(p)
  PROVE  ensure'[q] = ensure[q]
<1>1. CASE Pair!Step(p)
  BY <1>1, PairStepLeads
<1>2. CASE Pair!Begin(p) \/ Pair!Return(p) \/ Pair!Kill(p)
  BY <1>2 DEF Pair!Begin, Pair!Return, Pair!Kill, Pair!Clear, Pair!Goto, Pair!TypeOK
<1> QED
  BY <1>1, <1>2

LEMMA Apart == "daemon" \in Processes /\ "cli" \in Processes /\ "cli" # "daemon"
BY DEF Processes

(* What is not a step of the daemon leaves the main goroutine where it is, *)
(* and its call too.                                                       *)
MainRests == UNCHANGED <<main, next, down>> /\ ensure'["daemon"] = ensure["daemon"]

LEMMA OthersRest ==
  ASSUME Pair!TypeOK, [Next]_vars
  PROVE  Boot \/ MainStep \/ KillDaemon \/ PairStep("daemon") \/ MainRests
<1> USE DEF MainRests
<1>1. CASE \E l \in Listeners :
             Bind(l) \/ Serve(l) \/ ServeFails(l) \/ ServeEnds(l) \/ Accept(l) \/ Answer(l)
  BY <1>1 DEF Bind, Serve, ServeFails, ServeEnds, Accept, Answer, certificates
<1>2. CASE Signal \/ Deadline
  BY <1>2 DEF Signal, Deadline, certificates
<1>3. CASE CallEnv \/ EnvEnds \/ KillEnv
  BY <1>3, Apart, PairOthers DEF CallEnv, EnvEnds, KillEnv, process
<1>4. CASE RemoveFile
  BY <1>4 DEF RemoveFile, Pair!Remove, process
<1>5. ASSUME NEW p \in Processes, PairStep(p), p # "daemon"
      PROVE  MainRests
  BY <1>5, Apart, PairOthers DEF PairStep, process
<1>6. CASE UNCHANGED vars
  BY <1>6 DEF vars, certificates, process
<1> QED
  BY <1>1, <1>2, <1>3, <1>4, <1>5, <1>6 DEF Next

LEMMA DaemonInvNext == DaemonInv /\ [Next]_vars => DaemonInv'
<1> SUFFICES ASSUME DaemonInv, [Next]_vars PROVE DaemonInv'
  OBVIOUS
<1> USE DEF DaemonInv
<1>1. LocalInv'
  BY LocalStays
<1>2. Pair!TypeOK'
  <2>1. CASE Pair!Next
    BY <2>1, PairTypes
  <2>2. CASE UNCHANGED Pair!vars
    BY <2>2 DEF Pair!vars, Pair!TypeOK, Pair!Files
  <2> QED
    BY <2>1, <2>2, StepsPair DEF PairMoves, RemoveFile, Pair!Next
<1>3. (~In("ensure") => ensure["daemon"] = "idle")'
  <2> USE DEF In
  <2>1. CASE MainRests
    BY <2>1 DEF MainRests
  <2>2. CASE Boot \/ InitStore
    BY <2>2 DEF Boot, InitStore, Main, ReturnError, certificates
  <2>3. CASE Ensured \/ KillDaemon
    BY <2>3, Apart DEF Ensured, KillDaemon, Pair!Return, Pair!Kill, Pair!Clear, Pair!Goto,
       Pair!TypeOK
  <2>4. CASE TakeSignal \/ TakeError \/ BeginShutdown \/ EndShutdown \/ CloseDns \/ Exit
    BY <2>4 DEF TakeSignal, TakeError, BeginShutdown, EndShutdown, CloseDns, Exit, Stopping,
       certificates
  <2>5. CASE PairStep("daemon")
    <3>1. In("ensure")
      BY <2>5 DEF PairStep, Pair!Step, Pair!StatCert, Pair!StatKey, Pair!Generate,
         Pair!OpenCert, Pair!WriteCert, Pair!OpenKey, Pair!WriteKey, Pair!At
    <3> QED
      BY <2>5, <3>1 DEF PairStep, process
  <2> QED
    BY <2>1, <2>2, <2>3, <2>4, <2>5, OthersRest DEF MainStep
<1> QED
  BY <1>1, <1>2, <1>3

-----------------------------------------------------------------------------
(* Where the main goroutine stands tells how much remains. *)
Bounds ==
  /\ Len(Order) \in Nat /\ next \in 1..Len(Order)
  /\ PairAhead[ensure["daemon"]] \in 0..7
  /\ ListenersLeft \in 2..(2 * Len(Order) + 1)
  /\ 2 * (Len(Order) - next) + 2 <= ListenersLeft
  /\ ListenersLeft <= 2 * (Len(Order) - next) + 3
  /\ Remains \in Nat

LEMMA Counted == DaemonInv => Bounds
<1> SUFFICES ASSUME DaemonInv PROVE Bounds
  OBVIOUS
<1>1. Len(Order) \in Nat /\ next \in 1..Len(Order)
  BY ServerAssumption DEF DaemonInv, LocalInv
<1>2. PairAhead[ensure["daemon"]] \in 0..7
  <2>1. PairAhead \in [Pair!Places -> 0..7]
    BY DEF PairAhead, Pair!Places
  <2>2. ensure["daemon"] \in Pair!Places
    BY Apart DEF DaemonInv, Pair!TypeOK
  <2> QED
    BY <2>1, <2>2
<1>3. /\ ListenersLeft \in 2..(2 * Len(Order) + 1)
      /\ 2 * (Len(Order) - next) + 2 <= ListenersLeft
      /\ ListenersLeft <= 2 * (Len(Order) - next) + 3
  BY <1>1 DEF ListenersLeft
<1>4. Remains \in Nat
  <2>1. In("down") \/ In("returned") => Remains \in {0, 1}
    BY DEF Remains, Stopping, In
  <2>2. Stopping => Remains = ListenersLeft
    BY DEF Remains, Stopping, In
  <2>3. In("select") \/ In("init") => Remains \in {2 * Len(Order) + 2, 2 * Len(Order) + 11}
    BY DEF Remains, Stopping, In
  <2>4. In("ensure") => Remains = 2 * Len(Order) + 3 + PairAhead[ensure["daemon"]]
    BY DEF Remains, Stopping, In
  <2>5. PICK k \in 0..7 : k = PairAhead[ensure["daemon"]]
    BY <1>2
  <2>6. In("down") \/ In("returned") \/ Stopping \/ In("select") \/ In("ensure") \/ In("init")
    BY DEF DaemonInv, LocalInv, Running, Stopping, In
  <2> QED
    BY <1>1, <1>3, <2>1, <2>2, <2>3, <2>4, <2>5, <2>6
<1> QED
  BY <1>1, <1>2, <1>3, <1>4 DEF Bounds

LEMMA CountedNext == DaemonInv' => Bounds'
BY Counted, PTL

(* To the next listener, or to the end. *)
LEMMA NextDescends ==
  ASSUME DaemonInv, DaemonInv', Stopping, NextListener
  PROVE  Remains' < Remains
<1>1. Bounds /\ Bounds'
  BY Counted, CountedNext
<1>2. Remains = ListenersLeft
  BY DEF Remains, Stopping, In
<1>3. CASE main' = "returned"
  <2>1. Remains' = 1
    BY <1>3 DEF Remains, Stopping, In
  <2> QED
    BY <1>1, <1>2, <2>1 DEF Bounds
<1>4. CASE next' = next + 1 /\ UNCHANGED main
  <2>1. Remains' = ListenersLeft'
    BY <1>4 DEF Remains, Stopping, In
  <2>2. ListenersLeft' <= 2 * (Len(Order) - (next + 1)) + 3
    BY <1>1, <1>4 DEF Bounds
  <2> QED
    BY <1>1, <1>2, <2>1, <2>2 DEF Bounds
<1> QED
  BY <1>3, <1>4 DEF NextListener

LEMMA BeginDescends ==
  ASSUME DaemonInv, BeginShutdown
  PROVE  Remains' < Remains
<1>1. Bounds /\ Current \notin down /\ Current' = Current /\ Current \in down'
  BY Counted DEF BeginShutdown, Current
<1>2. Remains = ListenersLeft /\ Remains' = ListenersLeft'
  BY DEF BeginShutdown, Remains, Stopping, In
<1>3. /\ ListenersLeft = 2 * (Len(Order) - next) + 3
      /\ ListenersLeft' = 2 * (Len(Order) - next) + 2
  BY <1>1 DEF ListenersLeft, BeginShutdown
<1> QED
  BY <1>1, <1>2, <1>3 DEF Bounds

LEMMA MainStepDescends ==
  ASSUME DaemonInv, DaemonInv', MainStep
  PROVE  Remains' < Remains
<1>0. Len(Order) \in Nat
  BY Counted DEF Bounds
<1>1. Bounds /\ Bounds'
  BY Counted, CountedNext
<1>2. ASSUME main' = "returned" PROVE Remains' = 1
  BY <1>2 DEF Remains, Stopping, In
<1>3. CASE InitStore
  <2>1. Remains = 2 * Len(Order) + 11
    BY <1>3 DEF InitStore, Remains, Stopping, In
  <2>2. CASE main' = "ensure"
    <3>1. Remains' = 2 * Len(Order) + 3 + PairAhead[ensure["daemon"]]'
      BY <2>2 DEF Remains, Stopping, In
    <3>2. PICK k \in 0..7 : k = PairAhead[ensure["daemon"]]'
      BY <1>1 DEF Bounds
    <3> QED
      BY <1>0, <2>1, <3>1, <3>2
  <2> QED
    BY <1>1, <1>2, <1>3, <2>1, <2>2 DEF InitStore, Main, ReturnError, Bounds
<1>4. CASE Ensured
  <2>1. Remains = 2 * Len(Order) + 3 + PairAhead[ensure["daemon"]]
    BY <1>4 DEF Ensured, Remains, Stopping, In
  <2>2. main' = "select" => Remains' = 2 * Len(Order) + 2
    BY DEF Remains, Stopping, In
  <2>3. PICK k \in 0..7 : k = PairAhead[ensure["daemon"]]
    BY <1>1 DEF Bounds
  <2>4. main' \in {"select", "returned"}
    BY <1>4 DEF Ensured, Main, ReturnError
  <2> QED
    BY <1>0, <1>2, <2>1, <2>2, <2>3, <2>4
<1>5. CASE TakeSignal \/ TakeError
  <2>1. Remains = 2 * Len(Order) + 2
    BY <1>5 DEF TakeSignal, TakeError, Remains, Stopping, In
  <2>2. Remains' = ListenersLeft'
    BY <1>5 DEF TakeSignal, TakeError, Main, Remains, Stopping, In
  <2> QED
    BY <1>1, <2>1, <2>2 DEF Bounds
<1>6. CASE EndShutdown
  <2>1. CASE ReturnError /\ Stopping
    <3>1. Remains = ListenersLeft
      BY <2>1 DEF Remains, Stopping, In
    <3> QED
      BY <1>1, <1>2, <2>1, <3>1 DEF ReturnError, Bounds
  <2> QED
    BY <1>6, <2>1, NextDescends DEF EndShutdown
<1>7. CASE Exit
  <2>1. Remains = 1 /\ Remains' = 0
    BY <1>7 DEF Exit, NoProcess, Remains, Stopping, In
  <2> QED
    BY <2>1
<1> QED
  BY <1>3, <1>4, <1>5, <1>6, <1>7, NextDescends, BeginDescends DEF MainStep, CloseDns

(* Every step of the main goroutine, and of the call in which it makes     *)
(* sure of the certificate, brings the daemon nearer to its exit, and no   *)
(* listener, request, signal or command beside it takes it back: a         *)
(* shutdown never turns to a listener again, nor does Run return to its    *)
(* select (server.go 44-343, tls.go 19-74).                                *)
MainDescends ==
  [][ /\ MainStep \/ PairStep("daemon") => Remains' < Remains
      /\ ~In("down") => Remains' <= Remains ]_vars

(* Hence Run makes at most 2 * Len(Order) + 11 steps.  That each of them is *)
(* taken is RunReturns, which the run checks under fairness.               *)
THEOREM MainGoesOn == Spec => MainDescends
<1>1. Init => DaemonInv
  BY MainInvInit, PairInvInit, Apart DEF Init, DaemonInv, PairInv, Pair!Init
<1>2. DaemonInv /\ [Next]_vars =>
        [ /\ MainStep \/ PairStep("daemon") => Remains' < Remains
          /\ ~In("down") => Remains' <= Remains ]_vars
  <2> SUFFICES ASSUME DaemonInv, Next
               PROVE  /\ MainStep \/ PairStep("daemon") => Remains' < Remains
                      /\ ~In("down") => Remains' <= Remains
    OBVIOUS
  <2>1. DaemonInv' /\ Bounds /\ Bounds'
    BY DaemonInvNext, Counted, CountedNext
  <2>2. Remains \in Nat /\ Remains' \in Nat
    BY <2>1 DEF Bounds
  <2>3. ASSUME PairStep("daemon") PROVE Remains' < Remains
    <3>1. PairAhead[ensure'["daemon"]] < PairAhead[ensure["daemon"]]
      BY <2>3, Apart, PairStepLeads DEF PairStep, DaemonInv
    <3>2. In("ensure") /\ UNCHANGED main
      <4>1. ensure["daemon"] # "idle"
        BY <2>3 DEF PairStep, Pair!Step, Pair!StatCert, Pair!StatKey, Pair!Generate,
           Pair!OpenCert, Pair!WriteCert, Pair!OpenKey, Pair!WriteKey, Pair!At
      <4> QED
        BY <2>3, <4>1 DEF DaemonInv, PairStep, process
    <3>3. /\ Remains = 2 * Len(Order) + 3 + PairAhead[ensure["daemon"]]
          /\ Remains' = 2 * Len(Order) + 3 + PairAhead[ensure'["daemon"]]
      BY <3>2 DEF Remains, Stopping, In
    <3>4. PICK j \in 0..7, k \in 0..7 :
            j = PairAhead[ensure["daemon"]] /\ k = PairAhead[ensure'["daemon"]]
      BY <2>1 DEF Bounds
    <3>5. Len(Order) \in Nat
      BY <2>1 DEF Bounds
    <3> QED
      BY <3>1, <3>3, <3>4, <3>5
  <2>4. ASSUME MainRests PROVE Remains' = Remains
    BY <2>4 DEF MainRests, Remains, ListenersLeft, Current, Stopping, In
  <2>5. ASSUME KillDaemon PROVE Remains' = 0
    BY <2>5 DEF KillDaemon, NoProcess, Remains, Stopping, In
  <2>6. ASSUME Boot PROVE In("down")
    BY <2>6 DEF Boot
  <2>7. ASSUME MainStep PROVE Remains' < Remains
    BY <2>1, <2>7, MainStepDescends
  <2>8. Boot \/ MainStep \/ KillDaemon \/ PairStep("daemon") \/ MainRests
    BY OthersRest DEF DaemonInv
  <2> QED
    BY <2>2, <2>3, <2>4, <2>5, <2>6, <2>7, <2>8
<1> QED
  BY <1>1, <1>2, DaemonInvNext, PTL DEF Spec, MainDescends

-----------------------------------------------------------------------------
(* ServiceSelection: what is written is what is read. *)

\* About: allServices and serviceAliases, which name the same services.
LEMMA MeaningsAreServices ==
  /\ DOMAIN Meaning =
       {"management", "control", "controlplane", "blob", "queue", "table", "storage",
        "secrets", "keyvault", "appconfig", "config", "secretsconfig", "cosmos", "data",
        "servicebus", "eventhubs", "messaging", "messagingevent", "networking", "dns"}
  /\ \A name \in DOMAIN Meaning : Meaning[name] \subseteq Services
BY DEF Meaning, Services

\* About: String(service), which ParseServiceSelection must read as service.
LEMMA ServiceIsItsWord ==
  ASSUME NEW service \in Services
  PROVE  Known(service) /\ Adds(service) = {service} /\ ~Drops(service)
<1>1. DOMAIN LowerCase = {"keyVault", "serviceBus", "appConfig", "eventHubs"}
  BY DEF LowerCase
<1>2. /\ Normalize(service) \in DOMAIN Meaning
      /\ Meaning[Normalize(service)] = {service}
  <2>1. CASE service \in DOMAIN LowerCase
    BY <2>1, <1>1, MeaningsAreServices DEF Normalize, LowerCase, Meaning
  <2>2. CASE service \notin DOMAIN LowerCase
    BY <2>2, <1>1, MeaningsAreServices DEF Normalize, Services, Meaning
  <2> QED
    BY <2>1, <2>2
<1>3. "all" \notin DOMAIN Meaning /\ "none" \notin DOMAIN Meaning
  BY MeaningsAreServices
<1> QED
  BY <1>2, <1>3 DEF Known, Adds, Drops

LEMMA NoneIsItsWord == Known("none") /\ Adds("none") = {}
BY MeaningsAreServices DEF Known, Adds, Normalize, LowerCase

LEMMA EnabledAreServices ==
  ASSUME NEW value
  PROVE  Enabled(value) \subseteq Services
BY DEF Enabled

(***************************************************************************)
(* A value of words that are services selects these services.              *)
(***************************************************************************)
Writes(value, set) == value \in Seq(set) /\ \A s \in set : \E i \in DOMAIN value : value[i] = s

LEMMA WritesOne ==
  ASSUME NEW set, NEW s
  PROVE  Writes(IF s \in set THEN <<s>> ELSE <<>>, set \cap {s})
<1>1. ASSUME s \in set PROVE Writes(<<s>>, set \cap {s})
  <2>1. <<s>> \in Seq(set \cap {s}) /\ DOMAIN <<s>> = {1} /\ <<s>>[1] = s
    BY <1>1
  <2> QED
    BY <2>1 DEF Writes
<1>2. ASSUME s \notin set PROVE Writes(<<>>, set \cap {s})
  <2>1. set \cap {s} = {}
    BY <1>2
  <2> QED
    BY <2>1 DEF Writes
<1> QED
  BY <1>1, <1>2

LEMMA WritesBoth ==
  ASSUME NEW v, NEW w, NEW S, NEW T, Writes(v, S), Writes(w, T)
  PROVE  Writes(v \o w, S \cup T)
<1>1. v \in Seq(S \cup T) /\ w \in Seq(S \cup T)
  BY DEF Writes
<1>2. v \o w \in Seq(S \cup T)
  BY <1>1
<1>3. ASSUME NEW s \in S PROVE \E i \in DOMAIN (v \o w) : (v \o w)[i] = s
  <2>1. PICK i \in DOMAIN v : v[i] = s
    BY <1>3 DEF Writes
  <2>2. i \in DOMAIN (v \o w) /\ (v \o w)[i] = v[i]
    BY <1>1
  <2> QED
    BY <2>1, <2>2
<1>4. ASSUME NEW s \in T PROVE \E i \in DOMAIN (v \o w) : (v \o w)[i] = s
  <2>1. PICK i \in DOMAIN w : w[i] = s
    BY <1>4 DEF Writes
  <2>2. i \in 1 .. Len(w)
    BY <1>1
  <2>3. Len(v) + i \in DOMAIN (v \o w) /\ (v \o w)[Len(v) + i] = w[i]
    BY <1>1, <2>2
  <2> QED
    BY <2>1, <2>3
<1> QED
  BY <1>2, <1>3, <1>4 DEF Writes

LEMMA WrittenIsRead ==
  ASSUME NEW set \in SUBSET Services, set # {}, NEW value, Writes(value, set)
  PROVE  Valid(value) /\ Enabled(value) = set
<1>1. /\ value # <<>>
      /\ \A i \in DOMAIN value : value[i] \in set
  BY DEF Writes
<1>2. \A i \in DOMAIN value :
        Known(value[i]) /\ Adds(value[i]) = {value[i]} /\ ~Drops(value[i])
  BY <1>1, ServiceIsItsWord
<1>3. Enabled(value) \subseteq set
  BY <1>1, <1>2 DEF Enabled
<1>4. set \subseteq Enabled(value)
  BY <1>1, <1>2 DEF Enabled, Writes
<1> QED
  BY <1>2, <1>3, <1>4 DEF Valid

LEMMA ServiceNamesWrite ==
  ASSUME NEW set \in SUBSET Services
  PROVE  Writes(ServiceNames(set), set)
<1> DEFINE Name(s) == IF s \in set THEN <<s>> ELSE <<>>
           Among(s) == set \cap {s}
           Names2 == Name("management") \o Name("blob")
           Among2 == Among("management") \cup Among("blob")
           Names3 == Names2 \o Name("queue")
           Among3 == Among2 \cup Among("queue")
           Names4 == Names3 \o Name("table")
           Among4 == Among3 \cup Among("table")
           Names5 == Names4 \o Name("keyVault")
           Among5 == Among4 \cup Among("keyVault")
           Names6 == Names5 \o Name("serviceBus")
           Among6 == Among5 \cup Among("serviceBus")
           Names7 == Names6 \o Name("appConfig")
           Among7 == Among6 \cup Among("appConfig")
           Names8 == Names7 \o Name("cosmos")
           Among8 == Among7 \cup Among("cosmos")
           Names9 == Names8 \o Name("dns")
           Among9 == Among8 \cup Among("dns")
           Names10 == Names9 \o Name("eventHubs")
           Among10 == Among9 \cup Among("eventHubs")
<1>1. \A s : Writes(Name(s), Among(s))
  BY WritesOne
<1>2. ServiceNames(set) = Names10
  BY DEF ServiceNames
<1>3. set = Among10
  BY DEF Services
<1> HIDE DEF Name, Among
<1>4. Writes(Names2, Among2)
  BY <1>1, WritesBoth
<1>5. Writes(Names3, Among3)
  BY <1>1, <1>4, WritesBoth
<1>6. Writes(Names4, Among4)
  BY <1>1, <1>5, WritesBoth
<1>7. Writes(Names5, Among5)
  BY <1>1, <1>6, WritesBoth
<1>8. Writes(Names6, Among6)
  BY <1>1, <1>7, WritesBoth
<1>9. Writes(Names7, Among7)
  BY <1>1, <1>8, WritesBoth
<1>10. Writes(Names8, Among8)
  BY <1>1, <1>9, WritesBoth
<1>11. Writes(Names9, Among9)
  BY <1>1, <1>10, WritesBoth
<1>12. Writes(Names10, Among10)
  BY <1>1, <1>11, WritesBoth
<1> QED
  BY <1>2, <1>3, <1>12

(* What is stored is read back as the services that it was made of, the    *)
(* empty set included, and it is never nothing, which would be all of them *)
(* (run.go 843-846).                                                       *)
LEMMA JoinIsReadBack ==
  ASSUME NEW set \in SUBSET Services
  PROVE  /\ Join(set) \in Seq(Services \union {"none"})
         /\ Join(set) # <<>>
         /\ Enabled(Join(set)) = set
<1>1. CASE set = {}
  <2>1. /\ Join(set) = <<"none">>
        /\ <<"none">> # <<>> /\ DOMAIN <<"none">> = {1} /\ <<"none">>[1] = "none"
    BY <1>1 DEF Join
  <2>2. Enabled(<<"none">>) = {}
    BY <2>1, NoneIsItsWord DEF Enabled
  <2>3. <<"none">> \in Seq(Services \union {"none"})
    OBVIOUS
  <2>4. Enabled(Join(set)) = set
    BY <1>1, <2>1, <2>2
  <2> QED
    BY <2>1, <2>3, <2>4
<1>2. CASE set # {}
  <2>1. Join(set) = ServiceNames(set)
    BY <1>2 DEF Join
  <2>2. ServiceNames(set) \in Seq(set) /\ ServiceNames(set) # <<>>
    BY <1>2, ServiceNamesWrite DEF Writes
  <2>3. ServiceNames(set) \in Seq(Services \union {"none"})
    BY <2>2
  <2> QED
    BY <1>2, <2>1, <2>2, <2>3, ServiceNamesWrite, WrittenIsRead
<1> QED
  BY <1>1, <1>2

-----------------------------------------------------------------------------
(* The invariant behind the properties: the daemon serves what its options *)
(* select, or else its record; and what is stored grants what was asked of *)
(* it, so that nothing was asked if nothing is stored.                     *)
ServedByRecord ==
  Active => runtime.served = Enabled(Over(runtime.options, runtime.value))

WishesStored ==
  /\ \A service \in Services : Granted(service, Enabled(stored))
  /\ stored = <<>> => wishes = NoWish

SelectionInv ==
  SelectionTypeOK /\ ServedByRecord /\ WishesStored /\ UpdatesHonoured

(* What a start leaves running, whichever command it is part of: nothing,  *)
(* or a daemon that serves what the value or the options select, for the   *)
(* shell's selection is in the environment already.                        *)
Serves(up, env, backend, services, options) ==
  /\ up.backend \in Backends
  /\ Startable(up.value)
  /\ up.served \in (SUBSET Services) \ {{}}
  /\ up.attached \in BOOLEAN /\ up.detached \in BOOLEAN
  /\ up.value = Over(services, Over(options, env))
  /\ up.served = Enabled(Over(up.options, up.value))
  /\ up.served = Enabled(IF backend = "docker" THEN Over(options, up.value) ELSE up.value)

LEMMA StartedServes ==
  ASSUME NEW env, NEW backend \in Backends, NEW services, NEW options,
         NEW attached \in BOOLEAN, NEW shell, env = <<>> => shell = <<>>,
         Started(env, backend, services, options, attached, shell) # NoRuntime
  PROVE  Serves(Started(env, backend, services, options, attached, shell),
                env, backend, services, options)
<1> DEFINE value == Over(services, Over(options, env))
           daemon == DaemonValue(backend, value, options, shell)
           kept == IF backend = "docker" THEN options ELSE <<>>
           up == [backend |-> backend, value |-> value, served |-> Enabled(daemon),
                  options |-> kept, attached |-> attached,
                  detached |-> backend = "docker" \/ ~attached]
<1>1. /\ Started(env, backend, services, options, attached, shell) = up
      /\ Startable(value) /\ Startable(daemon)
  BY DEF Started
<1>2. daemon = IF backend = "docker" THEN Over(options, value) ELSE value
  BY DEF DaemonValue, Over
<1>3. daemon = Over(kept, value)
  BY <1>2 DEF Over
<1>4. Enabled(daemon) \in SUBSET Services /\ Enabled(daemon) # {}
  BY <1>1, EnabledAreServices DEF Startable
<1>5. value = Over(services, Over(options, env))
  OBVIOUS
<1> HIDE DEF daemon, value, kept
<1>6. /\ up.backend = backend /\ up.value = value /\ up.served = Enabled(daemon)
      /\ up.options = kept /\ up.attached = attached
      /\ up.detached \in BOOLEAN
  OBVIOUS
<1> HIDE DEF up
<1>7. Serves(up, env, backend, services, options)
  BY <1>1, <1>2, <1>3, <1>4, <1>5, <1>6 DEF Serves
<1> QED
  BY <1>1, <1>7

LEMMA NothingWished ==
  ASSUME NEW selection
  PROVE  /\ NoWish \in [Services -> {"none", "on", "off"}]
         /\ \A service \in Services : NoWish[service] = "none"
BY DEF NoWish

LEMMA SelectionInitially == SelectionInit => SelectionInv
<1> SUFFICES ASSUME SelectionInit PROVE SelectionInv
  OBVIOUS
<1>1. /\ stored = <<>> /\ runtime = NoRuntime /\ commands = 0 /\ wishes = NoWish
  BY DEF SelectionInit
<1>2. \A service \in Services : \A selection : Granted(service, selection)
  BY <1>1, NothingWished DEF Granted
<1>3. SelectionTypeOK
  BY <1>1, NothingWished, SelectionAssumption DEF SelectionTypeOK
<1> QED
  BY <1>1, <1>2, <1>3
     DEF SelectionInv, ServedByRecord, WishesStored, UpdatesHonoured, BroughtUp, Active

(* A start, as a command or as part of one, keeps the invariant.           *)
LEMMA StartKeeps ==
  ASSUME SelectionInv, Command, UNCHANGED stored,
         NEW env, NEW backend \in Backends, NEW services, NEW options,
         NEW attached \in BOOLEAN, NEW shell, env = <<>> => shell = <<>>,
         runtime' = Started(env, backend, services, options, attached, shell),
         wishes' \in {wishes, NoWish},
         BroughtUp' => \/ wishes' = NoWish
                       \/ /\ wishes' = wishes
                          /\ runtime'.served = Enabled(stored)
  PROVE  SelectionInv'
<1>1. /\ \A service \in Services :
           wishes'[service] = wishes[service] \/ wishes'[service] = "none"
      /\ wishes' \in [Services -> {"none", "on", "off"}]
  BY NothingWished DEF SelectionInv, SelectionTypeOK
<1>2. runtime' = NoRuntime \/ Serves(runtime', env, backend, services, options)
  BY StartedServes
<1>3. SelectionTypeOK'
  <2>1. \/ runtime' = NoRuntime
        \/ /\ runtime'.backend \in Backends
           /\ Startable(runtime'.value)
           /\ runtime'.served \in (SUBSET Services) \ {{}}
           /\ runtime'.attached \in BOOLEAN /\ runtime'.detached \in BOOLEAN
    BY <1>2 DEF Serves
  <2>2. commands' \in 0 .. MaxCommand
    BY SelectionAssumption DEF Command, SelectionInv, SelectionTypeOK
  <2> QED
    BY <1>1, <2>1, <2>2 DEF SelectionInv, SelectionTypeOK
<1>4. ServedByRecord'
  BY <1>2 DEF ServedByRecord, Active, Serves
<1>5. \A service \in Services : Granted(service, Enabled(stored))'
  BY <1>1 DEF SelectionInv, WishesStored, Granted
<1>6. WishesStored'
  BY <1>5 DEF SelectionInv, WishesStored
<1>7. UpdatesHonoured'
  <2> SUFFICES ASSUME BroughtUp', NEW service \in Services
               PROVE  Granted(service, runtime.served)'
    BY DEF UpdatesHonoured
  <2>1. CASE wishes' = NoWish
    BY <2>1, NothingWished DEF Granted
  <2>2. CASE runtime'.served = Enabled(stored)
    BY <2>2, <1>5
  <2> QED
    BY <2>1, <2>2
<1> QED
  BY <1>3, <1>4, <1>6, <1>7 DEF SelectionInv

LEMMA StartCommandKeeps ==
  ASSUME SelectionInv, NEW backend \in Backends, NEW services, NEW options,
         NEW mode \in Modes, NEW shell, Start(backend, services, options, mode, shell)
  PROVE  SelectionInv'
<1> DEFINE env == Effective(shell)
           attached == AttachedBy({mode})
<1>1. /\ Command /\ UNCHANGED stored
      /\ env = <<>> => shell = <<>>
      /\ runtime' = Started(env, backend, services, options, attached, shell)
      /\ attached \in BOOLEAN
      /\ wishes' \in {wishes, NoWish}
  BY DEF Start, Effective, Over, AttachedBy
<1> HIDE DEF env, attached
<1>2. ASSUME BroughtUp', wishes' # NoWish
      PROVE  wishes' = wishes /\ runtime'.served = Enabled(stored)
  <2>1. services = <<>> /\ options = <<>> /\ shell = <<>>
    BY <1>2 DEF Start
  <2>2. runtime' # NoRuntime
    BY <1>2 DEF BroughtUp, Active
  <2>3. Serves(runtime', env, backend, services, options)
    BY <1>1, <2>2, StartedServes
  <2>4. env = stored
    BY <2>1 DEF env, Effective, Over
  <2> QED
    BY <1>1, <1>2, <2>1, <2>3, <2>4 DEF Over, Serves
<1> QED
  BY <1>1, <1>2, StartKeeps

(* A restart replays the record.  What is stored counts over it, and       *)
(* nothing was wished if nothing is.                                       *)
LEMMA RestartKeeps ==
  ASSUME SelectionInv, NEW mode \in Modes, NEW backend \in Backends, NEW shell,
         Restart(mode, backend, shell)
  PROVE  SelectionInv'
<1> DEFINE env == RestartEnv(shell)
           attached == AttachedBy(RestartArguments(mode))
<1>1. /\ Command /\ UNCHANGED stored
      /\ env = <<>> => shell = <<>>
      /\ runtime' = Started(env, backend, <<>>, runtime.options, attached, shell)
      /\ attached \in BOOLEAN
      /\ wishes' = IF shell = <<>> THEN wishes ELSE NoWish
      /\ last' = [command |-> "restart", shell |-> shell, replayed |-> runtime.options]
  BY DEF Restart, RestartEnv, Effective, Over, AttachedBy
<1> HIDE DEF env, attached
<1>2. ASSUME BroughtUp', wishes' # NoWish
      PROVE  wishes' = wishes /\ runtime'.served = Enabled(stored)
  <2>1. shell = <<>> /\ runtime.options = <<>> /\ wishes' = wishes
    BY <1>1, <1>2 DEF BroughtUp
  <2>2. runtime' # NoRuntime
    BY <1>2 DEF BroughtUp, Active
  <2>3. Serves(runtime', env, backend, <<>>, <<>>)
    BY <1>1, <2>1, <2>2, StartedServes
  <2>4. stored # <<>>
    BY <1>2, <2>1 DEF SelectionInv, WishesStored
  <2>5. env = stored
    BY <2>1, <2>4 DEF env, RestartEnv, Effective, Over
  <2> QED
    BY <2>1, <2>3, <2>5 DEF Over, Serves
<1> QED
  BY <1>1, <1>2, StartKeeps

LEMMA RestartStoppedKeeps ==
  ASSUME SelectionInv, NEW mode \in Modes, NEW backend \in Backends, NEW shell,
         RestartStopped(mode, backend, shell)
  PROVE  SelectionInv'
<1> DEFINE env == Effective(shell)
           attached == AttachedBy(IF mode = "--detached" THEN {mode} ELSE {})
<1>1. /\ Command /\ UNCHANGED stored
      /\ env = <<>> => shell = <<>>
      /\ runtime' = Started(env, backend, <<>>, <<>>, attached, shell)
      /\ attached \in BOOLEAN
      /\ wishes' = IF shell = <<>> THEN wishes ELSE NoWish
  BY DEF RestartStopped, Effective, Over, AttachedBy
<1> HIDE DEF env, attached
<1>2. ASSUME BroughtUp', wishes' # NoWish
      PROVE  wishes' = wishes /\ runtime'.served = Enabled(stored)
  <2>1. shell = <<>>
    BY <1>1, <1>2
  <2>2. runtime' # NoRuntime
    BY <1>2 DEF BroughtUp, Active
  <2>3. Serves(runtime', env, backend, <<>>, <<>>)
    BY <1>1, <2>2, StartedServes
  <2>4. env = stored
    BY <2>1 DEF env, Effective, Over
  <2> QED
    BY <1>1, <2>1, <2>3, <2>4 DEF Over, Serves
<1> QED
  BY <1>1, <1>2, StartKeeps

(* services enable and disable.  What they store grants what they ask for, *)
(* and what was asked for before as far as the services they start from    *)
(* grant it: those of the file do.                                         *)
LEMMA UpdateServicesKeeps ==
  ASSUME SelectionInv, NEW enable \in BOOLEAN, NEW words, NEW shell,
         UpdateServices(enable, words, shell)
  PROVE  SelectionInv'
<1> DEFINE named == Enabled(words)
           current == Enabled(Base(shell))
           outcome == IF enable THEN current \union named ELSE current \ named
<1>1. /\ Command /\ UNCHANGED runtime
      /\ stored' = Join(outcome)
      /\ last' = [command |-> "services"]
      /\ wishes' = [s \in Services |->
                      IF s \in named THEN IF enable THEN "on" ELSE "off"
                      ELSE IF (~Active /\ shell = <<>>) \/ Granted(s, current)
                      THEN wishes[s] ELSE "none"]
  BY DEF UpdateServices
<1>2. outcome \in SUBSET Services
  BY EnabledAreServices
<1>3. /\ stored' \in Seq(Services \union {"none"})
      /\ stored' # <<>>
      /\ Enabled(stored') = outcome
  BY <1>1, <1>2, JoinIsReadBack
<1>4. ASSUME NEW s \in Services PROVE Granted(s, Enabled(stored))'
  <2>1. CASE s \in named
    BY <1>1, <1>3, <2>1 DEF Granted
  <2>2. CASE s \notin named /\ wishes'[s] = "none"
    BY <2>2 DEF Granted
  <2>3. CASE s \notin named /\ Granted(s, current) /\ wishes'[s] = wishes[s]
    BY <1>3, <2>3 DEF Granted
  <2>4. CASE s \notin named /\ ~Active /\ shell = <<>>
    <3>1. current = Enabled(stored)
      BY <2>4 DEF Base, Effective, Over
    <3>2. Granted(s, current)
      BY <3>1 DEF SelectionInv, WishesStored
    <3> QED
      BY <1>1, <2>4, <3>2, <2>3
  <2> QED
    BY <1>1, <2>1, <2>2, <2>3, <2>4
<1>5. SelectionTypeOK'
  BY <1>1, <1>3, SelectionAssumption DEF SelectionInv, SelectionTypeOK, Command
<1>6. ServedByRecord' /\ WishesStored' /\ UpdatesHonoured'
  BY <1>1, <1>3, <1>4
     DEF SelectionInv, ServedByRecord, WishesStored, UpdatesHonoured, BroughtUp, Active
<1> QED
  BY <1>5, <1>6 DEF SelectionInv

LEMMA EndKeeps ==
  ASSUME SelectionInv, Stop \/ RuntimeDies
  PROVE  SelectionInv'
<1>1. /\ runtime' = NoRuntime
      /\ UNCHANGED <<stored, commands, wishes>>
  BY DEF Stop, RuntimeDies
<1> QED
  BY <1>1 DEF SelectionInv, SelectionTypeOK, ServedByRecord, WishesStored, UpdatesHonoured,
              BroughtUp, Active, Granted

LEMMA SelectionKeeps ==
  SelectionInv /\ [SelectionNext]_selectionVars => SelectionInv'
<1> SUFFICES ASSUME SelectionInv, [SelectionNext]_selectionVars PROVE SelectionInv'
  OBVIOUS
<1>1. CASE UNCHANGED selectionVars
  BY <1>1 DEF selectionVars, SelectionInv, SelectionTypeOK, ServedByRecord, WishesStored,
              UpdatesHonoured, BroughtUp, Active, Granted
<1>2. ASSUME NEW backend \in Backends, NEW shell \in ShellValues,
             \/ \E services \in StartServices, options \in StartEnv, mode \in Modes :
                  Start(backend, services, options, mode, shell)
             \/ \E mode \in Modes : Restart(mode, backend, shell)
             \/ \E mode \in Modes : RestartStopped(mode, backend, shell)
      PROVE  SelectionInv'
  BY <1>2, StartCommandKeeps, RestartKeeps, RestartStoppedKeeps
<1>3. ASSUME NEW enable \in BOOLEAN, NEW words \in Updates, NEW shell \in ShellValues,
             UpdateServices(enable, words, shell)
      PROVE  SelectionInv'
  BY <1>3, UpdateServicesKeeps
<1> QED
  BY <1>1, <1>2, <1>3, EndKeeps DEF SelectionNext

LEMMA SelectionHolds == SelectionSpec => []SelectionInv
BY SelectionInitially, SelectionKeeps, PTL DEF SelectionSpec

(***************************************************************************)
(* The file, the record and the daemon's services are what their homes may *)
(* hold, whatever values are given.  About: joinServices, which writes     *)
(* names of services only, and RequireServices.                            *)
(***************************************************************************)
THEOREM SelectionTypeCorrect == SelectionSpec => []SelectionTypeOK
BY SelectionHolds, PTL DEF SelectionInv

(***************************************************************************)
(* What services enable and disable asked for is so after the next start   *)
(* or restart, for any values and any number of commands.  About:          *)
(* updateServices, which may start from the runtime's record, and the      *)
(* precedence of the stored file over the record in runRestart.            *)
(***************************************************************************)
THEOREM UpdatesAreHonoured == SelectionSpec => []UpdatesHonoured
BY SelectionHolds, PTL DEF SelectionInv

(***************************************************************************)
(* The record describes what the daemon serves, for any values.  About:    *)
(* the environment of a process and the one of a container, which are made *)
(* of the same values in different orders.                                 *)
(***************************************************************************)
THEOREM RecordsDescribe == SelectionSpec => []DescribedAsServed
<1>1. SelectionInv => DescribedAsServed
  BY DEF SelectionInv, ServedByRecord, DescribedAsServed, Over
<1> QED
  BY <1>1, SelectionHolds, PTL

(***************************************************************************)
(* As long as no selection was stored, a restart serves what was served    *)
(* before, or nothing, for any values and both backends.  About: runRestart*)
(* and runStart, which replay the record's services and --env options.     *)
(***************************************************************************)
THEOREM RestartsKeepServices == SelectionSpec => RestartKeepsServices
<1>1. ASSUME SelectionInv, Active, stored = <<>>,
             NEW mode \in Modes, NEW backend \in Backends, Restart(mode, backend, <<>>),
             runtime' # NoRuntime
      PROVE  runtime'.served = runtime.served
  <2> DEFINE env == RestartEnv(<<>>)
             attached == AttachedBy(RestartArguments(mode))
  <2>1. /\ runtime' = Started(env, backend, <<>>, runtime.options, attached, <<>>)
        /\ attached \in BOOLEAN
    BY <1>1 DEF Restart, AttachedBy
  <2>2. env = runtime.value
    BY <1>1 DEF RestartEnv, Effective, Over
  <2> HIDE DEF env, attached
  <2>3. Serves(runtime', env, backend, <<>>, runtime.options)
    BY <1>1, <2>1, StartedServes
  <2>4. runtime'.served = Enabled(Over(runtime.options, runtime.value))
    BY <2>2, <2>3 DEF Over, Serves
  <2> QED
    BY <1>1, <2>4 DEF SelectionInv, ServedByRecord
<1>2. SelectionInv /\ [SelectionNext]_selectionVars =>
        [ /\ Active /\ stored = <<>>
          /\ \E mode \in Modes, backend \in Backends : Restart(mode, backend, <<>>)
          => runtime' = NoRuntime \/ runtime'.served = runtime.served ]_selectionVars
  BY <1>1
<1> QED
  BY <1>2, SelectionHolds, PTL DEF SelectionSpec, RestartKeepsServices
=============================================================================
