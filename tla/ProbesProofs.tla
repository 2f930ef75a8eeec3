---------------------------- MODULE ProbesProofs ----------------------------
(* Machine-checked proofs about Probes. *)
EXTENDS Probes, FiniteSetTheorems, TLAPS

-----------------------------------------------------------------------------
(* Objects and goroutines that exist. *)

LEMMA Objects ==
  ASSUME TypeOK, NEW p \in Probers
  PROVE  /\ prober[p] # NoProber <=> prober[p] \in Prober
         /\ prober[p].loop = "running" => prober[p] \in Prober
         /\ ~prober[p].cancelled => prober[p] \in Prober
         /\ prober[p] \in Prober => prober[p].loop # "none"
  BY DEF TypeOK, Prober, NoProber

LEMMA Goroutines ==
  ASSUME TypeOK, NEW f \in Flights
  PROVE  /\ flight[f] # NoFlight <=> flight[f] \in Flight
         /\ flight[f].of \in Probers <=> flight[f] \in Flight
         /\ flight[f].stage # "none" <=> flight[f] \in Flight
  BY ProbesAssumption DEF TypeOK, Flight, NoFlight, Verdicts

\* The invariant speaks of everything but the timers, the namespaces and the
\* credentials.
LEMMA Frame ==
  ASSUME IInv, TypeOK', UNCHANGED <<inst, queue, rec, probers, runVars>>
  PROVE  IInv'
  BY DEF IInv, runVars, NoLostLoop, RegisteredRuns, BusyInv, LateInv, EndedInv
-----------------------------------------------------------------------------
(* The probe manager. *)

\* A tick starts a probe.
LEMMA Ticks ==
  ASSUME IInv, NEW p \in Probers, TickLoop(p)
  PROVE  IInv'
  <1>1. PICK f \in Flights :
          /\ flight[f] = NoFlight
          /\ flight' = [flight EXCEPT ![f] =
               [of |-> p, stage |-> "probing", late |-> prober[p].cancelled,
                ctxErr |-> IF prober[p].cancelled THEN "canceled" ELSE "nil"]]
    BY DEF TickLoop
  <1>2. /\ prober[p] \in Prober /\ ~prober[p].probeRunning
        /\ prober' = [prober EXCEPT ![p].probeRunning = TRUE]
        /\ UNCHANGED <<inst, nsExists, creds, queue, timer, rec, probers>>
    BY Objects DEF TickLoop, MaySpawn, IInv, envVars, recVars
  <1>3. prober'[p] \in Prober /\ prober'[p].cancelled = prober[p].cancelled
        /\ prober'[p].loop = prober[p].loop /\ prober'[p].name = prober[p].name
        /\ prober'[p].probeRunning
    BY <1>2 DEF IInv, TypeOK, Prober
  <1>4. \A q \in Probers \ {p} : prober'[q] = prober[q]
    BY <1>2 DEF IInv, TypeOK
  <1>5. flight'[f] \in Flight /\ flight'[f].of = p /\ (flight'[f].late => flight'[f].ctxErr = "canceled")
        /\ flight'[f].stage = "probing"
    BY <1>1, <1>2 DEF IInv, TypeOK, Flight, Prober
  <1>6. \A g \in Flights \ {f} : flight'[g] = flight[g]
    BY <1>1 DEF IInv, TypeOK
  <1>7. TypeOK'
    BY <1>1, <1>2, <1>3, <1>5 DEF IInv, TypeOK
  <1>8. NoLostLoop' /\ RegisteredRuns'
    BY <1>2, <1>3, <1>4 DEF IInv, TypeOK, NoLostLoop, RegisteredRuns
  <1>9. \A g \in Flights : flight[g].of # p
    BY <1>2 DEF IInv, BusyInv
  <1>10. BusyInv'
    <2>1. prober'[p] # NoProber
      BY <1>3 DEF Prober, NoProber
    <2>2. flight[f].of \notin Probers
      BY <1>1, ProbesAssumption DEF NoFlight
    <2> QED
      BY <1>3, <1>4, <1>5, <1>6, <1>9, <2>1, <2>2 DEF IInv, BusyInv
  <1>11. LateInv'
    BY <1>5, <1>6 DEF IInv, LateInv
  <1>12. EndedInv'
    BY <1>2 DEF IInv, EndedInv
  <1> QED
    BY <1>7, <1>8, <1>10, <1>11, <1>12 DEF IInv

\* A step of one probe that leaves it in flight.
LEMMA ProbeSteps ==
  ASSUME IInv, NEW f \in Flights, NEW fl \in Flight, flight[f] \in Flight,
         flight' = [flight EXCEPT ![f] = fl],
         fl.of = flight[f].of, fl.late = flight[f].late,
         fl.late => fl.ctxErr = "canceled" /\ fl.stage \notin {"fail-timeout", "fail-unknown"},
         UNCHANGED <<envVars, recVars, probers, prober>>
  PROVE  IInv'
  <1>1. flight'[f] = fl /\ \A g \in Flights \ {f} : flight'[g] = flight[g]
    BY DEF IInv, TypeOK
  <1>2. UNCHANGED <<inst, nsExists, creds, queue, timer, rec, probers, prober>>
    BY DEF envVars, recVars
  <1>3. TypeOK'
    BY <1>2 DEF IInv, TypeOK
  <1>4. \A g \in Flights : flight'[g].of = flight[g].of
    BY <1>1
  <1>5. BusyInv'
    BY <1>2, <1>4 DEF IInv, BusyInv
  <1>6. LateInv'
    BY <1>1 DEF IInv, LateInv
  <1> QED
    BY <1>2, <1>3, <1>5, <1>6 DEF IInv, NoLostLoop, RegisteredRuns, EndedInv

LEMMA Probes1 ==
  ASSUME IInv, NEW f \in Flights, Deadline(f) \/ ProbeReturns(f) \/ Classify(f)
  PROVE  IInv'
  <1>1. flight[f] \in Flight /\ flight[f].of \in Probers
    BY Goroutines DEF IInv, Deadline, ProbeReturns, Classify
  <1>2. flight[f].late => flight[f].ctxErr = "canceled"
    BY <1>1 DEF IInv, LateInv
  <1>3. CASE Deadline(f)
    <2> DEFINE fl == [flight[f] EXCEPT !.ctxErr = "deadline"]
    <2>1. fl \in Flight /\ fl.of = flight[f].of /\ fl.late = flight[f].late /\ ~fl.late
      BY <1>1, <1>2, <1>3 DEF Flight, Deadline
    <2> QED
      BY <1>1, <1>3, <2>1, ProbeSteps DEF Deadline
  <1>4. CASE ProbeReturns(f)
    <2>1. PICK s \in {"failed", "success"} : flight' = [flight EXCEPT ![f].stage = s]
      BY <1>4 DEF ProbeReturns
    <2> DEFINE fl == [flight[f] EXCEPT !.stage = s]
    <2>2. fl \in Flight /\ fl.of = flight[f].of /\ fl.late = flight[f].late
          /\ fl.stage = s /\ fl.ctxErr = flight[f].ctxErr
      BY <1>1 DEF Flight, Verdicts
    <2> QED
      BY <1>1, <1>2, <1>4, <2>1, <2>2, ProbeSteps DEF ProbeReturns
  <1>5. CASE Classify(f)
    <2> DEFINE fl == [flight[f] EXCEPT !.stage = Verdict(flight[f].ctxErr)]
    <2>1. Verdict(flight[f].ctxErr) \in Verdicts
          /\ (flight[f].ctxErr = "canceled" => Verdict(flight[f].ctxErr) = "canceled")
      BY DEF Verdict, Verdicts
    <2>2. fl \in Flight /\ fl.of = flight[f].of /\ fl.late = flight[f].late
          /\ fl.stage = Verdict(flight[f].ctxErr) /\ fl.ctxErr = flight[f].ctxErr
      BY <1>1, <2>1 DEF Flight
    <2> QED
      BY <1>1, <1>2, <1>5, <2>1, <2>2, ProbeSteps DEF Classify
  <1> QED
    BY <1>3, <1>4, <1>5

\* What is left of a prober whose loop or probe ended.
LEMMA CollectedIs ==
  ASSUME TypeOK, NEW p \in Probers, NEW pr \in Prober, NEW inFlight
  PROVE  /\ Collected(p, pr, inFlight) \in [Probers -> Prober \cup {NoProber}]
         /\ \A q \in Probers \ {p} : Collected(p, pr, inFlight)[q] = prober[q]
         /\ \/ Collected(p, pr, inFlight)[p] = pr
            \/ /\ Collected(p, pr, inFlight)[p] = NoProber
               /\ pr.loop = "done" /\ inFlight = {}
  BY DEF Collected, TypeOK

\* A cancelled loop ends.
LEMMA LoopEnds ==
  ASSUME IInv, NEW p \in Probers, EndLoop(p)
  PROVE  IInv'
  <1> DEFINE pr == [prober[p] EXCEPT !.loop = "done"]
  <1>1. /\ prober[p] \in Prober /\ prober[p].cancelled
        /\ prober' = Collected(p, pr, InFlight(p))
        /\ UNCHANGED <<inst, nsExists, creds, queue, timer, rec, probers, flight>>
    BY Objects DEF EndLoop, IInv, envVars, recVars
  <1>2. pr \in Prober /\ pr.cancelled /\ pr.probeRunning = prober[p].probeRunning
    BY <1>1 DEF Prober
  <1> HIDE DEF pr
  <1>3. /\ prober' \in [Probers -> Prober \cup {NoProber}]
        /\ \A q \in Probers \ {p} : prober'[q] = prober[q]
        /\ prober'[p] = pr \/ (prober'[p] = NoProber /\ InFlight(p) = {})
    BY <1>1, <1>2, CollectedIs DEF IInv
  <1>4. TypeOK'
    BY <1>1, <1>3 DEF IInv, TypeOK
  <1>5. prober'[p].cancelled
    BY <1>2, <1>3 DEF NoProber
  <1>6. NoLostLoop' /\ RegisteredRuns'
    BY <1>1, <1>3, <1>5 DEF IInv, TypeOK, NoLostLoop, RegisteredRuns
  <1>7. BusyInv'
    <2>1. pr # NoProber /\ prober[p] # NoProber
      BY <1>1, <1>2 DEF Prober, NoProber
    <2>2. prober'[p] = NoProber => \A f \in Flights : flight[f].of # p
      BY <1>3, <2>1 DEF InFlight
    <2> QED
      BY <1>1, <1>2, <1>3, <2>1, <2>2 DEF IInv, BusyInv
  <1> QED
    BY <1>1, <1>4, <1>6, <1>7 DEF IInv, LateInv, EndedInv

\* A probe is recorded and its goroutine ends.
LEMMA ProbeEnds ==
  ASSUME IInv, NEW f \in Flights, Record(f)
  PROVE  IInv'
  <1> DEFINE p == flight[f].of
             pr == [prober[p] EXCEPT !.probeRunning = FALSE]
  <1>1. flight[f] \in Flight /\ p \in Probers
    BY Goroutines DEF IInv, Record, Verdicts
  <1>2. /\ prober' = Collected(p, pr, InFlight(p) \ {f})
        /\ flight' = [flight EXCEPT ![f] = NoFlight]
        /\ UNCHANGED <<inst, nsExists, creds, queue, timer, rec, probers>>
    BY DEF Record, envVars, recVars
  <1>3. prober[p] \in Prober /\ prober[p] # NoProber
    BY <1>1, Objects DEF IInv, BusyInv
  <1>4. /\ pr \in Prober /\ pr.cancelled = prober[p].cancelled /\ ~pr.probeRunning
        /\ pr.loop = prober[p].loop /\ pr.name = prober[p].name
    BY <1>3 DEF Prober
  <1> HIDE DEF pr
  <1>5. /\ prober' \in [Probers -> Prober \cup {NoProber}]
        /\ \A q \in Probers \ {p} : prober'[q] = prober[q]
        /\ prober'[p] = pr \/ (prober'[p] = NoProber /\ pr.loop = "done")
    BY <1>1, <1>2, <1>4, CollectedIs DEF IInv
  <1>6. flight'[f] = NoFlight /\ \A g \in Flights \ {f} : flight'[g] = flight[g]
    BY <1>2 DEF IInv, TypeOK
  <1>7. TypeOK'
    BY <1>2, <1>5 DEF IInv, TypeOK
  <1>8. NoLostLoop'
    <2>1. ~prober'[p].cancelled => prober'[p] = pr /\ ~prober[p].cancelled
      BY <1>4, <1>5 DEF NoProber
    <2> SUFFICES ASSUME NEW q \in Probers, ~prober'[q].cancelled
                 PROVE  prober'[q].loop = "running" /\ probers[prober'[q].name] = q
      BY <1>2 DEF NoLostLoop
    <2>2. CASE q = p
      BY <1>4, <2>1, <2>2 DEF IInv, NoLostLoop
    <2>3. CASE q # p
      BY <1>5, <2>3 DEF IInv, NoLostLoop
    <2> QED
      BY <2>2, <2>3
  <1>9. RegisteredRuns'
    <2>1. ~prober[p].cancelled => prober[p].loop = "running"
      BY <1>1 DEF IInv, NoLostLoop
    <2>2. ~prober[p].cancelled => prober'[p] = pr
      BY <1>4, <1>5, <2>1
    <2> SUFFICES ASSUME NEW n \in Names, probers[n] # None
                 PROVE  ~prober'[probers[n]].cancelled /\ prober'[probers[n]].name = n
      BY <1>2 DEF RegisteredRuns
    <2>3. probers[n] \in Probers /\ ~prober[probers[n]].cancelled /\ prober[probers[n]].name = n
      BY DEF IInv, TypeOK, RegisteredRuns
    <2>4. CASE probers[n] = p
      BY <1>4, <2>2, <2>3, <2>4
    <2>5. CASE probers[n] # p
      BY <1>5, <2>3, <2>5
    <2> QED
      BY <2>4, <2>5
  <1>10. BusyInv'
    <2>1. flight'[f].of \notin Probers
      BY <1>6, ProbesAssumption DEF NoFlight
    <2>2. \A g \in Flights \ {f} : flight[g].of # p
      BY <1>1 DEF IInv, BusyInv
    <2>3. ~(prober'[p] # NoProber /\ prober'[p].probeRunning)
      BY <1>4, <1>5
    <2> QED
      BY <1>5, <1>6, <2>1, <2>2, <2>3 DEF IInv, BusyInv
  <1>11. LateInv'
    BY <1>6, ProbesAssumption DEF IInv, LateInv, NoFlight
  <1> QED
    BY <1>2, <1>7, <1>8, <1>9, <1>10, <1>11 DEF IInv, EndedInv
-----------------------------------------------------------------------------
(* The reconciler. *)

\* What cancelling the prober of an instance does.
LEMMA Cancels ==
  ASSUME IInv, NEW n \in Names
  PROVE  LET q == probers[n]
             pr == CancelledProbers(q)
             fl == CancelledFlights(q)
         IN /\ pr \in [Probers -> Prober \cup {NoProber}]
            /\ \A p \in Probers :
                 /\ pr[p] = NoProber <=> prober[p] = NoProber
                 /\ prober[p] # NoProber =>
                      /\ pr[p].probeRunning = prober[p].probeRunning
                      /\ pr[p].loop = prober[p].loop /\ pr[p].name = prober[p].name
                 /\ ~pr[p].cancelled <=> p # q /\ ~prober[p].cancelled
            /\ fl \in [Flights -> Flight \cup {NoFlight}]
            /\ \A f \in Flights :
                 /\ fl[f].of = flight[f].of
                 /\ fl[f].of \in Probers =>
                      /\ fl[f].late = flight[f].late /\ fl[f].stage = flight[f].stage
                      /\ flight[f].ctxErr = "canceled" => fl[f].ctxErr = "canceled"
  <1> DEFINE q == probers[n]
             pr == CancelledProbers(q)
             fl == CancelledFlights(q)
  <1>1. q \in Probers \cup {None} /\ prober \in [Probers -> Prober \cup {NoProber}]
    BY DEF IInv, TypeOK
  <1>2. q # None => q \in Probers /\ prober[q] \in Prober /\ prober[q] # NoProber
    BY <1>1, Objects DEF IInv, RegisteredRuns
  <1>3. /\ pr \in [Probers -> Prober \cup {NoProber}]
        /\ \A p \in Probers :
             /\ pr[p] = NoProber <=> prober[p] = NoProber
             /\ prober[p] # NoProber =>
                  /\ pr[p].probeRunning = prober[p].probeRunning
                  /\ pr[p].loop = prober[p].loop /\ pr[p].name = prober[p].name
             /\ ~pr[p].cancelled <=> p # q /\ ~prober[p].cancelled
    <2>1. CASE q = None
      BY <1>1, <2>1, ProbesAssumption DEF CancelledProbers
    <2>2. CASE q # None
      <3>1. pr = [prober EXCEPT ![q].cancelled = TRUE]
        BY <2>2 DEF CancelledProbers
      <3>2. /\ pr[q] \in Prober /\ pr[q].cancelled /\ pr[q].loop = prober[q].loop
            /\ pr[q].name = prober[q].name /\ pr[q].probeRunning = prober[q].probeRunning
        <4>1. pr[q] = [prober[q] EXCEPT !.cancelled = TRUE]
          BY <1>1, <1>2, <2>2, <3>1
        <4> HIDE DEF pr
        <4> QED
          BY <1>2, <2>2, <4>1 DEF Prober
      <3>3. pr[q] # NoProber
        BY <3>2 DEF Prober, NoProber
      <3>4. \A p \in Probers \ {q} : pr[p] = prober[p]
        BY <1>1, <3>1
      <3>5. pr \in [Probers -> Prober \cup {NoProber}]
        BY <1>1, <3>1, <3>2
      <3> QED
        BY <1>2, <2>2, <3>2, <3>3, <3>4, <3>5
    <2> QED
      BY <2>1, <2>2
  <1>4. /\ fl \in [Flights -> Flight \cup {NoFlight}]
        /\ \A f \in Flights :
             /\ fl[f].of = flight[f].of
             /\ fl[f].of \in Probers =>
                  /\ fl[f].late = flight[f].late /\ fl[f].stage = flight[f].stage
                  /\ flight[f].ctxErr = "canceled" => fl[f].ctxErr = "canceled"
    <2>1. \A f \in Flights : fl[f] =
            IF q # None /\ f \in InFlight(q) /\ flight[f].ctxErr = "nil"
            THEN [flight[f] EXCEPT !.ctxErr = "canceled"] ELSE flight[f]
      BY DEF CancelledFlights
    <2>2. ASSUME NEW f \in Flights
          PROVE  /\ fl[f] \in Flight \cup {NoFlight} /\ fl[f].of = flight[f].of
                 /\ fl[f].of \in Probers =>
                      /\ fl[f].late = flight[f].late /\ fl[f].stage = flight[f].stage
                      /\ flight[f].ctxErr = "canceled" => fl[f].ctxErr = "canceled"
      <3>1. CASE q # None /\ f \in InFlight(q) /\ flight[f].ctxErr = "nil"
        <4>1. flight[f] \in Flight
          BY <1>2, <3>1, Goroutines DEF IInv, InFlight
        <4>2. fl[f] = [flight[f] EXCEPT !.ctxErr = "canceled"]
          BY <2>1, <3>1
        <4> QED
          BY <3>1, <4>1, <4>2 DEF Flight
      <3>2. CASE ~(q # None /\ f \in InFlight(q) /\ flight[f].ctxErr = "nil")
        BY <2>1, <3>2 DEF IInv, TypeOK
      <3> QED
        BY <3>1, <3>2
    <2>3. fl \in [Flights -> Flight \cup {NoFlight}]
      BY <2>2 DEF CancelledFlights
    <2> QED
      BY <2>2, <2>3
  <1> QED
    BY <1>3, <1>4

\* StartProbe and StopProbe keep what the manager relies on.
Manager ==
  /\ probers \in [Names -> Probers \cup {None}]
  /\ prober \in [Probers -> Prober \cup {NoProber}]
  /\ flight \in [Flights -> Flight \cup {NoFlight}]
  /\ NoLostLoop /\ RegisteredRuns /\ BusyInv /\ LateInv

LEMMA Stops ==
  ASSUME IInv, NEW n \in Names, StopProbe(n)
  PROVE  Manager' /\ probers'[n] = None
  <1>1. probers' = [probers EXCEPT ![n] = None] /\ probers \in [Names -> Probers \cup {None}]
    BY DEF StopProbe, IInv, TypeOK
  <1>2. /\ prober' \in [Probers -> Prober \cup {NoProber}]
        /\ \A p \in Probers :
             /\ prober'[p] = NoProber <=> prober[p] = NoProber
             /\ prober[p] # NoProber =>
                  /\ prober'[p].probeRunning = prober[p].probeRunning
                  /\ prober'[p].loop = prober[p].loop /\ prober'[p].name = prober[p].name
             /\ ~prober'[p].cancelled <=> p # probers[n] /\ ~prober[p].cancelled
    BY Cancels DEF StopProbe
  <1>3. /\ flight' \in [Flights -> Flight \cup {NoFlight}]
        /\ \A f \in Flights :
             /\ flight'[f].of = flight[f].of
             /\ flight'[f].of \in Probers =>
                  /\ flight'[f].late = flight[f].late /\ flight'[f].stage = flight[f].stage
                  /\ flight[f].ctxErr = "canceled" => flight'[f].ctxErr = "canceled"
    BY Cancels DEF StopProbe
  <1>4. \A p \in Probers : ~prober[p].cancelled => prober[p] # NoProber
    BY DEF NoProber
  <1>5. NoLostLoop'
    <2> SUFFICES ASSUME NEW p \in Probers, ~prober'[p].cancelled
                 PROVE  prober'[p].loop = "running" /\ probers'[prober'[p].name] = p
      BY DEF NoLostLoop
    <2>1. /\ p # probers[n] /\ prober[p].loop = "running" /\ probers[prober[p].name] = p
          /\ prober[p] \in Prober
      BY <1>2, Objects DEF IInv, NoLostLoop
    <2>2. prober[p].name # n /\ prober[p].name \in Names
      BY <2>1 DEF Prober
    <2> QED
      BY <1>1, <1>2, <1>4, <2>1, <2>2
  <1>6. RegisteredRuns'
    <2> SUFFICES ASSUME NEW k \in Names, probers'[k] # None
                 PROVE  ~prober'[probers'[k]].cancelled /\ prober'[probers'[k]].name = k
      BY DEF RegisteredRuns
    <2>1. k # n /\ probers'[k] = probers[k] /\ probers[k] \in Probers
      BY <1>1
    <2>2. ~prober[probers[k]].cancelled /\ prober[probers[k]].name = k /\ probers[k] # probers[n]
      BY <2>1 DEF IInv, RegisteredRuns
    <2> QED
      BY <1>2, <1>4, <2>1, <2>2
  <1>7. BusyInv'
    BY <1>2, <1>3 DEF IInv, BusyInv
  <1>8. LateInv'
    BY <1>3 DEF IInv, LateInv
  <1> QED
    BY <1>1, <1>2, <1>3, <1>5, <1>6, <1>7, <1>8 DEF Manager

LEMMA StartsProbe ==
  ASSUME IInv, NEW n \in Names, NEW failing \in BOOLEAN, StartProbe(n, failing)
  PROVE  Manager' /\ prober'[probers'[n]].failing = failing
  <1> DEFINE pr == CancelledProbers(probers[n])
  <1>1. PICK p \in Probers :
          /\ prober[p] = NoProber
          /\ prober' = [pr EXCEPT ![p] = NewProber(n, failing)]
          /\ flight' = CancelledFlights(probers[n])
          /\ probers' = [probers EXCEPT ![n] = p]
    BY DEF StartProbe
  <1>2. /\ pr \in [Probers -> Prober \cup {NoProber}]
        /\ \A q \in Probers :
             /\ pr[q] = NoProber <=> prober[q] = NoProber
             /\ prober[q] # NoProber =>
                  /\ pr[q].probeRunning = prober[q].probeRunning
                  /\ pr[q].loop = prober[q].loop /\ pr[q].name = prober[q].name
             /\ ~pr[q].cancelled <=> q # probers[n] /\ ~prober[q].cancelled
    BY Cancels
  <1>3. /\ flight' \in [Flights -> Flight \cup {NoFlight}]
        /\ \A f \in Flights :
             /\ flight'[f].of = flight[f].of
             /\ flight'[f].of \in Probers =>
                  /\ flight'[f].late = flight[f].late /\ flight'[f].stage = flight[f].stage
                  /\ flight[f].ctxErr = "canceled" => flight'[f].ctxErr = "canceled"
    BY <1>1, Cancels
  <1> HIDE DEF pr
  <1>4. /\ prober'[p] \in Prober /\ prober'[p] # NoProber /\ prober'[p].name = n
        /\ ~prober'[p].cancelled /\ prober'[p].loop = "running" /\ ~prober'[p].probeRunning
        /\ prober'[p].failing = failing
    BY <1>1, <1>2 DEF NewProber, Prober, NoProber
  <1>5. \A q \in Probers \ {p} : prober'[q] = pr[q]
    BY <1>1, <1>2
  <1>6. probers'[n] = p /\ probers' \in [Names -> Probers \cup {None}]
        /\ \A k \in Names \ {n} : probers'[k] = probers[k]
    BY <1>1 DEF IInv, TypeOK
  <1>7. prober' \in [Probers -> Prober \cup {NoProber}]
    BY <1>1, <1>2, <1>4
  <1>8. NoLostLoop'
    <2> SUFFICES ASSUME NEW q \in Probers, ~prober'[q].cancelled
                 PROVE  prober'[q].loop = "running" /\ probers'[prober'[q].name] = q
      BY DEF NoLostLoop
    <2>1. CASE q = p
      BY <1>4, <1>6, <2>1
    <2>2. CASE q # p
      <3>1. /\ q # probers[n] /\ ~prober[q].cancelled
        BY <1>2, <1>5, <2>2
      <3>2. /\ prober[q].loop = "running" /\ probers[prober[q].name] = q
            /\ prober[q] \in Prober /\ prober[q] # NoProber
        BY <3>1, Objects DEF IInv, NoLostLoop
      <3>3. prober[q].name # n /\ prober[q].name \in Names
        BY <3>1, <3>2 DEF Prober
      <3>4. prober'[q].name = prober[q].name /\ prober'[q].loop = "running"
        BY <1>2, <1>5, <2>2, <3>2
      <3> QED
        BY <1>6, <3>2, <3>3, <3>4
    <2> QED
      BY <2>1, <2>2
  <1>9. RegisteredRuns'
    <2> SUFFICES ASSUME NEW k \in Names, probers'[k] # None
                 PROVE  ~prober'[probers'[k]].cancelled /\ prober'[probers'[k]].name = k
      BY DEF RegisteredRuns
    <2>1. CASE k = n
      BY <1>4, <1>6, <2>1
    <2>2. CASE k # n
      <3>1. probers'[k] = probers[k] /\ probers[k] \in Probers
        BY <1>6, <2>2
      <3>2. /\ ~prober[probers[k]].cancelled /\ prober[probers[k]].name = k
            /\ probers[k] # probers[n]
        BY <2>2, <3>1 DEF IInv, RegisteredRuns
      <3>3. prober[probers[k]] # NoProber
        BY <3>2 DEF NoProber
      <3>4. probers[k] # p
        BY <1>1, <3>3
      <3> QED
        BY <1>2, <1>5, <3>1, <3>2, <3>3, <3>4
    <2> QED
      BY <2>1, <2>2
  <1>10. BusyInv'
    <2>1. \A f \in Flights : flight[f].of # p
      BY <1>1 DEF IInv, BusyInv
    <2> QED
      BY <1>2, <1>3, <1>4, <1>5, <2>1 DEF IInv, BusyInv
  <1>11. LateInv'
    BY <1>3 DEF IInv, LateInv
  <1> QED
    BY <1>3, <1>4, <1>6, <1>7, <1>8, <1>9, <1>10, <1>11 DEF Manager

\* A call of the reconciler that touches no prober.
LEMMA Calls ==
  ASSUME IInv, UNCHANGED <<probers, runVars>>, TypeOK', EndedInv'
  PROVE  IInv'
  BY DEF IInv, runVars, NoLostLoop, RegisteredRuns, BusyInv, LateInv

LEMMA AfterGetIs ==
  ASSUME NEW i \in Instance
  PROVE  /\ AfterGet(i) \in Recs
         /\ Ended(i) => AfterGet(i) = "stop"
         /\ AfterGet(i) = "idle" => ~i.secretRef \/ WaitsForStart(i)
  <1>1. CASE ~i.exists \/ i.deleting
    <2>1. AfterGet(i) = "stop"
      BY <1>1 DEF AfterGet
    <2> QED
      BY <2>1 DEF Recs
  <1>2. CASE i.exists /\ ~i.deleting /\ ~i.secretRef
    <2>1. AfterGet(i) = "idle"
      BY <1>2 DEF AfterGet
    <2> QED
      BY <1>2, <2>1 DEF Recs, Ended
  <1>3. CASE i.exists /\ ~i.deleting /\ i.secretRef /\ i.suspended
    <2>1. AfterGet(i) = "stop"
      BY <1>3 DEF AfterGet
    <2> QED
      BY <2>1 DEF Recs
  <1>4. CASE i.exists /\ ~i.deleting /\ i.secretRef /\ ~i.suspended /\ ~i.started
    <2>1. AfterGet(i) = "idle"
      BY <1>4 DEF AfterGet
    <2> QED
      BY <1>4, <2>1 DEF Recs, Ended, WaitsForStart
  <1>5. CASE i.exists /\ ~i.deleting /\ i.secretRef /\ ~i.suspended /\ i.started
    <2>1. AfterGet(i) = "namespace"
      BY <1>5 DEF AfterGet
    <2> QED
      BY <1>5, <2>1 DEF Recs, Ended
  <1> QED
    BY <1>1, <1>2, <1>3, <1>4, <1>5

LEMMA Reconciles ==
  ASSUME IInv, NEW n \in Names, Reconcile(n)
  PROVE  IInv'
  <1>1. CASE Get(n)
    <2>1. inst[n] \in Instance /\ UNCHANGED <<inst, nsExists, creds, probers, runVars>>
      BY <1>1 DEF Get, IInv, TypeOK, envVars
    <2>2. /\ rec' = [rec EXCEPT ![n] = AfterGet(inst[n])] /\ queue' = queue \ {n}
          /\ timer' \in SUBSET Names
      BY <1>1 DEF Get, GoTo, IInv, TypeOK
    <2>3. TypeOK'
      BY <2>1, <2>2, AfterGetIs DEF IInv, TypeOK, runVars
    <2>4. EndedInv'
      BY <2>1, <2>2, AfterGetIs DEF IInv, TypeOK, EndedInv
    <2> QED
      BY <2>1, <2>3, <2>4, Calls
  <1>2. CASE Stop(n)
    <2>1. /\ UNCHANGED <<inst, nsExists, creds, queue, timer>>
          /\ rec' = [rec EXCEPT ![n] = "idle"]
      BY <1>2 DEF Stop, GoTo, envVars
    <2>2. Manager' /\ probers'[n] = None /\ \A k \in Names \ {n} : probers'[k] = probers[k]
      BY <1>2, Stops DEF Stop, StopProbe, IInv, TypeOK
    <2>3. TypeOK'
      BY <2>1, <2>2 DEF IInv, TypeOK, Manager, Recs
    <2>4. EndedInv'
      BY <2>1, <2>2 DEF IInv, TypeOK, EndedInv
    <2> QED
      BY <2>2, <2>3, <2>4 DEF IInv, Manager
  <1>3. CASE CheckNamespace(n) \/ FetchProber(n)
    <2>1. /\ UNCHANGED <<inst, nsExists, creds, queue, timer, probers, runVars>>
          /\ rec[n] \in {"namespace", "fetch"}
      BY <1>3 DEF CheckNamespace, FetchProber, envVars
    <2>2. PICK c \in {"fetch", "idle", "start", "startFailing"} : rec' = [rec EXCEPT ![n] = c]
      BY <1>3 DEF CheckNamespace, FetchProber, GoTo
    <2>3. TypeOK'
      BY <2>1, <2>2 DEF IInv, TypeOK, runVars, Recs
    <2>4. EndedInv'
      BY <2>1, <2>2 DEF IInv, TypeOK, EndedInv
    <2> QED
      BY <2>1, <2>3, <2>4, Calls
  <1>4. CASE Start(n)
    <2>1. /\ UNCHANGED <<inst, nsExists, creds, queue>> /\ timer' \in SUBSET Names
          /\ rec' = [rec EXCEPT ![n] = "idle"] /\ rec[n] \in {"start", "startFailing"}
      BY <1>4 DEF Start, GoTo, envVars, RetryFailing, IInv, TypeOK
    <2>2. Manager' /\ \A k \in Names \ {n} : probers'[k] = probers[k]
      BY <1>4, StartsProbe DEF Start, StartProbe, IInv, TypeOK
    <2>3. TypeOK'
      BY <2>1, <2>2 DEF IInv, TypeOK, Manager, Recs
    <2>4. EndedInv'
      BY <2>1, <2>2 DEF IInv, TypeOK, EndedInv
    <2> QED
      BY <2>2, <2>3, <2>4 DEF IInv, Manager
  <1> QED
    BY <1>1, <1>2, <1>3, <1>4 DEF Reconcile

\* Failed reads, timers and the informer only add to the queue.
LEMMA Requeues ==
  ASSUME IInv, NEW n \in Names, ReadFails(n) \/ Requeue(n) \/ Resync(n)
  PROVE  IInv'
  <1>1. /\ UNCHANGED <<inst, nsExists, creds, probers, runVars>> /\ queue' = queue \cup {n}
        /\ timer' \in SUBSET Names
        /\ rec' = rec \/ rec' = [rec EXCEPT ![n] = "idle"]
    BY DEF ReadFails, Requeue, Resync, GoTo, envVars, IInv, TypeOK
  <1>2. TypeOK'
    BY <1>1 DEF IInv, TypeOK, runVars, Recs
  <1>3. EndedInv'
    BY <1>1 DEF IInv, TypeOK, EndedInv
  <1> QED
    BY <1>1, <1>2, <1>3, Calls

\* A change of an instance is always reported.
LEMMA Changes ==
  ASSUME IInv, NEW n \in Names, NEW i \in Instance, Change(n, i)
  PROVE  IInv'
  <1>1. /\ inst' = [inst EXCEPT ![n] = i] /\ queue' = queue \cup {n}
        /\ UNCHANGED <<nsExists, creds, timer, rec, probers, runVars>>
    BY DEF Change
  <1>2. TypeOK'
    BY <1>1 DEF IInv, TypeOK, runVars
  <1>3. EndedInv'
    BY <1>1 DEF IInv, TypeOK, EndedInv
  <1> QED
    BY <1>1, <1>2, <1>3, Calls

LEMMA Clusters ==
  ASSUME IInv, NEW n \in Names, Cluster(n) \/ GracePasses(n)
  PROVE  IInv'
  <1> inst[n] \in Instance
    BY DEF IInv, TypeOK
  <1>1. CASE Create(n) \/ SetSecretRef(n) \/ Suspend(n) \/ MarkDeleted(n) \/ Remove(n)
    <2>1. CASE Create(n) \/ Remove(n)
      BY <2>1, Changes DEF Create, Remove, Absent, Instance
    <2>2. CASE SetSecretRef(n)
      <3>1. PICK b \in BOOLEAN : Change(n, [inst[n] EXCEPT !.secretRef = b])
        BY <2>2 DEF SetSecretRef
      <3>2. [inst[n] EXCEPT !.secretRef = b] \in Instance
        BY DEF Instance
      <3> QED
        BY <3>1, <3>2, Changes
    <2>3. CASE Suspend(n)
      <3>1. PICK b \in BOOLEAN : Change(n, [inst[n] EXCEPT !.suspended = b])
        BY <2>3 DEF Suspend
      <3>2. [inst[n] EXCEPT !.suspended = b] \in Instance
        BY DEF Instance
      <3> QED
        BY <3>1, <3>2, Changes
    <2>4. CASE MarkDeleted(n)
      <3>1. [inst[n] EXCEPT !.deleting = TRUE] \in Instance
        BY DEF Instance
      <3> QED
        BY <2>4, <3>1, Changes DEF MarkDeleted
    <2> QED
      BY <1>1, <2>1, <2>2, <2>3, <2>4
  <1>2. CASE GracePasses(n)
    <2>1. /\ inst' = [inst EXCEPT ![n].started = TRUE]
          /\ UNCHANGED <<nsExists, creds, queue, timer, rec, probers, runVars>>
      BY <1>2 DEF GracePasses, recVars
    <2>2. inst' \in [Names -> Instance] /\ \A k \in Names : Ended(inst'[k]) = Ended(inst[k])
      BY <2>1 DEF IInv, TypeOK, Instance, Ended
    <2>3. TypeOK' /\ EndedInv'
      BY <2>1, <2>2 DEF IInv, TypeOK, EndedInv, runVars
    <2> QED
      BY <2>1, <2>3, Calls
  <1>3. CASE SetNamespace(n) \/ SetCreds(n)
    <2>1. /\ UNCHANGED <<inst, queue, timer, rec, probers, runVars>>
          /\ nsExists' \in [Names -> BOOLEAN] /\ creds' \in [Names -> {"found", "missing"}]
      BY <1>3 DEF SetNamespace, SetCreds, recVars, IInv, TypeOK
    <2>2. TypeOK' /\ EndedInv'
      BY <2>1 DEF IInv, TypeOK, EndedInv, runVars
    <2> QED
      BY <2>1, <2>2, Calls
  <1> QED
    BY <1>1, <1>2, <1>3 DEF Cluster

\* Who leaves nothing scheduled for an instance with a failing prober: only the
\* reconciler, when the reference or the namespace is missing.
LEMMA LeavesFailing ==
  ASSUME IInv, Next, NEW n \in Names, ~Quiet(n), Quiet(n)',
         probers'[n] # None, prober'[probers'[n]].failing
  PROVE  ~inst[n].secretRef \/ ~nsExists[n]
  <1>1. ~(UNCHANGED recVars)
    BY DEF recVars, Quiet
  <1>2. \E k \in Names : \/ Reconcile(k) \/ ReadFails(k) \/ Requeue(k) \/ Resync(k)
                        \/ Cluster(k) \/ GracePasses(k)
    BY <1>1 DEF Next, TickLoop, EndLoop, Deadline, Probing, ProbeReturns, Classify, Record
  <1>3. PICK k \in Names : \/ Reconcile(k)
                          \/ ReadFails(k) \/ Requeue(k) \/ Resync(k)
                          \/ \E i : Change(k, i)
    BY <1>1, <1>2 DEF Cluster, GracePasses, Create, SetSecretRef, Suspend, MarkDeleted, Remove,
                      SetNamespace, SetCreds
  <1>4. CASE ReadFails(k) \/ Requeue(k) \/ Resync(k) \/ \E i : Change(k, i)
    <2>1. /\ queue' = queue \cup {k} /\ \A j \in Names \ {k} : rec'[j] = rec[j]
          /\ timer' = timer \/ timer' = timer \ {k}
      BY <1>4 DEF ReadFails, Requeue, Resync, Change, GoTo, IInv, TypeOK
    <2> QED
      BY <2>1 DEF Quiet
  <1>5. CASE Reconcile(k)
    <2>1. k = n
      <3>1. /\ \A j \in Names \ {k} : rec'[j] = rec[j]
            /\ queue' = queue \/ queue' = queue \ {k}
            /\ timer' = timer \/ timer' = timer \cup {k}
        BY <1>5 DEF Reconcile, Get, Stop, CheckNamespace, FetchProber, Start, GoTo, RetryFailing,
                    IInv, TypeOK
      <3> QED
        BY <3>1 DEF Quiet
    <2>2. CASE Get(n)
      <3>1. inst[n] \in Instance /\ AfterGet(inst[n]) = "idle" /\ ~WaitsForStart(inst[n])
        BY <2>2 DEF Get, GoTo, Quiet, IInv, TypeOK
      <3> QED
        BY <3>1, AfterGetIs
    <2>3. CASE Stop(n)
      BY <2>3, Stops DEF Stop
    <2>4. CASE CheckNamespace(n)
      BY <2>4 DEF CheckNamespace, GoTo, Quiet, IInv, TypeOK
    <2>5. CASE FetchProber(n)
      BY <2>5 DEF FetchProber, GoTo, Quiet, IInv, TypeOK
    <2>6. CASE Start(n)
      <3>1. CASE rec[n] = "startFailing"
        BY <2>6, <3>1 DEF Start, RetryFailing, Quiet
      <3>2. CASE rec[n] # "startFailing"
        BY <2>6, <3>2, StartsProbe DEF Start
      <3> QED
        BY <3>1, <3>2
    <2> QED
      BY <1>5, <2>1, <2>2, <2>3, <2>4, <2>5, <2>6 DEF Reconcile
  <1> QED
    BY <1>3, <1>4, <1>5
-----------------------------------------------------------------------------
(* The theorems. *)

LEMMA Initially == Init => IInv
  <1> SUFFICES ASSUME Init PROVE IInv
    OBVIOUS
  <1>1. TypeOK
    BY DEF Init, TypeOK, Absent, Instance, Recs
  <1>2. NoLostLoop /\ RegisteredRuns /\ BusyInv /\ LateInv
    BY ProbesAssumption DEF Init, NoLostLoop, RegisteredRuns, BusyInv, LateInv, NoProber, NoFlight
  <1>3. EndedInv
    BY DEF Init, EndedInv
  <1> QED
    BY <1>1, <1>2, <1>3 DEF IInv

LEMMA Step == IInv /\ [Next]_vars => IInv'
  <1> SUFFICES ASSUME IInv, [Next]_vars PROVE IInv'
    OBVIOUS
  <1>1. CASE UNCHANGED vars
    BY <1>1 DEF vars, envVars, recVars, runVars, IInv, TypeOK, NoLostLoop, RegisteredRuns,
                BusyInv, LateInv, EndedInv
  <1>2. CASE Next
    BY <1>2, Reconciles, Requeues, Clusters, Ticks, LoopEnds, Probes1, ProbeEnds DEF Next, Probing
  <1> QED
    BY <1>1, <1>2

\* Instances, queue, probers, loops and goroutines keep their shape.
THEOREM TypeCorrect == Spec => []TypeOK
  <1>1. IInv => TypeOK
    BY DEF IInv
  <1> QED
    BY <1>1, Initially, Step, PTL DEF Spec

\* StopProbe and StartProbe can reach every loop that is not cancelled, for any
\* number of instances, probers and goroutines.
THEOREM LoopsAreReachable == Spec => []NoLostLoop
  <1>1. IInv => NoLostLoop
    BY DEF IInv
  <1> QED
    BY <1>1, Initially, Step, PTL DEF Spec

\* The flag probeRunning keeps a loop to one probe, and it is never left behind.
THEOREM OneProbeEach == Spec => []OneProbePerLoop
  <1>1. IInv => OneProbePerLoop
    <2> SUFFICES ASSUME IInv, NEW p \in Probers
                 PROVE  /\ Cardinality(InFlight(p)) <= 1
                        /\ InFlight(p) # {} <=> prober[p] # NoProber /\ prober[p].probeRunning
      BY DEF OneProbePerLoop
    <2>1. InFlight(p) # {} <=> prober[p] # NoProber /\ prober[p].probeRunning
      BY DEF IInv, BusyInv, InFlight
    <2>2. CASE InFlight(p) = {}
      BY <2>1, <2>2, FS_EmptySet
    <2>3. CASE InFlight(p) # {}
      <3>1. PICK f : f \in InFlight(p)
        BY <2>3
      <3>2. InFlight(p) = {f}
        BY <3>1 DEF IInv, BusyInv, InFlight
      <3> QED
        BY <2>1, <3>2, FS_Singleton
    <2> QED
      BY <2>2, <2>3
  <1> QED
    BY <1>1, Initially, Step, PTL DEF Spec

\* A tick taken after the cancellation is never counted against the service.
THEOREM StoppedProbesNeverFail == Spec => []StoppedNeverFails
  <1>1. IInv => StoppedNeverFails
    <2> SUFFICES ASSUME IInv, NEW f \in Flights, flight[f].stage \in {"fail-timeout", "fail-unknown"}
                 PROVE  ~flight[f].late
      BY DEF StoppedNeverFails
    <2>1. flight[f].of \in Probers
      BY Goroutines DEF IInv
    <2> QED
      BY <2>1 DEF IInv, LateInv
  <1> QED
    BY <1>1, Initially, Step, PTL DEF Spec

\* Whatever happens between the reads of the reconciler, an instance that is to
\* be stopped has no prober once there is nothing left to do for it.
THEOREM EndedMeansStopped == Spec => []QuietMeansStopped
  <1>1. IInv => QuietMeansStopped
    BY DEF IInv, EndedInv, Ended, QuietMeansStopped, Quiet
  <1> QED
    BY <1>1, Initially, Step, PTL DEF Spec

\* Nobody leaves a failing prober behind without another look at the
\* credentials, whatever happens between the reads.
THEOREM FailingLooksAgain == Spec => FailingIsRetried
  <1>1. IInv /\ [Next]_vars =>
          [\A n \in Names :
             /\ ~Quiet(n) /\ Quiet(n)'
             /\ probers'[n] # None /\ prober'[probers'[n]].failing
             => ~inst[n].secretRef \/ ~nsExists[n]]_vars
    BY LeavesFailing
  <1> QED
    BY <1>1, Initially, Step, PTL DEF Spec, FailingIsRetried
=============================================================================
