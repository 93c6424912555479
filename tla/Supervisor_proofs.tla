--------------------------- MODULE Supervisor_proofs ---------------------------
(***************************************************************************)
(* What exit code 0 means, for any number of requests and of faults.       *)
(*                                                                         *)
(* The code of select!'s outcome is carried through two awaits and returned *)
(* at the end; Carried says what it stands for at each of them.            *)
(***************************************************************************)
EXTENDS Supervisor, TLAPS

USE BoundAssumption, DvmAssumption DEF vars, process, tasks, outside

\* While main waits for the services with outcome 0 it has seen a signal and
\* consumed no handle, and behind the first await ingestion has drained.
Carried ==
    /\ main \in {"await_ingestion", "await_http"} /\ outcome = 0 =>
         signalled /\ finished = "none"
    /\ main = "await_http" /\ outcome = 0 => ingestion = "ok"
    /\ ingestion = "ok" => ~batch

IInv == TypeOK /\ Carried

LEMMA InvInit == Init => IInv
<1> SUFFICES ASSUME Init PROVE IInv
  OBVIOUS
<1>1. inflight \in 0..MaxRequests /\ faults \in 0..MaxFaults
  BY DEF Init
<1> QED
  BY <1>1 DEF Init, IInv, TypeOK, Carried

\* Whatever the process was doing, nothing of it is left.
LEMMA ExitKeepsInv ==
    ASSUME IInv, NEW code \in {0, 1, 137}, Exit(code), stopped' \in BOOLEAN,
           faults' \in 0..MaxFaults
    PROVE  IInv'
<1>1. inflight' \in 0..MaxRequests
  BY DEF Exit, ResetTasks
<1> QED
  BY <1>1 DEF IInv, TypeOK, Carried, Exit, ResetProcess, ResetTasks

LEMMA FaultCounts ==
    ASSUME IInv, Fault
    PROVE  faults' \in 0..MaxFaults
BY DEF IInv, TypeOK, Fault

LEMMA MainKeepsInv ==
    ASSUME IInv, MainStep \/ BootFails \/ SelectSignalFails \/ ContainerStart
    PROVE  IInv'
<1>1. CASE Boot
  BY <1>1 DEF Boot, IInv, TypeOK, Carried
<1>2. CASE SelectSignal
  BY <1>2 DEF SelectSignal, Select, IInv, TypeOK, Carried
<1>3. CASE SelectHttp
  BY <1>3 DEF SelectHttp, Select, IInv, TypeOK, Carried
<1>4. CASE SelectIngestion
  BY <1>4 DEF SelectIngestion, Select, IInv, TypeOK, Carried
<1>5. CASE AwaitIngestion
  <2>1. CASE (finished = "ingestion" \/ ingestion = "ok") /\ ContinueToHttp
    BY <1>5, <2>1 DEF AwaitIngestion, ContinueToHttp, IInv, TypeOK, Carried
  <2>2. CASE Exit(1) /\ UNCHANGED <<stopped, faults>>
    BY <2>2, ExitKeepsInv DEF IInv, TypeOK
  <2> QED
    BY <1>5, <2>1, <2>2 DEF AwaitIngestion
<1>6. CASE AwaitHttp
  <2>1. \/ Exit(outcome) \/ Exit(1)
    BY <1>6 DEF AwaitHttp
  <2>2. outcome \in {0, 1, 137} /\ stopped' \in BOOLEAN /\ faults' \in 0..MaxFaults
    BY <1>6 DEF AwaitHttp, IInv, TypeOK
  <2> QED
    BY <2>1, <2>2, ExitKeepsInv
<1>7. CASE BootFails
  BY <1>7, ExitKeepsInv, FaultCounts DEF BootFails, IInv, TypeOK
<1>8. CASE ContainerStart
  BY <1>8 DEF ContainerStart, IInv, TypeOK, Carried
<1>9. CASE SelectSignalFails
  BY <1>9, FaultCounts DEF SelectSignalFails, Select, IInv, TypeOK, Carried
<1> QED
  BY <1>1, <1>2, <1>3, <1>4, <1>5, <1>6, <1>7, <1>8, <1>9 DEF MainStep

LEMMA IngestionKeepsInv ==
    ASSUME IInv, IngestionStep \/ ConnectFails \/ Receive \/ Flush \/ IngestionFails
    PROVE  IInv'
<1>1. CASE Connect
  BY <1>1 DEF Connect, Ingest, IInv, TypeOK, Carried
<1>2. CASE Drain
  <2>1. batch' = FALSE
    BY <1>2 DEF Drain
  <2>2. batch' \in BOOLEAN /\ ~batch'
    BY <2>1
  <2>3. TypeOK'
    BY <1>2, <2>2 DEF Drain, Ingest, IInv, TypeOK
  <2>4. Carried'
    BY <1>2, <2>2 DEF Drain, Ingest, IInv, Carried
  <2> QED
    BY <2>3, <2>4 DEF IInv
<1>3. CASE ConnectFails
  BY <1>3, FaultCounts DEF ConnectFails, Ingest, IInv, TypeOK, Carried
<1>4. CASE Receive
  BY <1>4 DEF Receive, Ingest, IInv, TypeOK, Carried
<1>5. CASE Flush
  <2>1. batch' = FALSE
    BY <1>5 DEF Flush
  <2>2. batch' \in BOOLEAN /\ ~batch'
    BY <2>1
  <2>3. TypeOK'
    BY <1>5, <2>2 DEF Flush, Ingest, IInv, TypeOK
  <2>4. Carried'
    BY <1>5, <2>2 DEF Flush, Ingest, IInv, Carried
  <2> QED
    BY <2>3, <2>4 DEF IInv
<1>6. CASE IngestionFails
  BY <1>6, FaultCounts DEF IngestionFails, Ingest, IInv, TypeOK, Carried
<1> QED
  BY <1>1, <1>2, <1>3, <1>4, <1>5, <1>6 DEF IngestionStep

LEMMA HttpKeepsInv ==
    ASSUME IInv, HttpStep \/ BindFails \/ Request \/ Respond
    PROVE  IInv'
<1>1. CASE Bind
  BY <1>1 DEF Bind, Serve, IInv, TypeOK, Carried
<1>2. CASE StopAccepting
  BY <1>2 DEF StopAccepting, Serve, IInv, TypeOK, Carried
<1>3. CASE Close
  BY <1>3 DEF Close, Serve, IInv, TypeOK, Carried
<1>4. CASE BindFails
  BY <1>4, FaultCounts DEF BindFails, Serve, IInv, TypeOK, Carried
<1>5. CASE Request
  BY <1>5 DEF Request, Serve, IInv, TypeOK, Carried
<1>6. CASE Respond
  BY <1>6 DEF Respond, Serve, IInv, TypeOK, Carried
<1> QED
  BY <1>1, <1>2, <1>3, <1>4, <1>5, <1>6 DEF HttpStep

LEMMA OutsideKeepsInv ==
    ASSUME IInv, DvmFails \/ Signal \/ ContainerStop \/ Kill
    PROVE  IInv'
<1>1. CASE DvmFails
  BY <1>1, FaultCounts DEF DvmFails, IInv, TypeOK, Carried
<1>2. CASE Signal
  BY <1>2 DEF Signal, IInv, TypeOK, Carried
<1>3. CASE ContainerStop
  BY <1>3 DEF ContainerStop, IInv, TypeOK, Carried
<1>4. CASE Kill
  <2>1. Exit(137) /\ stopped' \in BOOLEAN /\ faults' \in 0..MaxFaults
    BY <1>4, FaultCounts DEF Kill, IInv, TypeOK
  <2> QED
    BY <2>1, ExitKeepsInv
<1> QED
  BY <1>1, <1>2, <1>3, <1>4

LEMMA InvStep == IInv /\ [Next]_vars => IInv'
<1> SUFFICES ASSUME IInv, [Next]_vars PROVE IInv'
  OBVIOUS
<1>1. CASE UNCHANGED vars
  BY <1>1 DEF IInv, TypeOK, Carried
<1>2. CASE Next
  BY <1>2, MainKeepsInv, IngestionKeepsInv, HttpKeepsInv, OutsideKeepsInv DEF Next
<1> QED
  BY <1>1, <1>2

(* The strengthened invariant holds in every reachable state. *)
THEOREM InvCorrect == Spec => []IInv
BY InvInit, InvStep, PTL DEF Spec

(* Every reachable state is well typed; a closed server has no request left.  *)
THEOREM TypeCorrect == Spec => []TypeOK
<1>1. IInv => TypeOK
  BY DEF IInv
<1> QED
  BY <1>1, InvCorrect, PTL

\* The process leaves "Up" only by an exit, and with code 0 only behind both awaits.
LEMMA OnlyAwaitHttpExitsClean ==
    ASSUME IInv, [Next]_vars, Up, main' = "down", exit_code' = 0
    PROVE  AwaitHttp /\ outcome = 0 /\ (finished = "http" \/ http = "ok")
<1>1. main' # main
  BY DEF Up
<1>2. Next
  BY <1>1
<1>3. ~(IngestionStep \/ ConnectFails \/ Receive \/ Flush \/ IngestionFails)
  BY <1>1 DEF IngestionStep, Connect, Drain, ConnectFails, Receive, Flush, IngestionFails, Ingest
<1>4. ~(HttpStep \/ BindFails \/ Request \/ Respond)
  BY <1>1 DEF HttpStep, Bind, StopAccepting, Close, BindFails, Request, Respond, Serve
<1>5. ~(DvmFails \/ Signal \/ ContainerStop)
  BY <1>1 DEF DvmFails, Signal, ContainerStop
<1>6. ~Kill
  BY DEF Kill, Exit
<1>7. ~(BootFails \/ ContainerStart \/ Boot)
  BY DEF BootFails, ContainerStart, Boot, Up
<1>8. ~(SelectSignal \/ SelectSignalFails \/ SelectHttp \/ SelectIngestion)
  BY DEF SelectSignal, SelectSignalFails, SelectHttp, SelectIngestion, Select
<1>9. ~AwaitIngestion
  BY DEF AwaitIngestion, ContinueToHttp, Exit
<1>10. AwaitHttp
  BY <1>2, <1>3, <1>4, <1>5, <1>6, <1>7, <1>8, <1>9 DEF Next, MainStep
<1> QED
  BY <1>10 DEF AwaitHttp, Exit

(* Exit code 0 follows only from a signal, a drained ingestion and a server   *)
(* with no request left (SELF-HOST.md:38), for any bounds.                    *)
THEOREM CleanExitCorrect == Spec => CleanExit
<1>1. IInv /\ [Next]_vars =>
        [Up /\ main' = "down" /\ exit_code' = 0 =>
            signalled /\ ingestion = "ok" /\ ~batch /\ http = "ok" /\ inflight = 0]_vars
  <2> SUFFICES ASSUME IInv, [Next]_vars, Up, main' = "down", exit_code' = 0
               PROVE  signalled /\ ingestion = "ok" /\ ~batch /\ http = "ok" /\ inflight = 0
    OBVIOUS
  <2>1. main = "await_http" /\ outcome = 0 /\ (finished = "http" \/ http = "ok")
    BY OnlyAwaitHttpExitsClean DEF AwaitHttp
  <2> QED
    BY <2>1 DEF IInv, Carried, TypeOK
<1> QED
  BY <1>1, InvCorrect, PTL DEF Spec, CleanExit
===============================================================================
