------------------------------ MODULE Supervisor ------------------------------
(***************************************************************************)
(* main (main.rs) and the tasks it spawns: what ends the process, with     *)
(* which exit code, and what is waited for before.  The tasks are reduced  *)
(* to what main sees of them (Ingestion and Queries have their insides):   *)
(* ingestion receives events into a batch, writes it, and ends well only   *)
(* on shutdown; the HTTP server has requests in flight, and after shutdown *)
(* ends when they are answered; the DVM task runs until it fails.          *)
(*                                                                         *)
(* Outside the process are the operator, who may send a signal or stop the *)
(* container, and the container's policy, restart: unless-stopped.         *)
(***************************************************************************)
EXTENDS Naturals

CONSTANTS
    dvm_enabled,
    MaxRequests,    \* bound on requests in flight
    MaxFaults       \* bound on failures (bind, connect, database, crash)

ASSUME DvmAssumption == dvm_enabled \in BOOLEAN
ASSUME BoundAssumption == MaxRequests \in Nat /\ MaxFaults \in Nat

VARIABLES
    main,       \* down, booting, select, await_ingestion, await_http
    outcome,    \* what select! gave: an exit code
    finished,   \* the handle select! has consumed, if any
    shutdown,   \* the watch channel
    signalled,  \* SIGTERM or SIGINT has arrived
    ingestion, batch,
    http, inflight,
    dvm,
    exit_code,  \* of the last process
    stopped,    \* the operator has stopped the container
    faults

process == <<main, outcome, finished, shutdown, signalled>>
tasks   == <<ingestion, batch, http, inflight, dvm>>
outside == <<exit_code, stopped, faults>>
vars    == <<process, tasks, outside>>

Fault == faults < MaxFaults /\ faults' = faults + 1
Up == main \notin {"down", "booting"}

-------------------------------------------------------------------------------
(* The process ends: every task ends with it. *)

ResetProcess(at) ==
    /\ main' = at /\ outcome' = 0 /\ finished' = "none"
    /\ shutdown' = FALSE /\ signalled' = FALSE
ResetTasks ==
    /\ ingestion' = "none" /\ batch' = FALSE /\ http' = "none" /\ inflight' = 0 /\ dvm' = "none"

Exit(code) == ResetProcess("down") /\ ResetTasks /\ exit_code' = code

ContainerStart ==
    /\ main = "down" /\ ~stopped
    /\ main' = "booting"
    /\ UNCHANGED <<outcome, finished, shutdown, signalled, tasks, outside>>

\* The database is opened and the graph loaded, or main returns the error.
BootFails == main = "booting" /\ Fault /\ Exit(1) /\ UNCHANGED stopped

\* An enabled DVM whose key is missing or does not parse is only logged.
Boot ==
    /\ main = "booting" /\ main' = "select"
    /\ ingestion' = "connecting" /\ http' = "binding"
    /\ dvm' \in IF dvm_enabled THEN {"running", "failed"} ELSE {"none"}
    /\ UNCHANGED <<outcome, finished, shutdown, signalled, batch, inflight, outside>>

-------------------------------------------------------------------------------
(* main's select! and what follows it. *)

\* Mistake: the services are not told.
SelectSilently(code, handle) ==
    /\ outcome' = code /\ finished' = handle
    /\ main' = "await_ingestion"
    /\ UNCHANGED <<shutdown, signalled, tasks, exit_code, stopped>>

Select(code, handle) ==
    /\ outcome' = code /\ finished' = handle
    /\ shutdown' = TRUE
    /\ main' = "await_ingestion"
    /\ UNCHANGED <<signalled, tasks, exit_code, stopped>>

SelectSignal == main = "select" /\ signalled /\ Select(0, "none") /\ UNCHANGED faults
\* shutdown_signal cannot install or read its handlers: select! gets its error.
SelectSignalFails == main = "select" /\ Fault /\ Select(1, "none")
\* A service that ends, even without an error, is an error here.
SelectHttp ==
    main = "select" /\ http \in {"ok", "failed"} /\ Select(1, "http") /\ UNCHANGED faults

\* Mistake: the end of the ingestion task is not waited for.
SelectIngestionNever == FALSE
SelectIngestion ==
    main = "select" /\ ingestion \in {"ok", "failed"} /\ Select(1, "ingestion") /\ UNCHANGED faults

ContinueToHttp ==
    main' = "await_http" /\ UNCHANGED <<outcome, finished, shutdown, signalled, tasks, outside>>

\* Mistake: the result of the drain is dropped.
AwaitIngestionOnly ==
    /\ main = "await_ingestion"
    /\ finished = "ingestion" \/ ingestion \in {"ok", "failed"}
    /\ ContinueToHttp

AwaitIngestion ==
    /\ main = "await_ingestion"
    /\ \/ (finished = "ingestion" \/ ingestion = "ok") /\ ContinueToHttp
       \/ finished # "ingestion" /\ ingestion = "failed" /\ Exit(1) /\ UNCHANGED <<stopped, faults>>

AwaitHttp ==
    /\ main = "await_http"
    /\ \/ (finished = "http" \/ http = "ok") /\ Exit(outcome)
       \/ finished # "http" /\ http = "failed" /\ Exit(1)
    /\ UNCHANGED <<stopped, faults>>

-------------------------------------------------------------------------------
(* The ingestion task. *)

Ingest(state) == ingestion' = state /\ UNCHANGED <<process, http, inflight, dvm, exit_code, stopped>>

Connect == ingestion = "connecting" /\ Ingest("running") /\ UNCHANGED <<batch, faults>>
ConnectFails == ingestion = "connecting" /\ Fault /\ Ingest("failed") /\ UNCHANGED batch
Receive == ingestion = "running" /\ ~batch /\ batch' = TRUE /\ Ingest("running") /\ UNCHANGED faults
Flush == ingestion = "running" /\ batch /\ batch' = FALSE /\ Ingest("running") /\ UNCHANGED faults

\* Three attempts fail, or a panic ends the task: what it had received is lost.
\* A disconnect that fails behind the drain is a Flush and then this.
IngestionFails == ingestion = "running" /\ Fault /\ Ingest("failed") /\ UNCHANGED batch

Drain == ingestion = "running" /\ shutdown /\ batch' = FALSE /\ Ingest("ok") /\ UNCHANGED faults

(* The HTTP server. *)

Serve(state) == http' = state /\ UNCHANGED <<process, ingestion, batch, dvm, exit_code, stopped>>

Bind == http = "binding" /\ Serve("serving") /\ UNCHANGED <<inflight, faults>>
BindFails == http = "binding" /\ Fault /\ Serve("failed") /\ UNCHANGED inflight
Request ==
    /\ http = "serving" /\ inflight < MaxRequests
    /\ inflight' = inflight + 1 /\ Serve("serving") /\ UNCHANGED faults
Respond == inflight > 0 /\ inflight' = inflight - 1 /\ Serve(http) /\ UNCHANGED faults
StopAccepting == http = "serving" /\ shutdown /\ Serve("closing") /\ UNCHANGED <<inflight, faults>>

\* Mistake: the server does not wait for requests in flight.
CloseAtOnce == http = "closing" /\ Serve("ok") /\ UNCHANGED <<inflight, faults>>
Close == http = "closing" /\ inflight = 0 /\ Serve("ok") /\ UNCHANGED <<inflight, faults>>

(* The DVM task: an error is logged, a panic is not even that. *)
DvmFails ==
    /\ dvm = "running" /\ Fault /\ dvm' = "failed"
    /\ UNCHANGED <<process, ingestion, batch, http, inflight, exit_code, stopped>>

(* The operator and the system. *)
Signal ==
    /\ Up /\ ~signalled /\ signalled' = TRUE
    /\ UNCHANGED <<main, outcome, finished, shutdown, tasks, outside>>
\* docker stop: a signal to whatever runs, and no restart.
ContainerStop ==
    /\ ~stopped /\ stopped' = TRUE
    /\ signalled' = (signalled \/ Up)
    /\ UNCHANGED <<main, outcome, finished, shutdown, tasks, exit_code, faults>>
\* The grace period of a stop ends, or the system fails.
Kill ==
    /\ main # "down"
    /\ \/ stopped /\ UNCHANGED faults
       \/ ~stopped /\ Fault
    /\ Exit(137) /\ UNCHANGED stopped

-------------------------------------------------------------------------------
Init ==
    /\ main = "booting" /\ outcome = 0 /\ finished = "none"
    /\ shutdown = FALSE /\ signalled = FALSE
    /\ ingestion = "none" /\ batch = FALSE /\ http = "none" /\ inflight = 0 /\ dvm = "none"
    /\ exit_code = 0 /\ stopped = FALSE /\ faults = 0

MainStep == Boot \/ SelectSignal \/ SelectHttp \/ SelectIngestion \/ AwaitIngestion \/ AwaitHttp
IngestionStep == Connect \/ Drain
HttpStep == Bind \/ StopAccepting \/ Close

Next ==
    \/ MainStep \/ BootFails \/ SelectSignalFails \/ ContainerStart
    \/ IngestionStep \/ ConnectFails \/ Receive \/ Flush \/ IngestionFails
    \/ HttpStep \/ BindFails \/ Request \/ Respond
    \/ DvmFails \/ Signal \/ ContainerStop \/ Kill

Spec == Init /\ [][Next]_vars

\* Tasks that can run do, requests are answered (RequestsEnd in Queries), and
\* the container's policy restarts what ends.
FairSpec ==
    /\ Spec
    /\ WF_vars(MainStep) /\ WF_vars(Connect) /\ WF_vars(Drain)
    /\ WF_vars(HttpStep) /\ WF_vars(Respond) /\ WF_vars(ContainerStart)

-------------------------------------------------------------------------------
(* Properties. *)

TypeOK ==
    /\ main \in {"down", "booting", "select", "await_ingestion", "await_http"}
    /\ outcome \in {0, 1} /\ exit_code \in {0, 1, 137}
    /\ finished \in {"none", "http", "ingestion"}
    /\ shutdown \in BOOLEAN /\ signalled \in BOOLEAN /\ stopped \in BOOLEAN
    /\ ingestion \in {"none", "connecting", "running", "ok", "failed"} /\ batch \in BOOLEAN
    /\ http \in {"none", "binding", "serving", "closing", "ok", "failed"}
    /\ inflight \in 0..MaxRequests /\ (http \in {"none", "ok"} => inflight = 0)
    /\ dvm \in {"none", "running", "failed"}
    /\ faults \in 0..MaxFaults

(* "SIGTERM/SIGINT drains received batches before exit; persistent database   *)
(* failure exits nonzero" (SELF-HOST.md:38): the process exits with 0 only    *)
(* after a signal, with its ingestion ended well, nothing received left       *)
(* unwritten and no request unanswered, in whatever order signal, failures    *)
(* and the ends of the tasks come.                                            *)
CleanExit ==
    [][Up /\ main' = "down" /\ exit_code' = 0 =>
        signalled /\ ingestion = "ok" /\ ~batch /\ http = "ok" /\ inflight = 0]_vars

(* A failed ingestion task ends the process, for the container to restart: it *)
(* never goes on serving a graph that no longer advances (SYNC.md:7).         *)
FailureEndsProcess == ingestion = "failed" ~> main = "down"

(* A signal ends the process, although requests keep coming until then.       *)
SignalEndsProcess == signalled ~> main = "down"

(* main.rs:83: "Every service is supervised".                                 *)
EveryServiceSupervised ==
    ingestion = "failed" \/ http = "failed" \/ dvm = "failed" ~> shutdown \/ main = "down"
===============================================================================
