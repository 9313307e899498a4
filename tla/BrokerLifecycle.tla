--------------------------- MODULE BrokerLifecycle ---------------------------
(***************************************************************************)
(* The broker process from its arguments to its end: pkg/broker, with the  *)
(* ingest server, pkg/ingest.                                              *)
(*                                                                         *)
(* The main goroutine validates the arguments, makes the instance and      *)
(* starts its parts in order; the parts of an errgroup run until the       *)
(* context is done, by a signal or by the error of one of them.  The       *)
(* backend, the controllers and the HTTP server are modelled from how the  *)
(* instance uses them; StatusManager, ConfigWatch, SubscriptionManager and *)
(* the backends' modules have their detail.  Operators with an underscore  *)
(* are plausible slips in the definition that follows them.                *)
(***************************************************************************)
EXTENDS BrokerArgs, Sequences, Naturals

CONSTANTS
    Backends,         \* the kinds of backend to check
    MaxObservability  \* bound: sources of observability configuration given

ASSUME LifecycleAssumption ==
    Backends \subseteq {"memory", "redis", "kafka"} /\ MaxObservability \in Nat

Parts == {"status", "backend", "km", "ingest"}

\* The order in which Start starts what follows the configuration.
Followers == <<"bcw", "ocw", "bcp", "ocp", "km", "static">>

VARIABLES
    kind,      \* the kind of the backend
    args,      \* the arguments
    main,      \* where the main goroutine is
    method,    \* Globals.ConfigMethod
    created,   \* the followers of the instance that are not nil
    started,   \* the followers whose Start was called
    status,    \* Instance.status
    watch,     \* the goroutine that waits for the context to be done
    done,      \* the context is done
    part,      \* the goroutines of the errgroup
    backend,   \* "new", "ready" after Init, "closed" at the end of Start
    handler,   \* ingest has its CloudEvents handler
    request,   \* a request is in the ingest handler
    ingest,    \* the ingest status in the status manager
    lost,      \* history: a request found no handler
    exit       \* how the process ended

config == <<kind, args, method, created>>
vars == <<config, main, started, status, watch, done, part, backend, handler,
          request, ingest, lost, exit>>

Init ==
    /\ kind \in Backends
    /\ args \in {a \in Args : Cardinality(ObservabilityGiven(a)) <= MaxObservability}
    /\ main = "validate" /\ method = "unknown" /\ created = {}
    /\ started = {} /\ status = "stopped" /\ watch = "off"
    /\ done = FALSE /\ part = [p \in Parts |-> "off"]
    /\ backend = "new" /\ handler = FALSE
    /\ request = FALSE /\ ingest = "none" /\ lost = FALSE
    /\ exit = "none"

Alive == exit = "none"

Exit(how) == exit' = how /\ main' = "exited"

-----------------------------------------------------------------------------
(* Before Start. *)

BeforeStart ==
    /\ Alive
    /\ UNCHANGED <<kind, args, started, status, watch, done, part, backend, handler,
                   request, ingest, lost>>

Validate ==
    /\ main = "validate" /\ BeforeStart
    /\ IF Refused(args)
       THEN Exit("error") /\ method' = method
       ELSE method' = ConfigMethod(args) /\ main' = "initialize" /\ exit' = exit
    /\ UNCHANGED created

\* A configuration of the observability that cannot be read, parsed or built
\* gives way to the default one.
Initialize ==
    /\ main = "initialize" /\ BeforeStart
    /\ main' = "new"
    /\ UNCHANGED <<method, created, exit>>

\* The CPU quota, the default logger or a Kubernetes client.
InitializeFails ==
    /\ main = "initialize" /\ BeforeStart
    /\ Exit("error")
    /\ UNCHANGED <<method, created>>

NewInstance ==
    /\ main = "new" /\ BeforeStart
    /\ created' = Created(method, args)
    /\ main' = "start"
    /\ UNCHANGED <<method, exit>>

\* A client, the metrics, a watcher, a controller, or the inline configuration.
NewInstanceFails ==
    /\ main = "new" /\ BeforeStart
    /\ Exit("error")
    /\ UNCHANGED <<method, created>>

-----------------------------------------------------------------------------
(* Start, in the main goroutine. *)

\* Start moves on.
Continue(at) ==
    /\ main' = at
    /\ UNCHANGED <<config, status, watch, done, request, ingest, lost, exit>>

\* Start returns an error; the deferred function cancels the context, and the
\* program ends without waiting for the group.
ReturnError ==
    /\ status' = "stopped" /\ done' = TRUE
    /\ Exit("error")
    /\ UNCHANGED <<config, started, watch, part, backend, handler, request, ingest, lost>>

Start ==
    /\ main = "start" /\ Alive
    /\ status' = "starting"
    /\ watch' = "waiting"
    /\ main' = "status"
    /\ UNCHANGED <<config, started, done, part, backend, handler, request, ingest, lost, exit>>

Launch(p) == part' = [part EXCEPT ![p] = "launched"]

StartStatus ==
    /\ main = "status" /\ Alive
    /\ Launch("status")
    /\ Continue("init")
    /\ UNCHANGED <<started, backend, handler>>

BackendInit ==
    /\ main = "init" /\ Alive
    /\ \/ /\ backend' = "ready"
          /\ Continue("backend")
          /\ UNCHANGED <<started, part, handler>>
       \/ ReturnError

StartBackend ==
    /\ main = "backend" /\ Alive
    /\ Launch("backend")
    /\ Continue(Head(Followers))
    /\ UNCHANGED <<started, backend, handler>>

AfterFollower(f) ==
    IF f = "static" THEN "register"
    ELSE LET i == CHOOSE i \in 1..5 : Followers[i] = f IN Followers[i + 1]

IsFollower(f) == f \in {Followers[i] : i \in 1..6}

NotNil(f) == f \in created

SkipFollower ==
    /\ Alive /\ IsFollower(main) /\ ~NotNil(main)
    /\ Continue(AfterFollower(main))
    /\ UNCHANGED <<started, part, backend, handler>>

\* Redis: Subscribe uses the context that the goroutine of Start sets.
SubscribePanics == kind = "redis" /\ part["backend"] = "launched"

\* The ticker of the poller takes no period that is not positive.
TickerPanics == main = "bcp" /\ args.polling = "negative"

\* The watchers' first call, and the static configuration, subscribe in this
\* goroutine; a panic ends the process.
StartFollower ==
    /\ Alive /\ NotNil(main) /\ ~TickerPanics
    /\ \/ /\ started' = started \cup {main}
          /\ IF main = "km" THEN Launch("km") ELSE part' = part
          /\ Continue(AfterFollower(main))
          /\ UNCHANGED <<backend, handler>>
       \/ /\ main \in {"bcw", "ocw"}
          /\ ReturnError

FollowerPanics ==
    /\ Alive /\ NotNil(main)
    /\ TickerPanics \/ (main \in {"bcw", "static"} /\ SubscribePanics)
    /\ Exit("panic")
    /\ UNCHANGED <<config, started, status, watch, done, part, backend, handler, request,
                   ingest, lost>>

Register_Later == handler' = handler
Register == handler' = TRUE

RegisterHandler ==
    /\ main = "register" /\ Alive
    /\ Register
    /\ Continue("ingest")
    /\ UNCHANGED <<started, part, backend>>

StartIngest ==
    /\ main = "ingest" /\ Alive
    /\ Launch("ingest")
    /\ Continue("running")
    /\ UNCHANGED <<started, backend, handler>>

SetRunning ==
    /\ main = "running" /\ Alive
    /\ status' = "running"
    /\ main' = "wait"
    /\ UNCHANGED <<config, started, watch, done, part, backend, handler, request, ingest,
                   lost, exit>>

\* grp.Wait() returns when the goroutines of the group have.
Group_NoIngest == Parts \ {"ingest"}
Group == Parts

Wait ==
    /\ main = "wait" /\ Alive
    /\ \A p \in Group : part[p] \in {"off", "returned", "failed"}
    /\ status' = "stopped" /\ done' = TRUE
    /\ Exit("waited")
    /\ UNCHANGED <<config, started, watch, part, backend, handler, request, ingest, lost>>

MainStep ==
    \/ Validate \/ Initialize \/ InitializeFails \/ NewInstance \/ NewInstanceFails
    \/ Start \/ StartStatus \/ BackendInit \/ StartBackend
    \/ SkipFollower \/ StartFollower \/ FollowerPanics
    \/ RegisterHandler \/ StartIngest \/ SetRunning \/ Wait

-----------------------------------------------------------------------------
(* The goroutine that watches the context. *)

WatchMoves == Alive /\ UNCHANGED <<config, main, started, done, part, backend, handler,
                                   request, ingest, lost, exit>>

ReadStatus ==
    /\ WatchMoves /\ watch = "waiting" /\ done
    /\ watch' = IF status # "stopped" THEN "stopping" ELSE "ended"
    /\ status' = status

SetStopping ==
    /\ WatchMoves /\ watch = "stopping"
    /\ status' = "stopping"
    /\ watch' = "ended"

-----------------------------------------------------------------------------
(* The goroutines of the errgroup. *)

PartMoves == Alive /\ UNCHANGED <<config, main, started, status, watch, handler, lost, exit>>

To(p, pc) == part' = [part EXCEPT ![p] = pc]

\* The first error cancels the context.
CancelOnError_Never(pc) == done' = done
CancelOnError(pc) == done' = (done \/ pc = "failed")

\* The ticker of the status manager panics on a check period that is not
\* positive.
StatusRuns ==
    /\ PartMoves /\ part["status"] = "launched" /\ args.periods = "positive"
    /\ To("status", "running")
    /\ UNCHANGED <<done, backend, request, ingest>>

StatusPanics ==
    /\ Alive /\ part["status"] = "launched" /\ args.periods = "other"
    /\ Exit("panic")
    /\ UNCHANGED <<config, started, status, watch, done, part, backend, handler, request,
                   ingest, lost>>

StatusReturns ==
    /\ PartMoves /\ part["status"] = "running" /\ done
    /\ To("status", "returned")
    /\ UNCHANGED <<done, backend, request, ingest>>

\* The backend's Start sets its context, and returns after it is done.
BackendRuns ==
    /\ PartMoves /\ part["backend"] = "launched"
    /\ To("backend", "running")
    /\ UNCHANGED <<done, backend, request, ingest>>

BackendReturns ==
    /\ PartMoves /\ part["backend"] = "running" /\ done
    /\ backend' = "closed"
    /\ \E pc \in {"returned", "failed"} : To("backend", pc) /\ CancelOnError(pc)
    /\ UNCHANGED <<request, ingest>>

\* The loops of the file watcher and of the poller, and the controllers,
\* subscribe in goroutines of their own.
CallbackPanics ==
    /\ Alive /\ SubscribePanics
    /\ started \cap {"bcw", "bcp", "km"} # {}
    /\ Exit("panic")
    /\ UNCHANGED <<config, started, status, watch, done, part, backend, handler, request,
                   ingest, lost>>

KmReturns ==
    /\ PartMoves /\ part["km"] = "launched"
    /\ \E pc \in {"returned", "failed"} :
          (pc = "returned" => done) /\ To("km", pc) /\ CancelOnError(pc)
    /\ UNCHANGED <<backend, request, ingest>>

IngestRuns ==
    /\ PartMoves /\ part["ingest"] = "launched"
    /\ To("ingest", "running")
    /\ ingest' = "Ready"
    /\ UNCHANGED <<done, backend, request>>

\* The HTTP or the CloudEvents client cannot be made.
IngestFails ==
    /\ PartMoves /\ part["ingest"] = "launched"
    /\ To("ingest", "failed") /\ CancelOnError("failed")
    /\ UNCHANGED <<backend, request, ingest>>

\* The receiver ends when the context is done, or with an error.  It waits
\* for the requests it has accepted.
RequestsDone_Ignored == TRUE
RequestsDone == ~request

IngestReturns ==
    /\ PartMoves /\ part["ingest"] = "running"
    /\ RequestsDone
    /\ \E pc \in {"returned", "failed"} :
          (pc = "returned" => done) /\ To("ingest", pc) /\ CancelOnError(pc)
    /\ ingest' = "Closed"
    /\ UNCHANGED <<backend, request>>

Receive ==
    /\ PartMoves /\ part["ingest"] = "running" /\ ~request
    /\ request' = TRUE
    /\ UNCHANGED <<done, part, backend, ingest>>

\* A request is refused without a handler, or when Produce fails.
Answer ==
    /\ Alive /\ request
    /\ request' = FALSE
    /\ lost' = (lost \/ ~handler)
    /\ ingest' = "Running"
    /\ UNCHANGED <<config, main, started, status, watch, done, part, backend, handler, exit>>

PartStep(p) ==
    CASE p = "status"  -> StatusRuns \/ StatusPanics \/ StatusReturns
      [] p = "backend" -> BackendRuns \/ BackendReturns
      [] p = "km"      -> KmReturns
      [] p = "ingest"  -> IngestRuns \/ IngestFails \/ IngestReturns

\* SIGTERM or an interrupt: before Start it ends the process.
Signal ==
    /\ Alive /\ ~done
    /\ IF watch = "off"
       THEN Exit("killed") /\ done' = done
       ELSE done' = TRUE /\ UNCHANGED <<main, exit>>
    /\ UNCHANGED <<config, started, status, watch, part, backend, handler, request, ingest,
                   lost>>

Next ==
    \/ MainStep \/ Signal
    \/ ReadStatus \/ SetStopping
    \/ \E p \in Parts : PartStep(p)
    \/ CallbackPanics
    \/ Receive \/ Answer

Spec == Init /\ [][Next]_vars

\* Goroutines are scheduled, and requests end.  A server that ends while
\* requests come must get its turn: it accepts no more when the context is
\* done.
FairSpec ==
    /\ Spec
    /\ WF_vars(MainStep) /\ WF_vars(Answer)
    /\ \A p \in Parts : WF_vars(PartStep(p))
    /\ SF_vars(IngestReturns)
-----------------------------------------------------------------------------
(* Properties *)

\* Every variable keeps its type; a part runs only in a started instance.
TypeOK ==
    /\ kind \in Backends /\ args \in Args
    /\ method \in {"unknown", "watcher", "poller", "secret", "inline"}
    /\ created \subseteq {Followers[i] : i \in 1..6} /\ started \subseteq created
    /\ \/ IsFollower(main)
       \/ main \in {"validate", "initialize", "new", "start", "status", "init", "backend",
                   "register", "ingest", "running", "wait", "exited"}
    /\ status \in {"stopped", "starting", "running", "stopping"}
    /\ watch \in {"off", "waiting", "stopping", "ended"}
    /\ done \in BOOLEAN /\ handler \in BOOLEAN /\ request \in BOOLEAN /\ lost \in BOOLEAN
    /\ part \in [Parts -> {"off", "launched", "running", "returned", "failed"}]
    /\ backend \in {"new", "ready", "closed"}
    /\ ingest \in {"none", "Ready", "Running", "Closed"}
    /\ exit \in {"none", "error", "waited", "killed", "panic"}

\* An instance that has started follows the one complete source of
\* configuration that its arguments have.
SourceOf(f) == CASE f \in {"bcw", "bcp"} -> "file" [] f = "km" -> "secret"
                 [] f = "static" -> "inline"

FollowsItsSource ==
    main = "wait" =>
        \E f \in {"bcw", "bcp", "km", "static"} :
            /\ started \ {"ocw", "ocp"} = {f}
            /\ Sources(args) = {SourceOf(f)}

\* Nobody calls the backend before Init, and no request is refused because
\* ingest has no handler yet.
ReadyBeforeServing ==
    /\ started # {} \/ part["ingest"] # "off" => backend # "new"
    /\ ~lost

\* When Start has waited for its group, no part is left that a client or a
\* backend could notice: the requests are answered, the backend is closed.
AllPartsReturn ==
    exit = "waited" => /\ ~request /\ backend = "closed"
                       /\ \A p \in Parts : part[p] \in {"off", "returned", "failed"}

\* Closed is the last status of the ingest server.
ClosedIsFinal == [][ingest = "Closed" => ingest' = "Closed"]_vars

\* A signal, or the error of one part, ends the process.
ShutdownCompletes == done \/ (\E p \in Parts : part[p] = "failed") ~> ~Alive
=============================================================================
