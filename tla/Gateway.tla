------------------------------ MODULE Gateway ------------------------------
(***************************************************************************)
(* cmd/main.go: the process around the Server.  main opens the store,      *)
(* starts the HTTP gateway in a goroutine and runs the gRPC server; the    *)
(* gateway is a gRPC client of the same process.  Each of the two can fail *)
(* while the other runs, and each failure is a panic: the panic of the     *)
(* main goroutine unwinds main, which closes the store under the handlers  *)
(* that still run; the panic of the gateway's goroutine ends the process   *)
(* where it stands.                                                        *)
(*                                                                         *)
(* Requests come straight from gRPC clients or through the gateway, whose  *)
(* http.Server drops an answer that comes later than its WriteTimeout:     *)
(* that client has to give up while the handler goes on, and may send the  *)
(* request again.  No client sends a request on a name while one waits for *)
(* an answer about it; that is all the order there is, so Conflicts is     *)
(* Unordered in the instances of this module.                              *)
(*                                                                         *)
(* The process may be killed, and a supervisor may start it again.  A      *)
(* request that finds no gRPC server is refused by the gateway and has no  *)
(* step here.                                                              *)
(***************************************************************************)
EXTENDS Frontend

CONSTANTS
  StoreReliable,   \* an open store does what it is asked to
  MaxLate          \* bound: so many answers come too late

ASSUME GatewayAssumption == StoreReliable \in BOOLEAN /\ MaxLate \in Nat

VARIABLES
  main,      \* how far the main goroutine is
  gateway,   \* how far the gateway's goroutine is
  waiting,   \* the workers whose answer a client waits for
  late       \* history: requests <<op, name>> whose client gave up

process == <<main, gateway, waiting, late>>

MainPhases    == {"down", "opened", "failed", "listening", "serving", "unwinding", "closed"}
GatewayPhases == {"none", "starting", "serving"}

\* The process is there; the store is open; a handler can run.
Up         == main # "down"
StoreOpen  == main \in {"opened", "listening", "serving", "unwinding"}
Served     == main \in {"serving", "unwinding", "closed"}

GatewayInit ==
  /\ Init
  /\ main = "down" /\ gateway = "none"
  /\ waiting = {}
  /\ late = {}

---------------------------------------------------------------------------
(* main and runGrpcServer.                                                 *)

MainGoes(from, to) == main = from /\ main' = to

\* redis.NewClient, then go runGatewayServer.  If the store cannot be reached
\* main panics and nothing has changed.
OpenStore ==
  /\ MainGoes("down", "opened")
  /\ gateway' = "starting"
  /\ UNCHANGED <<vars, waiting, late>>

\* net.Listen and what is set up before Serve.  The port, the TLS files or the
\* credentials may be bad: then runGrpcServer panics.
Listen ==
  /\ MainGoes("opened", "listening") \/ MainGoes("opened", "failed")
  /\ UNCHANGED <<vars, gateway, waiting, late>>

Serve ==
  /\ MainGoes("listening", "serving")
  /\ UNCHANGED <<vars, gateway, waiting, late>>

\* Mutant: the error is only logged, and main serves again with a new Server.
ServeFailsAndServesAgain ==
  /\ MainGoes("serving", "listening")
  /\ ListHelper' = {}
  /\ UNCHANGED <<store, fw, h, reply, cut, gateway, waiting, late>>

\* Serve returns only with an error, and runGrpcServer panics.
ServeFails ==
  /\ MainGoes("serving", "unwinding")
  /\ UNCHANGED <<vars, gateway, waiting, late>>

\* The deferred calls: the tracer is shut down, then the store is closed.
CloseStore ==
  /\ MainGoes("unwinding", "closed")
  /\ UNCHANGED <<vars, gateway, waiting, late>>

\* The process ends, and with it the handlers, ListHelper and the connections
\* of the clients.
Ends ==
  /\ Restart
  /\ main' = "down" /\ gateway' = "none"
  /\ waiting' = {}
  /\ UNCHANGED late

Exit   == main \in {"failed", "closed"} /\ Ends
Killed == Up /\ Ends

---------------------------------------------------------------------------
(* runGatewayServer.                                                       *)

GatewayServes ==
  /\ gateway = "starting" /\ gateway' = "serving"
  /\ UNCHANGED <<vars, main, waiting, late>>

\* Mutant: the gateway's errors are only logged.
GatewayFailsQuietly ==
  /\ gateway \in {"starting", "serving"}
  /\ gateway' = "none"
  /\ UNCHANGED <<vars, main, waiting, late>>

\* A handler cannot be registered, or ListenAndServe returns: log.Panic in a
\* goroutine of its own ends the process.
GatewayFails == gateway \in {"starting", "serving"} /\ Ends

---------------------------------------------------------------------------
(* Requests.                                                               *)

StorePhases == {"parent", "get", "save", "erase"}

\* What is read from or written to a closed store fails.
StoreAnswers(w) ==
  IF StoreOpen
  THEN StoreReliable /\ h[w].pc \in StorePhases => reply'[w] # "Failed"
  ELSE ~Running(w) \/ h[w].pc \in StorePhases
         => reply'[w] = "Failed" /\ UNCHANGED store

\* A request arrives, and either is answered at once or has a client waiting.
Send(w) ==
  /\ Served
  /\ Request(w)
  /\ StoreAnswers(w)
  /\ \A v \in waiting : h[v].key # h'[w].key
  /\ waiting' = IF Running(w)' THEN waiting \cup {w} ELSE waiting
  /\ UNCHANGED <<main, gateway, late>>

\* A handler takes a step; if it returns, whoever still waits has the answer.
HandleServed(w) ==
  /\ Handle(w)
  /\ StoreAnswers(w)
  /\ waiting' = IF Running(w)' THEN waiting ELSE waiting \ {w}
  /\ UNCHANGED <<main, gateway, late>>

\* WriteTimeout passes: the answer will not be written.  The handler goes on.
GiveUp(w) ==
  /\ gateway = "serving" /\ w \in waiting
  /\ Cardinality(late) < MaxLate
  /\ waiting' = waiting \ {w}
  /\ late' = late \cup {<<h[w].op, h[w].key>>}
  /\ UNCHANGED <<vars, main, gateway>>

GatewayNext ==
  \/ OpenStore \/ Listen \/ Serve \/ ServeFails \/ CloseStore \/ Exit \/ Killed
  \/ GatewayServes \/ GatewayFails
  \/ \E w \in Worker : Send(w) \/ HandleServed(w) \/ GiveUp(w)

GatewaySpec == GatewayInit /\ [][GatewayNext]_<<vars, process>>

\* A goroutine that can run runs: the handlers, and main and the gateway on
\* their way up and down.  A listener and a store operation return.
FairGatewaySpec ==
  /\ GatewaySpec
  /\ \A w \in Worker : WF_<<vars, process>>(HandleServed(w))
  /\ WF_<<vars, process>>(Listen \/ Serve \/ CloseStore \/ Exit)
  /\ WF_<<vars, process>>(GatewayServes)

---------------------------------------------------------------------------

\* The process around it only restarts the Server and lets its store fail: whatever
\* main, the gateway and the clients do, the handlers do what Frontend says, and
\* what holds for it holds for the process.
ServerSpec == Spec

\* Type invariant of the process: the two goroutines live and die together, and a
\* handler runs only where a gRPC server was started.
GatewayTypeOK ==
  /\ main \in MainPhases /\ gateway \in GatewayPhases
  /\ waiting \subseteq {w \in Worker : Running(w)} /\ late \subseteq MutatingOps \X Keys
  /\ gateway = "none" <=> main = "down"
  /\ \A w \in Worker : Running(w) => Served

\* Frontend as it is when a request whose answer came late counts as one that was
\* cut short.  A late update counts as a delete: it may save its record again after
\* the controller was deleted, and the id in that record may by now be another's.
Stale ==
  {IF r[1] = "UpdateNvmeController" THEN <<"DeleteNvmeController", r[2]>> ELSE r : r \in late}

Timed == INSTANCE Frontend WITH cut <- cut \cup Stale

\* A request that is sent again because its answer was late can run beside the
\* first one.  What that does is limited like the harm of a request that fails:
\* a late create harms its own name and the names below it only, and beyond the
\* subsystem of a late delete or update every name still has its record, its name
\* in ListHelper and its object.
LateHarmsOwnName == Timed!Mirrored /\ Timed!ListHelperExact

\* What breaks the order in which one name is handled is an answer that came late,
\* nothing else: neither the two goroutines, a store closed under the handlers nor
\* a restart do.
OneAtATimeUntilLate == late = {} => OneAtATime

\* "Make sure the gRPC server is running properly and accessible": a bridge that
\* has only one of its two servers does not stay like that; it comes up with both
\* or goes down, so that a supervisor notices.
BothServe == main = "serving" /\ gateway = "serving"
UpOrDown  == Up /\ ~BothServe ~> BothServe \/ ~Up
=============================================================================
