------------------------------ MODULE PodLister ------------------------------
(***************************************************************************)
(* The pod lister (podlister/main.go): main, a ticker goroutine that       *)
(* starts a list goroutine on every tick, and the two unbuffered channels  *)
(* over which the list goroutines hand their result to main.  Neither      *)
(* break leaves the loop around its select, so both loops go on after a    *)
(* signal; main never returns, and its deferred shutdown of the metrics    *)
(* server never runs.  The counts of the request counter and logging,      *)
(* which have no effect on the rest, are left out.                         *)
(***************************************************************************)

CONSTANT Lists   \* slots for list goroutines: a bound, the program has none

VARIABLES
    contextTimeout, \* CONTEXT_TIMEOUT is set: a list call has a deadline
    showErrorsOnly, \* SHOW_ERRORS_ONLY
    main,           \* where main is: in its start-up, in its loop, or ended by it
    server,         \* the metrics server: "none", "serving", "failed"
    exit,           \* the buffered channel exit holds a signal
    cancelled,      \* mainCtx is cancelled
    tick,           \* the timer of the ticker goroutine's select has fired
    list            \* each list goroutine: not running, in the call, or sending

env  == <<contextTimeout, showErrorsOnly>>
mainVars == <<main, server>>
vars == <<env, mainVars, exit, cancelled, tick, list>>

TypeOK ==
    /\ contextTimeout \in BOOLEAN /\ showErrorsOnly \in BOOLEAN
    /\ main \in {"env", "clientSet", "counter", "server", "loop", "fatal"}
    /\ server \in {"none", "serving", "failed"}
    /\ exit \in BOOLEAN /\ cancelled \in BOOLEAN /\ tick \in BOOLEAN
    /\ list \in [Lists -> {"none", "listing", "error", "data"}]

Init ==
    /\ contextTimeout \in BOOLEAN /\ showErrorsOnly \in BOOLEAN
    /\ main = "env" /\ server = "none"
    /\ exit = FALSE /\ cancelled = FALSE /\ tick = FALSE
    /\ list = [g \in Lists |-> "none"]

-----------------------------------------------------------------------------
(* The start-up of main *)

\* A step of it, from one point to the next, or log.Fatalf.
GoTo(from, to) ==
    /\ main = from /\ main' \in {to, "fatal"}
    /\ UNCHANGED <<env, exit, cancelled, tick, list>>

\* CONTEXT_TIMEOUT and TICK_INTERVAL must be durations; a SHOW_ERRORS_ONLY that is
\* not a truth value is ignored.
ReadEnv == GoTo("env", "clientSet") /\ UNCHANGED server

clientSet == GoTo("clientSet", "counter") /\ UNCHANGED server

registerCounter == GoTo("counter", "server") /\ UNCHANGED server

\* The server gets a goroutine of its own, and then the ticker.
startHTTPServer ==
    /\ main = "server" /\ main' = "loop"
    /\ server' = "serving"
    /\ UNCHANGED <<env, exit, cancelled, tick, list>>

\* ListenAndServe returns an error, which is logged.
ServerFails ==
    /\ server = "serving" /\ server' = "failed"
    /\ UNCHANGED <<env, main, exit, cancelled, tick, list>>

-----------------------------------------------------------------------------
(* The ticker goroutine *)

TimerFires ==
    /\ main = "loop" /\ ~tick
    /\ tick' = TRUE
    /\ UNCHANGED <<env, mainVars, exit, cancelled, list>>

\* The next iteration has a timer of its own.
StartList ==
    /\ tick
    /\ tick' = FALSE
    /\ \E g \in Lists : list[g] = "none" /\ list' = [list EXCEPT ![g] = "listing"]
    /\ UNCHANGED <<env, mainVars, exit, cancelled>>

\* "exiting goroutine": the break leaves the select, and a new timer is made.
ContextDone ==
    /\ cancelled
    /\ tick' = FALSE
    /\ UNCHANGED <<env, mainVars, exit, cancelled, list>>

-----------------------------------------------------------------------------
(* The list goroutines *)

\* Mutant of ListReturns: an aborted call is a result that nobody receives.
ListAborts(g) ==
    /\ list[g] = "listing"
    /\ \E r \in {"aborted", IF showErrorsOnly THEN "none" ELSE "data"} :
        list' = [list EXCEPT ![g] = r]
    /\ UNCHANGED <<env, mainVars, exit, cancelled, tick>>

\* The call returns, with an error that is sent or with pods that are sent
\* unless only errors are shown.
ListReturns(g) ==
    /\ list[g] = "listing"
    /\ \E r \in {"error", IF showErrorsOnly THEN "none" ELSE "data"} :
        list' = [list EXCEPT ![g] = r]
    /\ UNCHANGED <<env, mainVars, exit, cancelled, tick>>

\* Nothing but its context ends a call that gets no answer.
ListEnds(g) == (contextTimeout \/ cancelled) /\ ListReturns(g)

-----------------------------------------------------------------------------
(* main *)

\* os.Interrupt, once signal.Notify has been called; a signal that finds the channel
\* full is dropped.
Signal ==
    /\ main \notin {"env", "fatal"}
    /\ exit' = TRUE
    /\ UNCHANGED <<env, mainVars, cancelled, tick, list>>

\* Mutant of ReceiveExit: the loop is left before mainCancel is called.
ReceiveOnly ==
    /\ main = "loop" /\ exit
    /\ exit' = FALSE
    /\ UNCHANGED <<env, mainVars, cancelled, tick, list>>

ReceiveExit ==
    /\ main = "loop" /\ exit
    /\ exit' = FALSE
    /\ cancelled' = TRUE
    /\ UNCHANGED <<env, mainVars, tick, list>>

\* Mutant of Receive: main's loop ends with the signal.
ReceiveUntilExit(g) ==
    /\ ~cancelled
    /\ list[g] \in {"error", "data"}
    /\ list' = [list EXCEPT ![g] = "none"]
    /\ UNCHANGED <<env, mainVars, exit, cancelled, tick>>

\* main receives from errChan or dataChan; the sending goroutine ends.
Receive(g) ==
    /\ list[g] \in {"error", "data"}
    /\ list' = [list EXCEPT ![g] = "none"]
    /\ UNCHANGED <<env, mainVars, exit, cancelled, tick>>

-----------------------------------------------------------------------------
Next ==
    \/ ReadEnv \/ clientSet \/ registerCounter \/ startHTTPServer \/ ServerFails
    \/ TimerFires \/ StartList \/ ContextDone \/ Signal \/ ReceiveExit
    \/ \E g \in Lists : ListReturns(g) \/ Receive(g)

Spec == Init /\ [][Next]_vars

\* main and the list goroutines run, a select chooses at random among its ready
\* cases, and a call returns once its context is done.  Calls of a server that
\* does not answer, signals and ticks are not forced.
Fairness ==
    /\ WF_vars(clientSet \/ registerCounter \/ startHTTPServer \/ ReceiveExit)
    /\ \A g \in Lists : WF_vars(ListEnds(g)) /\ WF_vars(Receive(g))

FairSpec == Spec /\ Fairness

-----------------------------------------------------------------------------
(* Properties *)

\* No list goroutine blocks for ever on the unbuffered channels: a result or an
\* error is always received, also after the signal.
ResultsReceived ==
    \A g \in Lists : list[g] \in {"error", "data"} ~> list[g] = "none"

\* A signal, even one that arrives during the start-up, cancels the context of every
\* list call: calls that get no answer and have no deadline end, and so do later ones.
SignalEndsLists ==
    /\ exit ~> cancelled \/ main = "fatal"
    /\ \A g \in Lists : exit /\ list[g] = "listing" ~> list[g] # "listing"

=============================================================================
