----------------------------- MODULE Lifecycle -----------------------------
(***************************************************************************)
(* The process from its start to its exit: run and waitExitSignal, the     *)
(* goroutines that poll Telegram and serve HTTP, and the signals that are  *)
(* to stop them.                                                           *)
(***************************************************************************)
EXTENDS Naturals

CONSTANTS
  MaxSignals,   \* bound on the signals sent to the process
  Requests,     \* HTTP requests, each served at most once at a time
  MaxUpdates,   \* bound on the updates handled at a time
  Faults        \* what may go wrong

ASSUME LifecycleAssumption ==
  /\ MaxSignals \in Nat /\ MaxUpdates \in Nat
  /\ Faults \subseteq {"storage", "telegram", "upsert", "listen", "hang", "late_event"}

VARIABLES
  main,      \* the statement run executes next
  exit,      \* how the process has ended, "none" while it runs
  sent,      \* number of signals sent
  sigCh,     \* the channel of signals, of capacity one
  http,      \* the goroutine that shuts the HTTP server down
  bot,       \* the goroutine that stops the bot
  serve,     \* the goroutine in ListenAndServe
  requests,  \* the HTTP requests being served
  poll,      \* the goroutine in Bot.Start
  updates    \* updates being handled, each in a goroutine

vars == <<main, exit, sent, sigCh, http, bot, serve, requests, poll, updates>>

Running == exit = "none"
May(fault) == fault \in Faults

Workers == <<http, bot, serve, requests, poll, updates>>
-----------------------------------------------------------------------------
Init ==
  /\ main = "init_storage" /\ exit = "none"
  /\ sent = 0 /\ sigCh = "empty"
  /\ http = "none" /\ bot = "none"
  /\ serve = "none" /\ requests = {}
  /\ poll = "none" /\ updates = 0

Goto(here, there) == Running /\ main = here /\ main' = there
End(how) == exit' = how

(* run, up to the server.  A panic or an error ends the process, whatever  *)
(* its goroutines are doing.                                               *)
InitStorage ==
  /\ Goto("init_storage", "init_telegram")
  /\ End("none") \/ (May("storage") /\ End("panic"))
  /\ UNCHANGED <<sent, sigCh, Workers>>

InitTelegram ==
  /\ Goto("init_telegram", "upsert_user")
  /\ \/ poll' = "polling" /\ UNCHANGED exit
     \/ May("telegram") /\ End("panic") /\ UNCHANGED poll
  /\ UNCHANGED <<sent, sigCh, http, bot, serve, requests, updates>>

UpsertUser ==
  /\ Goto("upsert_user", "init_server")
  /\ End("none") \/ (May("upsert") /\ End("error"))
  /\ UNCHANGED <<sent, sigCh, Workers>>

InitServer ==
  /\ Goto("init_server", "notify")
  /\ serve' = "starting"
  /\ UNCHANGED <<exit, sent, sigCh, http, bot, requests, poll, updates>>

(* waitExitSignal.                                                         *)
Notify ==
  /\ Goto("notify", "wait")
  /\ http' = "waiting" /\ bot' = "waiting"
  /\ UNCHANGED <<exit, sent, sigCh, serve, requests, poll, updates>>

(* Mutant: the wait group counts one goroutine.                            *)
WaitForOne ==
  /\ Goto("wait", "close_metrics")
  /\ http \in {"done", "gave_up"} \/ bot \in {"done", "gave_up"}
  /\ UNCHANGED <<exit, sent, sigCh, Workers>>

Wait ==
  /\ Goto("wait", "close_metrics")
  /\ {http, bot} \subseteq {"done", "gave_up"}
  /\ UNCHANGED <<exit, sent, sigCh, Workers>>

CloseMetrics ==
  /\ Goto("close_metrics", "close_signals")
  /\ UNCHANGED <<exit, sent, sigCh, Workers>>

CloseSignals ==
  /\ Goto("close_signals", "return")
  /\ sigCh' = "closed"
  /\ UNCHANGED <<exit, sent, Workers>>

Exit ==
  /\ Goto("return", "return")
  /\ End("ok")
  /\ UNCHANGED <<sent, sigCh, Workers>>

(* A signal kills the process before Notify.  From then on it goes to the  *)
(* channel, or is lost if the channel is full; a channel that is closed    *)
(* makes the sender panic.                                                 *)
Signal ==
  /\ Running /\ sent < MaxSignals
  /\ sent' = sent + 1
  /\ \/ /\ http = "none" /\ End("killed")
        /\ UNCHANGED sigCh
     \/ /\ http # "none" /\ sigCh # "closed"
        /\ sigCh' = "full"
        /\ UNCHANGED exit
     \/ /\ sigCh = "closed" /\ End("panic")
        /\ UNCHANGED sigCh
  /\ UNCHANGED <<main, Workers>>

Receive == Running /\ sigCh = "full" /\ sigCh' = "empty"

(* Server.Shutdown: the listener is closed at once, and the requests being *)
(* served are waited for, for ten seconds at most.                         *)
ShutdownServer ==
  /\ http = "waiting" /\ Receive
  /\ http' = "shutting_down"
  /\ serve' = IF serve = "listening" THEN "closed" ELSE serve
  /\ UNCHANGED <<main, exit, sent, bot, requests, poll, updates>>

(* Mutant: as with Close, nothing is waited for.                           *)
ServerIsDownAtOnce ==
  /\ Running /\ http = "shutting_down"
  /\ http' = "done"
  /\ UNCHANGED <<main, exit, sent, sigCh, bot, serve, requests, poll, updates>>

ServerIsDown ==
  /\ Running /\ http = "shutting_down" /\ requests = {}
  /\ http' = "done"
  /\ UNCHANGED <<main, exit, sent, sigCh, bot, serve, requests, poll, updates>>

ShutdownTimeout ==
  /\ Running /\ http = "shutting_down"
  /\ http' = "gave_up"
  /\ UNCHANGED <<main, exit, sent, sigCh, bot, serve, requests, poll, updates>>

(* Telegram.Stop: the poller is told to stop and waited for, for ten       *)
(* seconds at most; the handlers are not.                                  *)
StopBot ==
  /\ bot = "waiting" /\ Receive
  /\ bot' = "stopping"
  /\ UNCHANGED <<main, exit, sent, http, serve, requests, poll, updates>>

StopPolling ==
  /\ Running /\ bot = "stopping" /\ poll = "polling"
  /\ \/ poll' = "stopped"
     \/ May("hang") /\ poll' = "hung"
  /\ UNCHANGED <<main, exit, sent, sigCh, http, bot, serve, requests, updates>>

BotIsStopped ==
  /\ Running /\ bot = "stopping" /\ poll = "stopped"
  /\ bot' = "done"
  /\ UNCHANGED <<main, exit, sent, sigCh, http, serve, requests, poll, updates>>

(* Mutant: the goroutine waits for the bot without a limit.                *)
StopTimeoutMissing == FALSE /\ UNCHANGED vars

StopTimeout ==
  /\ Running /\ bot = "stopping"
  /\ bot' = "gave_up"
  /\ UNCHANGED <<main, exit, sent, sigCh, http, serve, requests, poll, updates>>

(* ListenAndServe: it returns at once after a Shutdown; any other failure  *)
(* ends the process.                                                       *)
ListenAndServe ==
  /\ Running /\ serve = "starting"
  /\ \/ serve' = IF http \in {"none", "waiting"} THEN "listening" ELSE "closed"
     \/ /\ May("listen") /\ http \in {"none", "waiting"}
        /\ serve' = "failed"
  /\ UNCHANGED <<main, exit, sent, sigCh, http, bot, requests, poll, updates>>

(* Mutant: that the server has failed is only logged.                      *)
ServerFailsSilently == FALSE /\ UNCHANGED vars

ServerFails ==
  /\ Running /\ serve = "failed"
  /\ End("error")
  /\ UNCHANGED <<main, sent, sigCh, Workers>>

Request(r) ==
  /\ Running /\ serve = "listening" /\ r \notin requests
  /\ requests' = requests \cup {r}
  /\ UNCHANGED <<main, exit, sent, sigCh, http, bot, serve, poll, updates>>

Respond(r) ==
  /\ Running /\ r \in requests
  /\ requests' = requests \ {r}
  /\ UNCHANGED <<main, exit, sent, sigCh, http, bot, serve, poll, updates>>

HandleUpdate ==
  /\ Running /\ poll = "polling" /\ updates < MaxUpdates
  /\ updates' = updates + 1
  /\ UNCHANGED <<main, exit, sent, sigCh, http, bot, serve, requests, poll>>

Handled ==
  /\ Running /\ updates > 0
  /\ updates' = updates - 1
  /\ UNCHANGED <<main, exit, sent, sigCh, http, bot, serve, requests, poll>>

(* The goroutine that stores a message reports it to the metrics, on whose *)
(* closed channel the send panics.                                         *)
LateEvent ==
  /\ Running /\ main \in {"close_signals", "return"} /\ updates > 0
  /\ May("late_event")
  /\ End("panic")
  /\ UNCHANGED <<main, sent, sigCh, Workers>>

Main == \/ InitStorage \/ InitTelegram \/ UpsertUser \/ InitServer
        \/ Notify \/ Wait \/ CloseMetrics \/ CloseSignals \/ Exit
Http == ShutdownServer \/ ServerIsDown \/ ShutdownTimeout
Bot == StopBot \/ BotIsStopped \/ StopTimeout
Serve == ListenAndServe \/ ServerFails

(* What the process does but for the requests it serves.                   *)
Process ==
  \/ Main \/ Http \/ Bot \/ Serve
  \/ StopPolling \/ Signal
  \/ HandleUpdate \/ Handled \/ LateEvent

Next == Process \/ \E r \in Requests : Request(r) \/ Respond(r)

Spec == Init /\ [][Next]_vars

(* Goroutines are scheduled and timers fire.  A receive is fair like any   *)
(* other step: a goroutine that waits on a channel is woken by a send.     *)
Fairness ==
  /\ WF_vars(Main) /\ WF_vars(Http) /\ WF_vars(Bot) /\ WF_vars(Serve)
  /\ WF_vars(StopPolling)

FairSpec == Spec /\ Fairness
-----------------------------------------------------------------------------
(* Every variable has its type.                                            *)
TypeOK ==
  /\ main \in {"init_storage", "init_telegram", "upsert_user", "init_server",
               "notify", "wait", "close_metrics", "close_signals", "return"}
  /\ exit \in {"none", "ok", "error", "panic", "killed"}
  /\ sent \in 0..MaxSignals
  /\ sigCh \in {"empty", "full", "closed"}
  /\ http \in {"none", "waiting", "shutting_down", "done", "gave_up"}
  /\ bot \in {"none", "waiting", "stopping", "done", "gave_up"}
  /\ serve \in {"none", "starting", "listening", "closed", "failed"}
  /\ requests \subseteq Requests
  /\ poll \in {"none", "polling", "stopped", "hung"}
  /\ updates \in 0..MaxUpdates

(* A process that ends well has closed its listener, and has finished its  *)
(* requests and stopped polling unless ten seconds were not enough.        *)
GracefulExit ==
  exit = "ok" =>
    /\ serve # "listening"
    /\ requests = {} \/ http = "gave_up"
    /\ poll = "stopped" \/ bot = "gave_up"

(* Its inductive form: how far main has come implies how far the two       *)
(* goroutines have, and what a goroutine has finished stays finished.      *)
ExitInv ==
  /\ http \notin {"none", "waiting"} => serve # "listening"
  /\ http = "done" => requests = {}
  /\ bot = "done" => poll = "stopped"
  /\ {http, bot} # {"none"} => main \notin {"init_storage", "init_telegram"}
  /\ main \in {"close_metrics", "close_signals", "return"} =>
       {http, bot} \subseteq {"done", "gave_up"}
  /\ exit = "ok" => main = "return"

(* Nothing is left running that could fail once "Flush and close the       *)
(* metrics logger" (main.go:132) has been reached.                         *)
LastStepsSucceed == main \in {"close_signals", "return"} => exit \in {"none", "ok"}

(* "handle graceful shutdown" (main.go:86): no handler of an update is     *)
(* cut off in the middle, between sending a captcha and storing it, say.   *)
HandlersFinish == exit = "ok" => updates = 0

(* "Once the signal is received, it shuts down" (main.go:77).              *)
SignalStops == sigCh = "full" ~> ~Running

(* Once both goroutines have been woken the process ends, however long     *)
(* requests take and whether or not the poller answers.                    *)
WokenStops ==
  http \notin {"none", "waiting"} /\ bot \notin {"none", "waiting"} ~> ~Running

(* "Exit the program if the server fails to start" (main.go:293).          *)
ListenFailureStops == serve = "failed" ~> ~Running
=============================================================================
