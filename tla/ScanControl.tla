---------------------------- MODULE ScanControl ----------------------------
(***************************************************************************)
(* Who starts, interrupts, restarts and ends the scan of the music         *)
(* directory: scan_start and scan_thread_func of scan.c, called by main,   *)
(* by the handler of SIGUSR1 (musicd.c), by /rescan on the server thread   *)
(* (protocol_http.c) and by a scan thread that was told to restart.        *)
(*                                                                         *)
(* What lies between a lock and an unlock of scan_mutex is one step, and   *)
(* so is each read or write of thread_running, restart and interrupted     *)
(* made without it.  What a scan does to the library is not modelled here. *)
(*                                                                         *)
(* Left out: music-directory not set (nothing is ever started then), and   *)
(* SIGUSR1 in the instructions during which main itself holds scan_mutex.  *)
(***************************************************************************)
EXTENDS Naturals, FiniteSets

CONSTANTS Starters,     \* who calls scan_start from outside: "main", "usr1", "server"
          Threads,      \* names for the detached scan threads
          MaxRequests,  \* bound: how often scan_start is called from outside
          MaxFailures   \* bound: how often pthread_create fails

ASSUME ScanAssumption == /\ {"main", "usr1"} \subseteq Starters
                         /\ Starters \cap Threads = {}
                         /\ MaxRequests \in Nat \ {0}
                         /\ MaxFailures \in Nat

VARIABLES thread_running, restart, interrupted,
          active,      \* status.active
          pc,          \* where each starter and each scan thread is
          caught,      \* SIGINT is caught by scan_signal_handler
          sigint,      \* history: SIGINT has been sent
          ended,       \* how the process has ended: "no", "exit" or "killed"
          requests,    \* history: how many calls of scan_start were made
          began,       \* began[th]: how many of them before th began to walk
          served,      \* history: how many of them before the latest walk
                       \*          that was completed began
          failures,    \* history: how often pthread_create has failed
          stuck,       \* history: it has since the last scan ended
          overtaken    \* history: a restart was asked for while a thread was
                       \*          between its last unlock and its last test

flags == <<thread_running, restart, interrupted>>
history == <<sigint, requests, began, served>>
creation == <<failures, stuck>>
vars == <<flags, active, pc, caught, ended, history, creation, overtaken>>

(***************************************************************************)
(* In scan_start: "call" before the lock, "set" after the unlock, "create" *)
(* with thread_running set.  In scan_thread_func: "begin", "open" before   *)
(* scan sets its signal handler, "walk" in scan_directory, "cut" when the  *)
(* walk was broken off, "end" after scan, "last" after the last unlock.    *)
(***************************************************************************)
Calling == {"call", "set", "create"}
Scanning == {"begin", "open", "walk", "cut", "end"}
Actors == Starters \cup Threads

(* main comes to its scan_start with the server thread already running.    *)
Init == /\ thread_running = FALSE /\ restart = FALSE /\ interrupted = FALSE
        /\ active = FALSE
        /\ pc = [p \in Actors |-> IF p = "main" THEN "call"
                                  ELSE IF p \in Starters THEN "idle" ELSE "none"]
        /\ caught = FALSE
        /\ sigint = FALSE
        /\ ended = "no"
        /\ requests = 1
        /\ began = [th \in Threads |-> 0]
        /\ served = 0
        /\ failures = 0 /\ stuck = FALSE /\ overtaken = FALSE

Goto(p, from, to) == pc[p] = from /\ pc' = [pc EXCEPT ![p] = to]

-----------------------------------------------------------------------------
(* scan_start.                                                             *)

(* The handler of SIGUSR1 and /rescan, any number of times; main once.     *)
Request(p) == /\ p \in Starters \ {"main"} /\ requests < MaxRequests
              /\ Goto(p, "idle", "call")
              /\ requests' = requests + 1
              /\ UNCHANGED <<flags, active, caught, ended, sigint, began, served, creation, overtaken>>

(* Seeded fault: a scan thread that has restarted the scan is not gone.    *)
BackIdle(p) == "idle"

(* What a caller does next: a scan thread that restarts the scan is gone.  *)
Back(p) == IF p \in Starters THEN "idle" ELSE "none"

(* Seeded fault: the scan is interrupted, and that it is to restart is not *)
(* noted.                                                                  *)
TellToStop(p) == /\ thread_running
                 /\ Goto(p, "call", Back(p))
                 /\ interrupted' = TRUE
                 /\ overtaken' = (overtaken \/ \E th \in Threads : pc[th] = "last")
                 /\ UNCHANGED <<thread_running, restart, active, caught, ended, history, creation>>

(* The section under the mutex.                                            *)
TellToRestart(p) == /\ thread_running
                    /\ Goto(p, "call", Back(p))
                    /\ restart' = TRUE /\ interrupted' = TRUE
                    /\ overtaken' = (overtaken \/ \E th \in Threads : pc[th] = "last")
                    /\ UNCHANGED <<thread_running, active, caught, ended, history, creation>>

FindIdle(p) == /\ ~thread_running
               /\ Goto(p, "call", "set")
               /\ UNCHANGED <<flags, active, caught, ended, history, creation, overtaken>>

(* The assignment after the mutex was given back, and pthread_create.      *)
SetRunning(p) == /\ Goto(p, "set", "create")
                 /\ thread_running' = TRUE
                 /\ UNCHANGED <<restart, interrupted, active, caught, ended, history, creation, overtaken>>

Create(p) ==
  /\ pc[p] = "create"
  /\ \E th \in Threads : /\ pc[th] = "none"
                         /\ pc' = [pc EXCEPT ![p] = Back(p), ![th] = "begin"]
  /\ UNCHANGED <<flags, active, caught, ended, history, creation, overtaken>>

(* No thread is made, and thread_running stays set.                        *)
CreateFails(p) ==
  /\ failures < MaxFailures
  /\ Goto(p, "create", Back(p))
  /\ failures' = failures + 1 /\ stuck' = TRUE
  /\ UNCHANGED <<flags, active, caught, ended, history, overtaken>>

(* The handler runs on the main thread, on top of what main was doing.     *)
MayRun(p) == p = "main" => pc["usr1"] = "idle"

ScanStart(p) == /\ MayRun(p)
                /\ TellToRestart(p) \/ FindIdle(p) \/ SetRunning(p)
                   \/ Create(p) \/ CreateFails(p)

-----------------------------------------------------------------------------
(* scan_thread_func.                                                       *)

Begin(th) == /\ Goto(th, "begin", "open")
             /\ active' = TRUE
             /\ UNCHANGED <<flags, caught, ended, history, creation, overtaken>>

(* signal(SIGINT, scan_signal_handler), and the walk begins.               *)
Open(th) == /\ Goto(th, "open", "walk")
            /\ caught' = TRUE
            /\ began' = [began EXCEPT ![th] = requests]
            /\ UNCHANGED <<flags, active, ended, sigint, requests, served, creation, overtaken>>

(* One of the tests of interrupted during the walk ends it early.          *)
Cut(th) == /\ interrupted
           /\ Goto(th, "walk", "cut")
           /\ UNCHANGED <<flags, active, caught, ended, history, creation, overtaken>>

(* signal(SIGINT, NULL), after a walk to the end or one that was cut.      *)
Walked(th) ==
  /\ \/ /\ Goto(th, "walk", "end")
        /\ served' = IF began[th] > served THEN began[th] ELSE served
     \/ /\ Goto(th, "cut", "end") /\ UNCHANGED served
  /\ caught' = FALSE
  /\ UNCHANGED <<flags, active, ended, sigint, requests, began, creation, overtaken>>

(* Seeded faults, one per line of the section: a flag is not reset, the    *)
(* request to restart is not looked at, or is dropped.                     *)
EndRunning(th) ==
  /\ stuck' = FALSE
  /\ active' = FALSE
  /\ IF restart THEN /\ Goto(th, "end", "call")
                     /\ restart' = FALSE /\ interrupted' = FALSE
                ELSE Goto(th, "end", "last") /\ UNCHANGED <<restart, interrupted>>
  /\ UNCHANGED <<thread_running, caught, ended, history, failures, overtaken>>
EndInterrupted(th) ==
  /\ thread_running' = FALSE /\ active' = FALSE /\ stuck' = FALSE
  /\ IF restart THEN Goto(th, "end", "call") /\ restart' = FALSE
                ELSE Goto(th, "end", "last") /\ UNCHANGED restart
  /\ UNCHANGED <<interrupted, caught, ended, history, failures, overtaken>>
EndBlind(th) ==
  /\ thread_running' = FALSE /\ active' = FALSE /\ stuck' = FALSE
  /\ Goto(th, "end", "last")
  /\ UNCHANGED <<restart, interrupted, caught, ended, history, failures, overtaken>>
EndDropped(th) ==
  /\ thread_running' = FALSE /\ active' = FALSE /\ stuck' = FALSE
  /\ restart' = FALSE /\ interrupted' = FALSE
  /\ Goto(th, "end", "none")
  /\ UNCHANGED <<caught, ended, history, failures, overtaken>>

(* The last section under the mutex.                                       *)
End(th) ==
  /\ thread_running' = FALSE /\ active' = FALSE /\ stuck' = FALSE
  /\ IF restart THEN /\ Goto(th, "end", "call")
                     /\ restart' = FALSE /\ interrupted' = FALSE
                ELSE Goto(th, "end", "last") /\ UNCHANGED <<restart, interrupted>>
  /\ UNCHANGED <<caught, ended, history, failures, overtaken>>

(* The test of interrupted that the mutex does not protect, and exit(0).   *)
Last(th) == /\ Goto(th, "last", "none")
            /\ ended' = IF interrupted THEN "exit" ELSE ended
            /\ UNCHANGED <<flags, active, caught, history, creation, overtaken>>

ScanThread(th) == \/ Begin(th) \/ Open(th) \/ Cut(th)
                  \/ Walked(th) \/ End(th) \/ Last(th)

(* The user stops musicd: scan_signal_handler, or the default action.      *)
Sigint == /\ ~sigint /\ sigint' = TRUE
          /\ IF caught THEN interrupted' = TRUE /\ UNCHANGED ended
                       ELSE ended' = "killed" /\ UNCHANGED interrupted
          /\ UNCHANGED <<thread_running, restart, active, pc, caught, requests, began, served, creation, overtaken>>

-----------------------------------------------------------------------------
Step(p) == ended = "no" /\ (ScanStart(p) \/ (p \in Threads /\ ScanThread(p)))

Next == \/ \E p \in Actors : Step(p)
        \/ ended = "no" /\ (Sigint \/ \E p \in Starters : Request(p))

(* Every thread that can run does, and a walk ends.                        *)
Fairness == \A p \in Actors : WF_vars(Step(p))

Spec == Init /\ [][Next]_vars
FairSpec == Spec /\ Fairness

-----------------------------------------------------------------------------
(* Properties.                                                             *)

TypeOK ==
  /\ flags \in BOOLEAN \X BOOLEAN \X BOOLEAN
  /\ {active, caught, sigint} \subseteq BOOLEAN
  /\ pc \in [Actors -> {"idle", "none", "last"} \cup Calling \cup Scanning]
  /\ \A p \in Starters : pc[p] \in {"idle"} \cup Calling
  /\ \A th \in Threads : pc[th] # "idle"
  /\ ended \in {"no", "exit", "killed"}
  /\ requests \in Nat /\ served \in Nat
  /\ began \in [Threads -> Nat]
  /\ failures \in 0 .. MaxFailures /\ {stuck, overtaken} \subseteq BOOLEAN

(* Somebody is about to create a scan thread, or a scan thread has yet to  *)
(* come to its last section under the mutex.                               *)
Backed == \/ \E p \in Actors : pc[p] = "create"
          \/ \E th \in Threads : pc[th] \in Scanning

(* thread_running is set outside the mutex and reset by any scan thread;   *)
(* still it is never left set with nobody to reset it, which would turn    *)
(* every later request into a restart that never comes, unless a thread    *)
(* could not be made since the last one ended.                             *)
RunningFlagBacked == thread_running => Backed \/ stuck

(* A request to restart is always noted for a thread that will see it, with*)
(* the same exception.                                                     *)
RestartBacked == restart => Backed \/ stuck

(* A scan is interrupted because another one was asked for or because the  *)
(* user stops musicd; the flag never survives its reason, or the next scan *)
(* would stop at its first directory.                                      *)
InterruptHasReason == interrupted => restart \/ sigint

(* /status never shows a scan that is active when there is none.           *)
StatusBacked == active => \E th \in Threads : pc[th] \in Scanning \ {"begin"}

(* The test after the last unlock ends the process only if the user stops  *)
(* musicd, or if a restart was asked for while a thread was between that   *)
(* unlock and that test: it then takes the restart for a stop.             *)
ExitHasReason == ended # "no" => sigint \/ overtaken

(* After every call of scan_start, by whoever and however many at once,    *)
(* the directory is walked from its beginning to its end by a scan that    *)
(* began after the call, although scan.h says that a call during a scan    *)
(* does nothing: scan_start breaks that scan off to start again.  Excepted *)
(* are a thread that could not be made, and the two ends of the process    *)
(* that ExitHasReason names.                                               *)
RescanHonoured ==
  \A n \in 1 .. MaxRequests :
    requests >= n ~> \/ served >= n
                     \/ failures > 0
                     \/ ended # "no" /\ (sigint \/ overtaken)

(* scan.h: scan_start does nothing if a scan is already active.  So there  *)
(* is never more than one.                                                 *)
AtMostOneScan == Cardinality({th \in Threads : pc[th] \in Scanning}) <= 1

=============================================================================
