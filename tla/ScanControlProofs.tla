------------------------- MODULE ScanControlProofs -------------------------
(***************************************************************************)
(* Proofs about ScanControl, for any number of scan threads and of calls   *)
(* of scan_start.  The invariants of the run hold together: RestartBacked  *)
(* needs RunningFlagBacked, because a request to restart is noted only     *)
(* when thread_running is set, and all of them need the types.  stuck says *)
(* that pthread_create has failed, which is what both of them except.      *)
(* That musicd ends for a reason needs one more fact: a thread comes to    *)
(* its last test with no restart noted, so one that is noted there was     *)
(* asked for too late.                                                     *)
(***************************************************************************)
EXTENDS ScanControl, TLAPS

(* A restart noted while a thread is before its last test came too late    *)
(* for that thread.                                                        *)
LateIsOvertaken == (\E th \in Threads : pc[th] = "last") /\ restart => overtaken

IInv == /\ TypeOK /\ RunningFlagBacked /\ RestartBacked /\ InterruptHasReason
        /\ StatusBacked /\ LateIsOvertaken /\ ExitHasReason

(* A step is a call of scan_start that goes on, a scan thread that goes    *)
(* on, the user stopping musicd, or a new call.                            *)
LEMMA StepCases ==
  ASSUME Next
  PROVE  \/ \E p \in Actors : \/ TellToRestart(p) \/ FindIdle(p)
                              \/ SetRunning(p) \/ Create(p) \/ CreateFails(p)
         \/ \E th \in Threads : ScanThread(th)
         \/ Sigint
         \/ \E p \in Starters : Request(p)
  BY DEF Next, Step, ScanStart

LEMMA InitIInv == Init => IInv
<1> SUFFICES ASSUME Init PROVE IInv
  OBVIOUS
<1>1. TypeOK
  <2>1. flags \in BOOLEAN \X BOOLEAN \X BOOLEAN /\ {active, caught, sigint} \subseteq BOOLEAN
    BY DEF Init, flags
  <2>2. /\ pc \in [Actors -> {"idle", "none", "last"} \cup Calling \cup Scanning]
        /\ \A p \in Starters : pc[p] \in {"idle"} \cup Calling
        /\ \A th \in Threads : pc[th] # "idle"
    BY ScanAssumption DEF Init, Actors, Calling
  <2>3. failures \in 0 .. MaxFailures /\ {stuck, overtaken} \subseteq BOOLEAN
    <3>1. MaxFailures \in Nat /\ failures = 0
      BY ScanAssumption DEF Init
    <3>2. failures \in 0 .. MaxFailures
      BY <3>1
    <3> QED
      BY <3>2 DEF Init
  <2>4. requests \in Nat /\ served \in Nat /\ began \in [Threads -> Nat]
    BY DEF Init
  <2>5. ended \in {"no", "exit", "killed"}
    BY DEF Init
  <2> QED
    BY <2>1, <2>2, <2>3, <2>4, <2>5 DEF TypeOK
<1>2. RunningFlagBacked /\ RestartBacked /\ InterruptHasReason /\ StatusBacked
  BY DEF Init, RunningFlagBacked, RestartBacked, InterruptHasReason, StatusBacked
<1>3. LateIsOvertaken /\ ExitHasReason
  BY DEF Init, LateIsOvertaken, ExitHasReason
<1> QED
  BY <1>1, <1>2, <1>3 DEF IInv

(* The types.                                                              *)
LEMMA TypeStep == TypeOK /\ [Next]_vars => TypeOK'
<1> SUFFICES ASSUME TypeOK, [Next]_vars PROVE TypeOK'
  OBVIOUS
<1> USE ScanAssumption DEF TypeOK, flags, Actors, creation
<1>1. ASSUME NEW p \in Actors,
             TellToRestart(p) \/ FindIdle(p) \/ SetRunning(p)
      PROVE  TypeOK'
  BY <1>1 DEF TellToRestart, FindIdle, SetRunning, Goto, Back, history, Calling
<1>2. ASSUME NEW p \in Actors, Create(p) PROVE TypeOK'
  BY <1>2 DEF Create, Back, history, Calling, Scanning
<1>2a. ASSUME NEW p \in Actors, CreateFails(p) PROVE TypeOK'
  <2>1. failures' \in 0 .. MaxFailures
    BY <1>2a DEF CreateFails
  <2> QED
    BY <1>2a, <2>1 DEF CreateFails, Goto, Back, history, Calling
<1>3. ASSUME NEW th \in Threads, ScanThread(th) PROVE TypeOK'
  <2>1. CASE Begin(th) \/ Cut(th)
    BY <2>1 DEF Begin, Cut, Goto, history, Scanning
  <2>2. CASE Open(th)
    BY <2>2 DEF Open, Goto, Scanning
  <2>3. CASE Walked(th)
    <3>1. served' \in Nat
      BY <2>3 DEF Walked
    <3>2. pc' = [pc EXCEPT ![th] = "end"]
      BY <2>3 DEF Walked, Goto
    <3> QED
      BY <2>3, <3>1, <3>2 DEF Walked, Scanning
  <2>4. CASE End(th)
    <3>1. pc' = [pc EXCEPT ![th] = "call"] \/ pc' = [pc EXCEPT ![th] = "last"]
      BY <2>4 DEF End, Goto
    <3>2. restart' \in BOOLEAN /\ interrupted' \in BOOLEAN
      BY <2>4 DEF End
    <3> QED
      BY <2>4, <3>1, <3>2 DEF End, history, Calling
  <2>5. CASE Last(th)
    BY <2>5 DEF Last, Goto, history
  <2> QED
    BY <1>3, <2>1, <2>2, <2>3, <2>4, <2>5 DEF ScanThread
<1>4. CASE Sigint
  BY <1>4 DEF Sigint
<1>5. ASSUME NEW p \in Starters, Request(p) PROVE TypeOK'
  BY <1>5 DEF Request, Goto, Calling
<1>6. CASE UNCHANGED vars
  BY <1>6 DEF vars, history
<1> QED
  BY <1>1, <1>2, <1>3, <1>4, <1>5, <1>6, <1>2a, StepCases

(* Only the last section of a scan thread takes away what backs the flags, *)
(* and it resets both of them.                                             *)
LEMMA BackedStep ==
  TypeOK /\ RunningFlagBacked /\ RestartBacked /\ [Next]_vars
    => RunningFlagBacked' /\ RestartBacked'
<1> SUFFICES ASSUME TypeOK, RunningFlagBacked, RestartBacked, [Next]_vars
             PROVE  RunningFlagBacked' /\ RestartBacked'
  OBVIOUS
<1> USE ScanAssumption DEF TypeOK, flags, Actors, creation, RunningFlagBacked, RestartBacked, Backed
<1>1. ASSUME NEW p \in Actors, TellToRestart(p) \/ FindIdle(p)
      PROVE  RunningFlagBacked' /\ RestartBacked'
  BY <1>1 DEF TellToRestart, FindIdle, Goto, Scanning
<1>2. ASSUME NEW p \in Actors, SetRunning(p)
      PROVE  RunningFlagBacked' /\ RestartBacked'
  BY <1>2 DEF SetRunning, Goto, Scanning
<1>3. ASSUME NEW p \in Actors, Create(p)
      PROVE  RunningFlagBacked' /\ RestartBacked'
  <2>1. PICK th \in Threads : pc[th] = "none" /\ pc' = [pc EXCEPT ![p] = Back(p), ![th] = "begin"]
    BY <1>3 DEF Create
  <2>2. pc'[th] \in Scanning
    BY <2>1 DEF Scanning
  <2> QED
    BY <2>2
<1>3a. ASSUME NEW p \in Actors, CreateFails(p)
      PROVE  RunningFlagBacked' /\ RestartBacked'
  BY <1>3a DEF CreateFails
<1>4. ASSUME NEW th \in Threads, ScanThread(th)
      PROVE  RunningFlagBacked' /\ RestartBacked'
  <2>1. CASE Begin(th) \/ Open(th) \/ Cut(th) \/ Walked(th)
    <3>1. pc'[th] \in Scanning
      BY <2>1 DEF Begin, Open, Cut, Walked, Goto, Scanning
    <3> QED
      BY <3>1
  <2>2. CASE End(th)
    BY <2>2 DEF End
  <2>3. CASE Last(th)
    BY <2>3 DEF Last, Goto, Scanning
  <2> QED
    BY <1>4, <2>1, <2>2, <2>3 DEF ScanThread
<1>5. CASE Sigint
  BY <1>5 DEF Sigint
<1>6. ASSUME NEW p \in Starters, Request(p)
      PROVE  RunningFlagBacked' /\ RestartBacked'
  BY <1>6 DEF Request, Goto, Scanning
<1>7. CASE UNCHANGED vars
  BY <1>7 DEF vars
<1> QED
  BY <1>1, <1>2, <1>3, <1>4, <1>5, <1>6, <1>7, <1>3a, StepCases

(* interrupted is set and reset together with restart, except by SIGINT.   *)
LEMMA ReasonStep ==
  TypeOK /\ InterruptHasReason /\ [Next]_vars => InterruptHasReason'
<1> SUFFICES ASSUME TypeOK, InterruptHasReason, [Next]_vars
             PROVE  InterruptHasReason'
  OBVIOUS
<1> USE DEF TypeOK, flags, history, InterruptHasReason
<1>1. ASSUME NEW p \in Actors,
             TellToRestart(p) \/ FindIdle(p) \/ SetRunning(p) \/ Create(p) \/ CreateFails(p)
      PROVE  InterruptHasReason'
  BY <1>1 DEF TellToRestart, FindIdle, SetRunning, Create, CreateFails
<1>2. ASSUME NEW th \in Threads, ScanThread(th) PROVE InterruptHasReason'
  BY <1>2 DEF ScanThread, Begin, Open, Cut, Walked, End, Last
<1>3. CASE Sigint
  BY <1>3 DEF Sigint
<1>4. ASSUME NEW p \in Starters, Request(p) PROVE InterruptHasReason'
  BY <1>4 DEF Request
<1>5. CASE UNCHANGED vars
  BY <1>5 DEF vars
<1> QED
  BY <1>1, <1>2, <1>3, <1>4, <1>5, StepCases

(* The status that is shown is reset in the step that ends a scan.         *)
LEMMA StatusStep ==
  TypeOK /\ StatusBacked /\ [Next]_vars => StatusBacked'
<1> SUFFICES ASSUME TypeOK, StatusBacked, [Next]_vars PROVE StatusBacked'
  OBVIOUS
<1> USE ScanAssumption DEF TypeOK, Actors, StatusBacked
<1>1. ASSUME NEW p \in Actors,
             TellToRestart(p) \/ FindIdle(p) \/ SetRunning(p) \/ CreateFails(p)
      PROVE  StatusBacked'
  BY <1>1 DEF TellToRestart, FindIdle, SetRunning, CreateFails, Goto, Scanning
<1>2. ASSUME NEW p \in Actors, Create(p) PROVE StatusBacked'
  <2>1. PICK th \in Threads : pc[th] = "none" /\ pc' = [pc EXCEPT ![p] = Back(p), ![th] = "begin"]
    BY <1>2 DEF Create
  <2>2. \A t \in Threads : pc[t] \in Scanning \ {"begin"} => pc'[t] = pc[t]
    BY <1>2, <2>1 DEF Create, Scanning
  <2>3. active' = active
    BY <1>2 DEF Create
  <2> QED
    BY <2>2, <2>3
<1>3. ASSUME NEW th \in Threads, ScanThread(th) PROVE StatusBacked'
  <2>1. CASE Begin(th) \/ Open(th) \/ Cut(th) \/ Walked(th)
    <3>1. pc'[th] \in Scanning \ {"begin"}
      BY <2>1 DEF Begin, Open, Cut, Walked, Goto, Scanning
    <3> QED
      BY <3>1
  <2>2. CASE End(th)
    BY <2>2 DEF End
  <2>3. CASE Last(th)
    BY <2>3 DEF Last, Goto, Scanning
  <2> QED
    BY <1>3, <2>1, <2>2, <2>3 DEF ScanThread
<1>4. CASE Sigint
  BY <1>4 DEF Sigint
<1>5. ASSUME NEW p \in Starters, Request(p) PROVE StatusBacked'
  BY <1>5 DEF Request, Goto, Scanning
<1>6. CASE UNCHANGED vars
  BY <1>6 DEF vars
<1> QED
  BY <1>1, <1>2, <1>3, <1>4, <1>5, <1>6, StepCases

(* A thread goes to its last test with no restart noted; one noted after   *)
(* that has overtaken it.                                                  *)
LEMMA LateStep == TypeOK /\ LateIsOvertaken /\ [Next]_vars => LateIsOvertaken'
<1> SUFFICES ASSUME TypeOK, LateIsOvertaken, [Next]_vars PROVE LateIsOvertaken'
  OBVIOUS
<1> USE ScanAssumption DEF TypeOK, flags, Actors, LateIsOvertaken
<1>1. ASSUME NEW p \in Actors, TellToRestart(p) PROVE LateIsOvertaken'
  <2>1. \A th \in Threads : pc'[th] = "last" => pc[th] = "last"
    BY <1>1 DEF TellToRestart, Goto, Back
  <2>2. (\E th \in Threads : pc[th] = "last") => overtaken'
    BY <1>1 DEF TellToRestart
  <2> QED
    BY <2>1, <2>2
<1>2. ASSUME NEW p \in Actors,
             FindIdle(p) \/ SetRunning(p) \/ Create(p) \/ CreateFails(p)
      PROVE  LateIsOvertaken'
  <2>1. \A th \in Threads : pc'[th] = "last" => pc[th] = "last"
    BY <1>2 DEF FindIdle, SetRunning, Create, CreateFails, Goto, Back
  <2>2. restart' = restart /\ overtaken' = overtaken
    BY <1>2 DEF FindIdle, SetRunning, Create, CreateFails
  <2> QED
    BY <2>1, <2>2
<1>3. ASSUME NEW th \in Threads, ScanThread(th) PROVE LateIsOvertaken'
  <2>1. CASE Begin(th) \/ Open(th) \/ Cut(th) \/ Walked(th) \/ Last(th)
    <3>1. \A t \in Threads : pc'[t] = "last" => pc[t] = "last"
      BY <2>1 DEF Begin, Open, Cut, Walked, Last, Goto
    <3>2. restart' = restart /\ overtaken' = overtaken
      BY <2>1 DEF Begin, Open, Cut, Walked, Last
    <3> QED
      BY <3>1, <3>2
  <2>2. CASE End(th)
    <3>1. ~restart'
      BY <2>2 DEF End
    <3> QED
      BY <3>1
  <2> QED
    BY <1>3, <2>1, <2>2 DEF ScanThread
<1>4. CASE Sigint
  BY <1>4 DEF Sigint
<1>5. ASSUME NEW p \in Starters, Request(p) PROVE LateIsOvertaken'
  BY <1>5 DEF Request, Goto
<1>6. CASE UNCHANGED vars
  BY <1>6 DEF vars
<1> QED
  BY <1>1, <1>2, <1>3, <1>4, <1>5, <1>6, StepCases

(* The process ends in two steps only: at the last test of a scan thread,  *)
(* where what is found interrupted has a reason, and by SIGINT.            *)
LEMMA ExitStep ==
  /\ TypeOK /\ InterruptHasReason /\ LateIsOvertaken /\ ExitHasReason
  /\ [Next]_vars
  => ExitHasReason'
<1> SUFFICES ASSUME TypeOK, InterruptHasReason, LateIsOvertaken, ExitHasReason, [Next]_vars
             PROVE  ExitHasReason'
  OBVIOUS
<1> USE DEF TypeOK, flags, history, ExitHasReason
<1>1. ASSUME NEW p \in Actors,
             TellToRestart(p) \/ FindIdle(p) \/ SetRunning(p) \/ Create(p) \/ CreateFails(p)
      PROVE  ExitHasReason'
  BY <1>1 DEF TellToRestart, FindIdle, SetRunning, Create, CreateFails
<1>2. ASSUME NEW th \in Threads, ScanThread(th) PROVE ExitHasReason'
  <2>1. CASE Begin(th) \/ Open(th) \/ Cut(th) \/ Walked(th) \/ End(th)
    BY <2>1 DEF Begin, Open, Cut, Walked, End
  <2>2. CASE Last(th)
    <3>1. interrupted => sigint \/ overtaken
      BY <2>2 DEF Last, Goto, InterruptHasReason, LateIsOvertaken
    <3> QED
      BY <2>2, <3>1 DEF Last
  <2> QED
    BY <1>2, <2>1, <2>2 DEF ScanThread
<1>3. CASE Sigint
  BY <1>3 DEF Sigint
<1>4. ASSUME NEW p \in Starters, Request(p) PROVE ExitHasReason'
  BY <1>4 DEF Request
<1>5. CASE UNCHANGED vars
  BY <1>5 DEF vars
<1> QED
  BY <1>1, <1>2, <1>3, <1>4, <1>5, StepCases

LEMMA AlwaysIInv == Spec => []IInv
<1>1. IInv /\ [Next]_vars => IInv'
  BY TypeStep, BackedStep, ReasonStep, StatusStep, LateStep, ExitStep DEF IInv
<1> QED
  BY InitIInv, <1>1, PTL DEF Spec

-----------------------------------------------------------------------------
(* Every variable of scan control keeps its type.                          *)
THEOREM ScanTypesKept == Spec => []TypeOK
<1>1. IInv => TypeOK
  BY DEF IInv
<1> QED
  BY AlwaysIInv, <1>1, PTL

(* thread_running, set outside scan_mutex, is never left set with no scan  *)
(* thread there or being created that will reset it, if none has failed.   *)
THEOREM RunningFlagAlwaysBacked == Spec => []RunningFlagBacked
<1>1. IInv => RunningFlagBacked
  BY DEF IInv
<1> QED
  BY AlwaysIInv, <1>1, PTL

(* A request to restart the scan is never noted with nobody left to see it.*)
THEOREM RestartAlwaysBacked == Spec => []RestartBacked
<1>1. IInv => RestartBacked
  BY DEF IInv
<1> QED
  BY AlwaysIInv, <1>1, PTL

(* A scan is broken off only for a restart or for SIGINT.                  *)
THEOREM InterruptAlwaysHasReason == Spec => []InterruptHasReason
<1>1. IInv => InterruptHasReason
  BY DEF IInv
<1> QED
  BY AlwaysIInv, <1>1, PTL

(* The answer of /status never shows an active scan when there is none.    *)
THEOREM StatusAlwaysBacked == Spec => []StatusBacked
<1>1. IInv => StatusBacked
  BY DEF IInv
<1> QED
  BY AlwaysIInv, <1>1, PTL

(* musicd ends only for SIGINT, or because a restart asked for after the   *)
(* last unlock of a scan thread is taken for a stop by that thread.        *)
THEOREM ExitAlwaysHasReason == Spec => []ExitHasReason
<1>1. IInv => ExitHasReason
  BY DEF IInv
<1> QED
  BY AlwaysIInv, <1>1, PTL

=============================================================================
