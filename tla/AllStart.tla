------------------------------ MODULE AllStart ------------------------------
(***************************************************************************)
(* The main menu with its led and allstart entries (test.c, led_test.c,    *)
(* ping.c): allstart starts a thread that starts a led and a ping thread   *)
(* and stops them, some time after its menu was left, by flags that are    *)
(* never taken back. The led menu may be open meanwhile. What the LEDs     *)
(* show is left out; the usb, sdcard and flash entries are those of RwTest.*)
(***************************************************************************)
EXTENDS Naturals

VARIABLES
  user,      \* the main thread: which menu it is in
  all,       \* run_all_module: where it is
  led,       \* led_test_thread: where it is
  ping,      \* ping_thread: where it is
  flag,      \* all_module_flag, led_thread_disable, ping_thread_disable
  tids       \* which of all_tid, led_tid and ping_tid are set

allStartVars == <<user, all, led, ping, flag, tids>>

AllStartInit ==
  /\ user = "boot"
  /\ all = "none" /\ led = "none" /\ ping = "none"
  /\ flag = [all |-> FALSE, led |-> FALSE, ping |-> FALSE]
  /\ tids = [all |-> FALSE, led |-> FALSE, ping |-> FALSE]

\* pthread_create, unless the tid is set already: a thread, or none and a tid
\* that is anything.
StartOnce(name, thread, thread_) ==
  \/ ~tids[name] /\ thread_ = "loop" /\ tids' = [tids EXCEPT ![name] = TRUE]
  \/ ~tids[name] /\ thread_ = thread /\ \E t \in BOOLEAN : tids' = [tids EXCEPT ![name] = t]
  \/ tids[name] /\ thread_ = thread /\ UNCHANGED tids

-----------------------------------------------------------------------------
(* The user.                                                               *)

\* main, after usb_init: without an address or a network cable it returns; the
\* argument allstart goes to all_module_test before any menu.
main ==
  /\ user = "boot" /\ user' \in {"exit", "argv", "main"}
  /\ UNCHANGED <<all, led, ping, flag, tids>>
\* Entered and left; its commands only set LEDs.
led_module_test ==
  /\ user \in {"main", "led"} /\ user' = IF user = "main" THEN "led" ELSE "main"
  /\ UNCHANGED <<all, led, ping, flag, tids>>
\* From the menu, or by argv[1], after which main sleeps for good.
all_module_test ==
  /\ user \in {"main", "argv"} /\ StartOnce("all", all, all')
  /\ user' = IF user = "main" THEN "allstart" ELSE "argvstart"
  /\ UNCHANGED <<led, ping, flag>>
stop_all_module ==
  /\ user \in {"allstart", "argvstart"} /\ flag' = [flag EXCEPT !.all = TRUE]
  /\ user' = IF user = "allstart" THEN "main" ELSE "sleep"
  /\ UNCHANGED <<all, led, ping, tids>>
\* exit(1) takes every thread with it.
Exit ==
  /\ user = "main" /\ user' = "exit"
  /\ UNCHANGED <<all, led, ping, flag, tids>>

-----------------------------------------------------------------------------
(* run_all_module                                                          *)

Running == user # "exit"
AllLoop ==
  /\ Running /\ all = "loop"
  /\ all' = IF flag.all THEN "stopled" ELSE "led"
  /\ UNCHANGED <<user, led, ping, flag, tids>>
led_start_run ==
  /\ Running /\ all = "led" /\ all' = "eth" /\ StartOnce("led", led, led')
  /\ UNCHANGED <<user, ping, flag>>
ethwork_start_run ==
  /\ Running /\ all = "eth" /\ all' = "sleep" /\ StartOnce("ping", ping, ping')
  /\ UNCHANGED <<user, led, flag>>
AllWake ==
  /\ Running /\ all = "sleep" /\ all' = "loop"
  /\ UNCHANGED <<user, led, ping, flag, tids>>

\* led_stop_run, usb_stop_run and sdcard_stop_run (RwTest: they return),
\* ethwork_stop_run.
X_StopAll ==
  /\ Running /\ all \in {"stopled", "stopeth"}
  /\ all' = IF all = "stopled" THEN "stopeth" ELSE "ended"
  /\ flag' = [flag EXCEPT !.led = TRUE]
  /\ UNCHANGED <<user, led, ping, tids>>
StopAll ==
  /\ Running /\ all \in {"stopled", "stopeth"}
  /\ all' = IF all = "stopled" THEN "stopeth" ELSE "ended"
  /\ flag' = [flag EXCEPT ![IF all = "stopled" THEN "led" ELSE "ping"] = TRUE]
  /\ UNCHANGED <<user, led, ping, tids>>
AllThread == AllLoop \/ led_start_run \/ ethwork_start_run \/ AllWake \/ StopAll

-----------------------------------------------------------------------------
(* The threads it starts.                                                  *)

\* The flag is looked at once for five colours of half a second each.
led_test_thread ==
  /\ Running /\ led \in {"loop", "colours"}
  /\ led' = IF led = "colours" THEN "loop" ELSE IF flag.led THEN "ended" ELSE "colours"
  /\ UNCHANGED <<user, all, ping, flag, tids>>
\* Whether or not system("busybox ping ... -c 3") succeeds, the loop goes on.
ping_thread ==
  /\ Running /\ ping \in {"loop", "system"}
  /\ ping' = IF ping = "system" THEN "loop" ELSE IF flag.ping THEN "ended" ELSE "system"
  /\ UNCHANGED <<user, all, led, flag, tids>>

User_ == main \/ led_module_test \/ all_module_test \/ stop_all_module \/ Exit
AllStartNext == User_ \/ AllThread \/ led_test_thread \/ ping_thread

\* The threads are scheduled, sleeps end and so do the commands of system();
\* the user need not do anything.
AllStartFairness ==
  WF_allStartVars(AllThread) /\ WF_allStartVars(led_test_thread) /\ WF_allStartVars(ping_thread)

-----------------------------------------------------------------------------
\* test.c, led_test.c, ping.c: once the allstart menu has been left, the led and
\* the ping thread end and are never started again, wherever the three threads
\* were and whatever menu the user has gone to.
AllStopped ==
  flag.all ~> [](user = "exit" \/ (led \in {"none", "ended"} /\ ping \in {"none", "ended"}))
=============================================================================
