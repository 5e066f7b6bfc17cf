--------------------------- MODULE HttpServerPool ---------------------------
(***************************************************************************)
(* complex_httpServer (the Windows half of httpConcurrencyServer.cpp, the  *)
(* one the build uses): N threads, each with an event base and an HTTP     *)
(* server of its own, all on one listening socket.  The thread of main     *)
(* starts them one by one, undoes what it did when one cannot be started,  *)
(* and stops them; a thread that does not end in time is terminated.       *)
(*                                                                         *)
(* libevent is external: event_base_loopbreak makes a loop return after    *)
(* the callback that runs, and event_base_dispatch begins by forgetting    *)
(* any break asked for before.                                             *)
(***************************************************************************)
EXTENDS Integers

CONSTANTS
  N,            (* nthreads                                                *)
  MaxStarts     (* bound on the calls of start_http_server                 *)

ASSUME PoolAssumption == N \in Nat \ {0} /\ MaxStarts \in Nat

VARIABLES
  pc, at,       (* the thread that starts and stops: where it is, and at   *)
                (* which server                                            *)
  count, then,  (* how many servers it stops, and what it does after that  *)
  arr,          (* pSeverThread is not null                                *)
  base, http,   (* the servers' event_base and evhttp                      *)
  brk,          (* event_break of the base                                 *)
  th,           (* the threads                                             *)
  failed,       (* the last start_http_server returned -1                  *)
  starts        (* calls of start_http_server                              *)

boss == <<pc, at, count, then>>
slots == <<base, http, brk, th>>
vars == <<boss, arr, slots, failed, starts>>

Slots == 0..N - 1

(* A thread that still runs on its base.                                   *)
Alive(i) == th[i] \in {"new", "looping", "handling", "leaving"}

Go(step, i) == pc' = step /\ at' = i /\ count' = 0 /\ then' = "idle"
Return == Go("idle", 0)

(* Stopping the first n servers, from the last to the first; next is what  *)
(* follows.                                                                *)
Stop(n, next) == pc' = "break" /\ at' = n - 1 /\ count' = n /\ then' = next

Init ==
  /\ pc = "idle" /\ at = 0 /\ count = 0 /\ then = "idle" /\ arr = FALSE
  /\ base = [i \in Slots |-> "none"] /\ http = [i \in Slots |-> "none"]
  /\ brk = [i \in Slots |-> FALSE] /\ th = [i \in Slots |-> "none"]
  /\ failed = FALSE /\ starts = 0

-----------------------------------------------------------------------------
(* start_http_server                                                       *)

(* It begins with stop_http_server, which does nothing without the array.  *)
CallStart ==
  /\ pc = "idle" /\ starts < MaxStarts
  /\ starts' = starts + 1
  /\ IF arr THEN Stop(N, "begin") ELSE Go("begin", 0)
  /\ UNCHANGED <<arr, slots, failed>>

(* The array is allocated and the socket bound.  When binding fails the    *)
(* array stays.                                                            *)
Begin ==
  /\ pc = "begin"
  /\ arr' = TRUE
  /\ base' = [i \in Slots |-> "none"] /\ http' = [i \in Slots |-> "none"]
  /\ brk' = [i \in Slots |-> FALSE] /\ th' = [i \in Slots |-> "none"]
  /\ \/ Go("base", 0) /\ UNCHANGED failed
     \/ Return /\ failed' = TRUE
  /\ UNCHANGED starts

(* Mutant of GiveUp: an off-by-one in the early return.                    *)
GiveUpOff(i) == IF i <= 1 THEN Go("undo", i) ELSE Stop(i, "undo")

(* stop_failed_server(i), which does nothing for the first server; then    *)
(* what server i got so far is released.                                   *)
GiveUp(i) == IF i < 1 THEN Go("undo", i) ELSE Stop(i, "undo")

MakeBase ==
  /\ pc = "base"
  /\ \/ base' = [base EXCEPT ![at] = "live"] /\ Go("http", at)
     \/ GiveUp(at) /\ UNCHANGED base
  /\ UNCHANGED <<arr, http, brk, th, failed, starts>>

MakeHttp ==
  /\ pc = "http"
  /\ \/ http' = [http EXCEPT ![at] = "live"] /\ Go("launch", at)
     \/ GiveUp(at) /\ UNCHANGED http
  /\ UNCHANGED <<arr, base, brk, th, failed, starts>>

(* Mutants of Launch: the loop runs one server too far; a server that      *)
(* cannot be started is skipped.                                           *)
LaunchTooMany ==
  /\ pc = "launch"
  /\ th' = [th EXCEPT ![at] = "new"]
  /\ IF at < N
     THEN Go("base", at + 1) /\ UNCHANGED failed
     ELSE Return /\ failed' = FALSE
  /\ UNCHANGED <<arr, base, http, brk, starts>>

LaunchOrSkip ==
  /\ pc = "launch"
  /\ th' \in {th, [th EXCEPT ![at] = "new"]}
  /\ IF at + 1 < N
     THEN Go("base", at + 1) /\ UNCHANGED failed
     ELSE Return /\ failed' = FALSE
  /\ UNCHANGED <<arr, base, http, brk, starts>>

(* evhttp_accept_socket and CreateThread: a failure of either is answered  *)
(* alike.                                                                  *)
Launch ==
  /\ pc = "launch"
  /\ \/ /\ th' = [th EXCEPT ![at] = "new"]
        /\ IF at + 1 < N
           THEN Go("base", at + 1) /\ UNCHANGED failed
           ELSE Return /\ failed' = FALSE
     \/ GiveUp(at) /\ UNCHANGED <<th, failed>>
  /\ UNCHANGED <<arr, base, http, brk, starts>>

(* Mutant of Undo: the base of the server that failed is forgotten.        *)
UndoHttpOnly ==
  /\ pc = "undo"
  /\ http' = [http EXCEPT ![at] = "none"]
  /\ Return /\ failed' = TRUE
  /\ UNCHANGED <<arr, base, brk, th, starts>>

(* evhttp_free and event_base_free.  The array, if it is still there,      *)
(* keeps the pointers.                                                     *)
Undo ==
  LET gone == IF arr THEN "dangling" ELSE "none" IN
  /\ pc = "undo"
  /\ base' = [base EXCEPT ![at] = IF @ = "live" THEN gone ELSE @]
  /\ http' = [http EXCEPT ![at] = IF @ = "live" THEN gone ELSE @]
  /\ Return /\ failed' = TRUE
  /\ UNCHANGED <<arr, brk, th, starts>>

-----------------------------------------------------------------------------
(* stop_http_server for all servers, stop_failed_server for the first n;   *)
(* the destructor calls the former once more.                              *)
CallStop ==
  /\ pc = "idle" /\ arr
  /\ Stop(N, "idle")
  /\ UNCHANGED <<arr, slots, failed, starts>>

(* The next server down, or the next loop.                                 *)
Onward(next) ==
  /\ IF at > 0 THEN UNCHANGED pc /\ at' = at - 1 ELSE pc' = next /\ at' = count - 1
  /\ UNCHANGED <<count, then>>

(* event_base_loopbreak; on a base that was freed it is undefined.         *)
Break ==
  /\ pc = "break"
  /\ IF base[at] = "dangling"
     THEN Go("crashed", at) /\ UNCHANGED brk
     ELSE Onward("wait") /\ brk' = [brk EXCEPT ![at] = (base[at] = "live") \/ @]
  /\ UNCHANGED <<arr, base, http, th, failed, starts>>

(* Mutants of Wait: it waits for good; it does not terminate.              *)
WaitForGood ==
  /\ pc = "wait" /\ ~Alive(at)
  /\ Onward("free")
  /\ UNCHANGED <<arr, slots, failed, starts>>

WaitOnly ==
  /\ pc = "wait"
  /\ Onward("free")
  /\ UNCHANGED <<arr, slots, failed, starts>>

(* WaitForSingleObject, which a thread may not answer in time, whatever it *)
(* does; then it is terminated.                                            *)
Wait ==
  /\ pc = "wait"
  /\ th' = [th EXCEPT ![at] = IF Alive(at) THEN "killed" ELSE @]
  /\ Onward("free")
  /\ UNCHANGED <<arr, base, http, brk, failed, starts>>

(* event_base_free for all, then the array is deleted.                     *)
Free ==
  /\ pc = "free"
  /\ base' = [base EXCEPT ![at] = "none"]
  /\ IF at > 0
     THEN Onward("free") /\ UNCHANGED arr
     ELSE arr' = FALSE /\ Go(then, IF then = "undo" THEN count ELSE 0)
  /\ UNCHANGED <<http, brk, th, failed, starts>>

-----------------------------------------------------------------------------
(* GlobalHttpBaseFunc on server i                                          *)
Dispatch(i) ==
  /\ th[i] = "new"
  /\ th' = [th EXCEPT ![i] = "looping"]
  /\ brk' = [brk EXCEPT ![i] = FALSE]
  /\ UNCHANGED <<boss, arr, base, http, failed, starts>>

(* A request is taken up, and answered.                                    *)
Handle(i) ==
  /\ th[i] = "looping" /\ ~brk[i]
  /\ th' = [th EXCEPT ![i] = "handling"]
  /\ UNCHANGED <<boss, arr, base, http, brk, failed, starts>>

Handled(i) ==
  /\ th[i] = "handling"
  /\ th' = [th EXCEPT ![i] = "looping"]
  /\ UNCHANGED <<boss, arr, base, http, brk, failed, starts>>

Leave(i) ==
  /\ th[i] = "looping" /\ brk[i]
  /\ th' = [th EXCEPT ![i] = "leaving"]
  /\ UNCHANGED <<boss, arr, base, http, brk, failed, starts>>

(* evhttp_free, and the thread ends.                                       *)
End(i) ==
  /\ th[i] = "leaving"
  /\ http' = [http EXCEPT ![i] = "none"]
  /\ th' = [th EXCEPT ![i] = "done"]
  /\ UNCHANGED <<boss, arr, base, brk, failed, starts>>

-----------------------------------------------------------------------------
Boss ==
  \/ CallStart \/ Begin \/ MakeBase \/ MakeHttp \/ Launch \/ Undo
  \/ CallStop \/ Break \/ Wait \/ Free

Thread(i) == Dispatch(i) \/ Handle(i) \/ Handled(i) \/ Leave(i) \/ End(i)

Next == Boss \/ \E i \in Slots : Thread(i)

(* Nothing is assumed of a request's handler, which may never return; the  *)
(* caller may never start or stop, but carries through what it began.      *)
Fairness == WF_vars(pc # "idle" /\ Boss)

Spec == Init /\ [][Next]_vars
FairSpec == Spec /\ Fairness

-----------------------------------------------------------------------------
Steps == {"idle", "begin", "base", "http", "launch", "undo", "break", "wait", "free", "crashed"}

TypeOK ==
  /\ pc \in Steps /\ at \in Slots /\ count \in 0..N /\ then \in {"idle", "begin", "undo"}
  /\ arr \in BOOLEAN
  /\ base \in [Slots -> {"none", "live", "dangling"}]
  /\ http \in [Slots -> {"none", "live", "dangling"}]
  /\ brk \in [Slots -> BOOLEAN]
  /\ th \in [Slots -> {"none", "new", "looping", "handling", "leaving", "done", "killed"}]
  /\ failed \in BOOLEAN /\ starts \in 0..MaxStarts

(* What a running thread works on is there: whatever fails while servers   *)
(* are started and however slow threads are when they are stopped, nothing *)
(* is freed under a thread (the order break, wait or terminate, free, in   *)
(* httpConcurrencyServer.cpp:331-371 and 391-444).                         *)
LiveThreads ==
  \A i \in Slots : Alive(i) => arr /\ base[i] = "live" /\ http[i] = "live"

(* Between calls, after a stop or a start that failed at any point, no     *)
(* thread runs and nothing is left over, except the evhttp of a thread     *)
(* that was terminated (main goes on after a failed start, main.cpp:5650). *)
StoppedMeansGone ==
  pc = "idle" /\ (failed \/ ~arr) =>
    \A i \in Slots : /\ ~Alive(i) /\ base[i] # "live"
                     /\ http[i] = "live" => th[i] = "killed"

(* After a start that returned 0 every one of the N servers has a thread,  *)
(* until it is stopped.                                                    *)
AllServe == pc = "idle" /\ arr /\ ~failed => \A i \in Slots : Alive(i)

(* When the first server fails, stop_failed_server returns at once, the    *)
(* array stays and its event_base was freed, so that the next stop uses    *)
(* and frees it again.  This happens to no pool with a thread.             *)
CrashOnlyFirst == pc = "crashed" => \A i \in Slots : th[i] = "none"

(* Starting and stopping come to an end, though a handler may never return *)
(* and a break that is asked for before the loop begins is forgotten.      *)
StopEnds == pc # "idle" ~> pc \in {"idle", "crashed"}
=============================================================================
