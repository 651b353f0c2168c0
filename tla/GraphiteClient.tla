--------------------------- MODULE GraphiteClient ---------------------------
(***************************************************************************)
(* GraphiteClient: the socket, the send loop and the retry back-off, called*)
(* again and again by the statistics thread, against a Carbon server that  *)
(* comes and goes.  A batch is sent in Batch pieces, each taken by the     *)
(* kernel while its send buffer has room.  The server may change between   *)
(* any two system calls.  Time is counted in ticks; a system call that     *)
(* waits lets some of them pass.                                           *)
(***************************************************************************)
EXTENDS Naturals, FiniteSetsExt

CONSTANTS connectTimeout,  \* connectTimeoutMs_, in ticks
          sendTimeout,     \* sendTimeoutMs_
          kRetryInitial,   \* the first back-off
          kRetryMax,       \* the longest
          Batch,           \* pieces a payload is sent in
          Room             \* pieces the kernel's send buffer takes

ASSUME GraphiteAssumption ==
    /\ {connectTimeout, sendTimeout} \subseteq Nat
    /\ {kRetryInitial, kRetryMax, Batch, Room} \subseteq Nat \ {0}
    /\ kRetryInitial <= kRetryMax

VARIABLES
    at,          \* send(): "idle", "connect", "sending"
    fd,          \* fd_ is a socket
    remaining,   \* pieces still to be sent
    retryDelay,  \* retryDelay_
    due,         \* time until nextAttempt_
    last,        \* what the last send() did: "none", "ok", "failed", "skipped"
    spent,       \* history: time spent in this call
    since,       \* history: time since the last failure, at most kRetryMax
    fails,       \* history: failures since the last success, at most kRetryMax
    server,      \* one of Servers
    alive,       \* the server has not reset the connection
    room,        \* free pieces in the send buffer of the connection
    wire         \* pieces of an unfinished batch on the connection

netVars == <<server, alive, room, wire>>
backoffVars == <<retryDelay, due, since, fails>>
vars == <<at, fd, remaining, backoffVars, last, spent, netVars>>

(* "stalled" accepts and does not read; "unknown" has no address; "up" also  *)
(* means that the local system calls work and the time-outs are enough.      *)
Servers == {"up", "stalled", "refusing", "silent", "unknown"}

Init == /\ at = "idle"
        /\ fd = FALSE
        /\ remaining = 0
        /\ retryDelay = 0
        /\ due = 0
        /\ last = "none"
        /\ spent = 0
        /\ since = 0
        /\ fails = 0
        /\ server \in Servers
        /\ alive = FALSE
        /\ room = 0
        /\ wire = 0

Ago(t, d) == IF t > d THEN t - d ELSE 0

(* d ticks pass. *)
Pass(d) == /\ due' = Ago(due, d)
           /\ since' = Min({since + d, kRetryMax})

backingOff == retryDelay > 0 /\ due > 0

-----------------------------------------------------------------------------
(* How a call ends *)

(* Mutant: the socket of a failed send is kept. *)
noteFailureKeep ==
    /\ retryDelay' = IF retryDelay = 0 THEN kRetryInitial ELSE Min({retryDelay * 2, kRetryMax})
    /\ due' = retryDelay'
    /\ since' = 0
    /\ fails' = Min({fails + 1, kRetryMax})
    /\ at' = "idle"
    /\ last' = "failed"
    /\ UNCHANGED fd

(* Mutant: the back-off never grows. *)
noteFailureFlat ==
    /\ retryDelay' = kRetryInitial
    /\ due' = retryDelay'
    /\ since' = 0
    /\ fails' = Min({fails + 1, kRetryMax})
    /\ at' = "idle"
    /\ last' = "failed"
    /\ fd' = FALSE

(* Drop the socket and extend the back-off; send() returns false.           *)
noteFailure ==
    /\ retryDelay' = IF retryDelay = 0 THEN kRetryInitial ELSE Min({retryDelay * 2, kRetryMax})
    /\ due' = retryDelay'
    /\ since' = 0
    /\ fails' = Min({fails + 1, kRetryMax})
    /\ at' = "idle"
    /\ last' = "failed"
    /\ fd' = FALSE

(* Clear the back-off; send() returns true. *)
noteSuccess == /\ retryDelay' = 0
               /\ due' = 0
               /\ UNCHANGED since
               /\ fails' = 0
               /\ at' = "idle"
               /\ last' = "ok"

-----------------------------------------------------------------------------
(* send() *)

(* Mutant: a call that is skipped counts as another attempt. *)
SkipExtending == /\ at = "idle"
                 /\ ~fd
                 /\ backingOff
                 /\ last' = "skipped"
                 /\ due' = retryDelay
                 /\ UNCHANGED <<at, fd, remaining, retryDelay, since, fails, spent, netVars>>

(* The client is backing off: the network is not touched. *)
Skip == /\ at = "idle"
        /\ ~fd
        /\ backingOff
        /\ last' = "skipped"
        /\ UNCHANGED <<at, fd, remaining, backoffVars, spent, netVars>>

(* A call that goes to the network; without a socket it makes one and        *)
(* connects first.                                                           *)
Begin == /\ at = "idle"
         /\ fd \/ ~backingOff
         /\ remaining' = Batch
         /\ spent' = 0
         /\ at' = IF fd THEN "sending" ELSE "connect"
         /\ UNCHANGED <<fd, backoffVars, last, netVars>>

(* connectSocket() finds no address or gets no socket. *)
NoSocket == /\ at = "idle"
            /\ ~fd
            /\ ~backingOff
            /\ server = "unknown"
            /\ spent' = 0
            /\ noteFailure
            /\ UNCHANGED <<remaining, netVars>>

(* The non-blocking connect settles in time. *)
Connected == /\ at = "connect"
             /\ server \in {"up", "stalled"}
             /\ \E d \in 0 .. connectTimeout : Pass(d) /\ spent' = spent + d
             /\ fd' = TRUE
             /\ at' = "sending"
             /\ alive' = TRUE
             /\ room' = Room
             /\ wire' = 0
             /\ UNCHANGED <<remaining, retryDelay, fails, last, server>>

(* Mutant: the connect is left to the kernel's own time-out. *)
RefusedBlocking == /\ at = "connect"
                   /\ server \notin {"up", "stalled"}
                   /\ spent' = spent + connectTimeout + Batch * sendTimeout + 1
                   /\ noteFailure
                   /\ UNCHANGED <<remaining, netVars>>

(* It is refused, not settled when the time is over, or the mode of the      *)
(* socket cannot be set.                                                     *)
Refused == /\ at = "connect"
           /\ server \notin {"up", "stalled"}
           /\ \E d \in 0 .. connectTimeout :
                  (server = "silent" => d = connectTimeout) /\ spent' = spent + d
           /\ noteFailure
           /\ UNCHANGED <<remaining, netVars>>

(* ::send() took a piece: at once if there is room, else as soon as the      *)
(* server has read one.  After the last piece send() is done.                *)
Sent == /\ at = "sending"
        /\ remaining > 0
        /\ \/ room > 0 /\ Pass(0) /\ room' = room - 1 /\ UNCHANGED spent
           \/ /\ room = 0 /\ alive /\ server = "up"
              /\ \E d \in 0 .. sendTimeout : Pass(d) /\ spent' = spent + d
              /\ UNCHANGED room
        /\ remaining' = remaining - 1
        /\ wire' = (wire + 1) % Batch
        /\ UNCHANGED <<at, fd, retryDelay, fails, last, server, alive>>

(* The connection is reset, or nothing was read in sendTimeout. *)
NotSent == /\ at = "sending"
           /\ remaining > 0
           /\ \/ ~alive /\ UNCHANGED spent
              \/ room = 0 /\ server # "up" /\ spent' = spent + sendTimeout
           /\ noteFailure
           /\ UNCHANGED <<remaining, netVars>>

Done == /\ at = "sending"
        /\ remaining = 0
        /\ noteSuccess
        /\ UNCHANGED <<fd, remaining, spent, netVars>>

-----------------------------------------------------------------------------
(* Outside the client *)

(* Time between two calls. *)
Tick == /\ at = "idle"
        /\ due > 0 \/ since < kRetryMax
        /\ Pass(1)
        /\ UNCHANGED <<at, fd, remaining, retryDelay, fails, last, spent, netVars>>

(* The server reads what the kernel holds. *)
Reads == /\ server = "up"
         /\ alive
         /\ room < Room
         /\ room' = room + 1
         /\ UNCHANGED <<at, fd, remaining, backoffVars, last, spent, server, alive, wire>>

(* The server, or the way to it, changes; a restart resets the connection. *)
ServerChanges == /\ server' \in Servers \ {server}
                 /\ alive' \in {alive, FALSE}
                 /\ UNCHANGED <<at, fd, remaining, backoffVars, last, spent, room, wire>>

-----------------------------------------------------------------------------
Call == Skip \/ Begin \/ NoSocket \/ Connected \/ Refused \/ Sent \/ NotSent \/ Done

Next == Call \/ Tick \/ Reads \/ ServerChanges

(* The statistics thread keeps calling, system calls come back, time passes *)
(* and a server that is up reads.                                           *)
Fairness == WF_vars(Call) /\ WF_vars(Tick) /\ WF_vars(Reads)

Spec == Init /\ [][Next]_vars /\ Fairness

-----------------------------------------------------------------------------
(* Properties *)

(* The delay that has to pass before the next attempt after n failures. *)
Delay(n) == IF n = 0 THEN 0 ELSE Min({kRetryInitial * 2 ^ (n - 1), kRetryMax})

(* "Retry no faster than this after a failure, doubling up to the cap"      *)
(* (GraphiteClient.hpp:60): the attempt after n failures in a row comes no  *)
(* sooner than Delay(n) after the last of them, whether it failed in the    *)
(* connect, in a send that timed out or on a connection that was reset.     *)
AttemptsSpaced == [][at = "idle" /\ at' = "connect" => since >= Delay(fails)]_vars

(* "Carbon parses whole lines" (GraphiteClient.cpp:253): on one connection  *)
(* batches follow each other whole.  The rest of a batch that was cut off   *)
(* is never sent, so no two lines run into each other.                      *)
LinesAreWhole == at = "sending" => wire = (Batch - remaining) % Batch

(* "Every call is time-bounded" (GraphiteClient.hpp:7): by the connect      *)
(* time-out and one send time-out for each piece the kernel takes.          *)
CallsAreBounded == spent <= connectTimeout + Batch * sendTimeout

(* A server that is back for good gets every batch in the end: the back-off *)
(* runs out and no state the client got into keeps it from reconnecting.    *)
Recovers == <>[](server = "up") => []<>(last = "ok")
=============================================================================
