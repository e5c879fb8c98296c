------------------------------ MODULE AmxHost ------------------------------
(***************************************************************************)
(* The event loop of pawnrun.c and the idle functions that the extension   *)
(* modules chain into it: the timer of amxtime.c, the keyboard of          *)
(* amxcons.c and the datagrams of amxdgram.c.                              *)
(*                                                                         *)
(* Each module's Init saves the idle function it finds in the machine's    *)
(* user data and puts its own there; each idle function calls the one it   *)
(* saved before it looks for its own event, and calls a public function of *)
(* the script when there is one.  The host calls the last one installed,   *)
(* over and over: on a copy of the machine while main sleeps, on the       *)
(* machine itself when main has ended.  Ctrl-C may come at any time.       *)
(*                                                                         *)
(* What amx_Exec does to the machine is AmxExec's subject: here a call is  *)
(* its begin, what the script does meanwhile, and the result at its end.   *)
(* The sleeping and resuming of a handler happens inside its call.         *)
(***************************************************************************)
EXTENDS Integers, Sequences, FiniteSets

CONSTANTS
    Loaded,         \* the extension modules in the order of their Init
    Handlers,       \* sets of public functions that a script may define
    CellBits,       \* width of a cell
    LongBits,       \* width of the C type unsigned long, at least CellBits
    Limits,         \* what scripts pass to settimer
    Delays,         \* what scripts pass to sleep
    SelectSees,     \* select(0, ...) looks at the socket: only on Windows
    MaxElapsed,     \* bound: ticks between a timer's due time and the next poll
    MaxPending      \* bound: keys and datagrams that wait

ModuleNames == {"time", "cons", "dgram"}
Publics     == {"@timer", "@keypressed", "@receivestring", "@receivepacket"}

ASSUME HostAssumption ==
    /\ Loaded \in Seq(ModuleNames) /\ Handlers \subseteq SUBSET Publics
    /\ CellBits \in Nat \ {0} /\ LongBits \in Nat /\ CellBits <= LongBits
    /\ Limits \subseteq Nat /\ Delays \subseteq Nat
    /\ SelectSees \in BOOLEAN /\ MaxElapsed \in Nat /\ MaxPending \in Nat

VARIABLES
    script,     \* the public functions of the script
    prev,       \* module -> its PrevIdle
    idle,       \* the machine's user data 'Idle'
    inits,      \* how many modules of Loaded have run their Init
    phase,      \* "load", "main", "asleep", "events" or "exit"
    wake,       \* ticks until the sleep of main is over
    turn,       \* idle functions still to look for an event, innermost first
    running,    \* the script function that runs: "main", a public one, or "none"
    loops,      \* the running function never returns by itself
    clock,      \* the tick counter, as gettimestamp gets it in a cell
    timer,      \* the statics of amxtime.c
    keys,       \* keys that wait
    dgrams,     \* datagrams that wait, in order
    bound,      \* dgramBound
    abort,      \* abortflagged
    hook,       \* the machine has the debug hook
    nested,     \* nested_amx has the debug hook
    elapsed,    \* history: ticks since the timer was set or last came due
    armed,      \* history: the script waits for a timer
    crossed     \* history: a wider long has been extended with another sign
                \* since the timer was set

vars == <<script, prev, idle, inits, phase, wake, turn, running, loops, clock, timer,
          keys, dgrams, bound, abort, hook, nested, elapsed, armed, crossed>>
chain   == <<prev, idle, inits>>
events  == <<clock, timer, keys, dgrams, bound, elapsed, armed, crossed>>
control == <<phase, wake, turn, running, loops>>
debug   == <<abort, hook, nested>>

Init ==
    /\ script \in Handlers
    /\ prev = [m \in ModuleNames |-> "none"] /\ idle = "none" /\ inits = 0
    /\ phase = "load" /\ wake = 0 /\ turn = <<>> /\ running = "none" /\ loops = FALSE
    /\ clock = 0 /\ timer = [stamp |-> 0, limit |-> 0, repeat |-> FALSE]
    /\ keys = 0 /\ dgrams = <<>> /\ bound = FALSE
    /\ abort = FALSE /\ hook \in BOOLEAN /\ nested = FALSE      \* the option -stack
    /\ elapsed = 0 /\ armed = FALSE /\ crossed = FALSE

-----------------------------------------------------------------------------
(* Loading.                                                                *)

\* The public functions a module looks for.
Wanted(m) == CASE m = "time"  -> {"@timer"}
               [] m = "cons"  -> {"@keypressed"}
               [] m = "dgram" -> {"@receivestring", "@receivepacket"}

\* Mutant: the idle function that was there is forgotten.
InitForgetsPrev ==
    LET m == Loaded[inits + 1]
    IN /\ phase = "load" /\ inits < Len(Loaded)
       /\ inits' = inits + 1
       /\ IF Wanted(m) \cap script # {}
          THEN idle' = m /\ UNCHANGED prev
          ELSE UNCHANGED <<prev, idle>>
       /\ UNCHANGED <<script, control, events, debug>>

\* amx_TimeInit, amx_ConsoleInit, amx_DGramInit.  That one gives up when it gets
\* no socket (udp_Open); nobody looks at what it returns.
InitModule ==
    LET m == Loaded[inits + 1]
    IN /\ phase = "load" /\ inits < Len(Loaded)
       /\ inits' = inits + 1
       /\ \/ Wanted(m) \cap script # {} /\ prev' = [prev EXCEPT ![m] = idle] /\ idle' = m
          \/ (Wanted(m) \cap script = {} \/ m = "dgram") /\ UNCHANGED <<prev, idle>>
       /\ UNCHANGED <<script, control, events, debug>>

StartMain ==
    /\ phase = "load" /\ inits = Len(Loaded)
    /\ phase' = "main" /\ running' = "main"
    /\ UNCHANGED <<script, chain, wake, turn, loops, events, debug>>

-----------------------------------------------------------------------------
(* The clock and the timer.                                                *)

\* How many values n bits have: 2^n.
Values[n \in 0 .. LongBits] == IF n = 0 THEN 1 ELSE 2 * Values[n - 1]

\* gettimestamp: the cell is sign-extended when a long is wider.
Stamp(c) == IF c < Values[CellBits - 1] THEN c ELSE Values[LongBits] - Values[CellBits] + c
Passed == (Stamp(clock) - timer.stamp) % Values[LongBits]
Due == timer.limit > 0 /\ Passed >= timer.limit

\* settimer, called by whatever script function runs.
SetTimer(limit, single) ==
    /\ running # "none" /\ ~loops
    /\ timer' = [stamp |-> Stamp(clock), limit |-> limit, repeat |-> ~single]
    /\ elapsed' = 0 /\ armed' = (limit > 0 /\ "@timer" \in script) /\ crossed' = FALSE
    /\ UNCHANGED <<script, chain, control, debug, clock, keys, dgrams, bound>>

-----------------------------------------------------------------------------
(* The idle functions.                                                     *)

\* Call public function f.
Enter(f) == running' = f /\ UNCHANGED <<phase, turn>>

\* Return from the idle function at the head of turn.  Only the result of the
\* last one, which the host called itself, is looked at.
Leave(ok) ==
    /\ running' = "none"
    /\ turn' = Tail(turn)
    /\ phase' = IF turn' = <<>> /\ ~ok THEN "exit" ELSE phase

Polls(m) == running = "none" /\ turn # <<>> /\ Head(turn) = m

\* Mutant: the next period starts when the poll comes.
PollTimeLate ==
    /\ Polls("time")
    /\ IF Due
       THEN /\ timer' = IF timer.repeat THEN [timer EXCEPT !.stamp = Stamp(clock)]
                                        ELSE [timer EXCEPT !.limit = 0]
            /\ elapsed' = IF timer.repeat /\ timer.limit <= elapsed THEN elapsed - timer.limit ELSE elapsed
            /\ armed' = timer.repeat
            /\ Enter("@timer")
       ELSE Leave(TRUE) /\ UNCHANGED <<timer, elapsed, armed>>
    /\ UNCHANGED <<script, chain, wake, loops, debug, clock, keys, dgrams, bound, crossed>>

\* amx_TimeIdle.  A repeating timer comes due one period after it came due, not
\* one period after it was noticed.
PollTime ==
    /\ Polls("time")
    /\ IF Due
       THEN /\ timer' = IF timer.repeat
                        THEN [timer EXCEPT !.stamp = (@ + timer.limit) % Values[LongBits]]
                        ELSE [timer EXCEPT !.limit = 0]
            /\ elapsed' = IF timer.repeat /\ timer.limit <= elapsed THEN elapsed - timer.limit ELSE elapsed
            /\ armed' = timer.repeat
            /\ Enter("@timer")
       ELSE Leave(TRUE) /\ UNCHANGED <<timer, elapsed, armed>>
    /\ UNCHANGED <<script, chain, wake, loops, debug, clock, keys, dgrams, bound, crossed>>

\* amx_ConsoleIdle.
PollKeys ==
    /\ Polls("cons")
    /\ IF keys > 0 THEN keys' = keys - 1 /\ Enter("@keypressed")
                   ELSE Leave(TRUE) /\ UNCHANGED keys
    /\ UNCHANGED <<script, chain, wake, loops, debug, clock, timer, dgrams, bound, elapsed, armed, crossed>>

\* idxReceivePacket stays -1 where there is an @receivestring, as amx_DGramInit
\* looks no further then.
PacketIndex == "@receivestring" \notin script

\* The public function a datagram is for.  The index of one that amx_FindPublic
\* has not found is INT_MAX, not a negative one, so that strings are for
\* @receivestring whether there is one or not.
Route(kind) == IF kind = "packet" /\ PacketIndex THEN "@receivepacket" ELSE "@receivestring"

\* amx_Exec with that index: with INT_MAX it fails.
Deliver(kind) == IF Route(kind) \in script THEN Enter(Route(kind)) ELSE Leave(FALSE)

\* amx_DGramIdle.  Binding the socket is tried until it works; the socket is
\* looked at in the same call.  The -1 of a select that fails counts as a
\* datagram, and the buffer holds whatever was there.
PollDGram ==
    /\ Polls("dgram")
    /\ \/ /\ ~bound             \* udp_Listen fails
          /\ Leave(FALSE)
          /\ UNCHANGED <<bound, dgrams>>
       \/ /\ bound' = TRUE
          /\ IF dgrams # <<>> /\ SelectSees
             THEN Deliver(Head(dgrams)) /\ dgrams' = Tail(dgrams)
             ELSE Leave(TRUE) /\ UNCHANGED dgrams
       \/ /\ bound' = TRUE
          /\ \E kind \in {"string", "packet"} : Deliver(kind)
          /\ UNCHANGED dgrams
    /\ UNCHANGED <<script, chain, wake, loops, debug, clock, timer, keys, elapsed, armed, crossed>>

-----------------------------------------------------------------------------
(* What a running script function may do.                                  *)

\* It returns to the idle function, with an error or without.
HandlerEnd ==
    /\ running \in Publics /\ ~loops
    /\ \E ok \in BOOLEAN : Leave(ok)
    /\ UNCHANGED <<script, chain, wake, loops, events, debug>>

\* main returns, with an error or without.
MainEnd ==
    /\ running = "main" /\ ~loops
    /\ running' = "none"
    /\ \E ok \in BOOLEAN : phase' = IF ok /\ idle # "none" THEN "events" ELSE "exit"
    /\ UNCHANGED <<script, chain, wake, turn, loops, events, debug>>

\* main sleeps; nested_amx is a copy of the machine, its hook included.
MainSleep ==
    /\ running = "main" /\ ~loops
    /\ running' = "none"
    /\ phase' = "asleep"
    /\ \E d \in Delays : wake' = d
    /\ nested' = hook
    /\ UNCHANGED <<script, chain, turn, loops, events, abort, hook>>

\* It enters a loop that never ends.
Loop ==
    /\ running # "none" /\ ~loops
    /\ loops' = TRUE
    /\ UNCHANGED <<script, chain, phase, wake, turn, running, events, debug>>

\* It executes a BREAK, and srun_Monitor ends it with AMX_ERR_EXIT.
Break ==
    /\ running # "none"
    /\ abort /\ IF phase = "asleep" THEN nested ELSE hook
    /\ IF running = "main"
       THEN running' = "none" /\ phase' = "exit" /\ UNCHANGED turn
       ELSE Leave(FALSE)
    /\ loops' = FALSE
    /\ UNCHANGED <<script, chain, wake, events, debug>>

-----------------------------------------------------------------------------
(* The host.                                                               *)

\* The idle functions in the order in which they look for an event.
CallOrder ==
    LET order[m \in ModuleNames \cup {"none"}] ==
          IF m = "none" THEN <<>> ELSE Append(order[prev[m]], m)
    IN order[idle]

\* One call of idlefunc, from either loop of main().
CallIdle ==
    /\ running = "none" /\ turn = <<>> /\ idle # "none"
    /\ phase = "events" \/ (phase = "asleep" /\ wake > 0)
    /\ turn' = CallOrder
    /\ UNCHANGED <<script, chain, phase, wake, running, loops, events, debug>>

\* Mutant: main is resumed when its handlers have nothing more to do.
ResumeQuiet ==
    /\ phase = "asleep" /\ running = "none" /\ turn = <<>>
    /\ wake = 0 /\ keys = 0 /\ ~Due
    /\ phase' = "main" /\ running' = "main" /\ wake' = 0
    /\ UNCHANGED <<script, chain, turn, loops, events, debug>>

\* The sleep is over: AMX_EXEC_CONT.
Resume ==
    /\ phase = "asleep" /\ running = "none" /\ turn = <<>>
    /\ wake = 0 \/ idle = "none"
    /\ phase' = "main" /\ running' = "main" /\ wake' = 0
    /\ UNCHANGED <<script, chain, turn, loops, events, debug>>

-----------------------------------------------------------------------------
(* The environment.                                                        *)

Tick ==
    /\ phase # "exit"
    /\ armed => elapsed < MaxElapsed
    /\ clock' = (clock + 1) % Values[CellBits]
    /\ elapsed' = IF armed THEN elapsed + 1 ELSE 0
    /\ wake' = IF wake > 0 THEN wake - 1 ELSE 0
    /\ crossed' = (crossed \/ (CellBits < LongBits /\ clock' = Values[CellBits - 1]))
    /\ UNCHANGED <<script, chain, phase, turn, running, loops, debug,
                   timer, keys, dgrams, bound, armed>>

KeyPress ==
    /\ phase # "exit" /\ "cons" \in {Loaded[i] : i \in DOMAIN Loaded}
    /\ keys < MaxPending
    /\ keys' = keys + 1
    /\ UNCHANGED <<script, chain, control, debug, clock, timer, dgrams, bound, elapsed, armed, crossed>>

Datagram(kind) ==
    /\ phase # "exit" /\ "dgram" \in {Loaded[i] : i \in DOMAIN Loaded}
    /\ Len(dgrams) < MaxPending
    /\ dgrams' = Append(dgrams, kind)
    /\ UNCHANGED <<script, chain, control, debug, clock, timer, keys, bound, elapsed, armed, crossed>>

\* Mutant: the signal handler leaves the hook to the option -stack.
SignalFlagsOnly ==
    /\ phase \in {"main", "asleep", "events"}
    /\ abort' = TRUE
    /\ UNCHANGED <<script, chain, control, events, hook, nested>>

\* SIGINT: sigabort sets the hook of the machine, not of its copy.
Signal ==
    /\ phase \in {"main", "asleep", "events"}
    /\ abort' = TRUE /\ hook' = TRUE
    /\ UNCHANGED <<script, chain, control, events, nested>>

HostStep   == InitModule \/ StartMain \/ CallIdle \/ Resume \/ PollTime \/ PollKeys
ScriptEnds == HandlerEnd \/ MainEnd \/ MainSleep

Next ==
    \/ HostStep \/ PollDGram
    \/ ScriptEnds \/ Loop \/ Break
    \/ \E limit \in Limits, single \in BOOLEAN : SetTimer(limit, single)
    \/ Tick \/ KeyPress \/ Signal
    \/ \E kind \in {"string", "packet"} : Datagram(kind)

\* The host never stops polling, a call that does not loop returns, one that
\* does loop executes its BREAKs, and time goes on.
Fairness ==
    /\ WF_vars(HostStep) /\ WF_vars(PollDGram)
    /\ WF_vars(ScriptEnds) /\ WF_vars(Break) /\ WF_vars(Tick)

Spec == Init /\ [][Next]_vars /\ Fairness

-----------------------------------------------------------------------------
TypeOK ==
    /\ script \in Handlers
    /\ prev \in [ModuleNames -> ModuleNames \cup {"none"}]
    /\ idle \in ModuleNames \cup {"none"} /\ inits \in 0 .. Len(Loaded)
    /\ phase \in {"load", "main", "asleep", "events", "exit"}
    /\ wake \in Nat /\ turn \in Seq(ModuleNames)
    /\ running \in Publics \cup {"main", "none"} /\ loops \in BOOLEAN
    /\ clock \in 0 .. Values[CellBits] - 1
    /\ timer \in [stamp : 0 .. Values[LongBits] - 1, limit : Nat, repeat : BOOLEAN]
    /\ keys \in 0 .. MaxPending /\ dgrams \in Seq({"string", "packet"})
    /\ {bound, abort, hook, nested, armed, crossed} \subseteq BOOLEAN
    /\ elapsed \in 0 .. MaxElapsed

\* The timer's own arithmetic, on counters that wrap around, agrees with the
\* time that has really passed since the timer was set or last came due: it is
\* never early, and a late poll does not shift the periods after it
\* (gettimestamp, settimer and amx_TimeIdle).  Where a long is wider than a
\* cell, it does until the sign of the tick count in a cell changes.
TimerMeasure == armed /\ ~crossed => Passed = elapsed

\* In the event loop a timer that is due is served, unless something else ends
\* the program or never returns.
TimerServed ==
    phase = "events" /\ armed /\ elapsed >= timer.limit
        ~> running = "@timer" \/ phase = "exit" \/ loops \/ ~armed \/ elapsed < timer.limit

\* A sleeping main wakes up, whatever events there are meanwhile (pawnrun.c).
MainWakes == phase = "asleep" ~> phase # "asleep" \/ loops

\* Ctrl-C ends a script function that never returns, unless it runs on the copy
\* and the hook was not there when that was made (sigabort, srun_Monitor).
AbortEndsLoop ==
    abort /\ loops /\ (phase = "asleep" => nested) ~> ~loops

=============================================================================
