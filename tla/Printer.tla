------------------------------ MODULE Printer ------------------------------
(***************************************************************************)
(* The progress printer (internal/progress/progress.go): the calls of one  *)
(* goroutine, the mutex, and on a terminal the goroutine that redraws the  *)
(* line of the step in progress until that step ends.                      *)
(*                                                                         *)
(* A call is a record: what is called, with which argument, and how far it *)
(* has got.  A spinner is known by its stop channel; a channel is used     *)
(* again when its spinner has ended, so that two are enough.               *)
(* Widths, padding, devices and the frames themselves are left out.        *)
(***************************************************************************)
EXTENDS Naturals, FiniteSets

CONSTANTS
    Label,          \* what a line may say
    Nil

Channel == {"one", "other"}

ASSUME PrinterAssumption == Nil \notin Label \cup Channel \cup {"caller"}

VARIABLES
    tty,        \* the output is a terminal
    mu,         \* who holds the mutex: "caller", a spinner, or Nil
    stop,       \* the field stop: the channel of the current spinner, or Nil
    closed,     \* the channels that are closed
    spinner,    \* where each spinner is
    call,       \* the call in progress
    label,      \* the fields label and planned
    planned,
    line,       \* what the unfinished line of the terminal says, or Nil
    printed     \* the last finished line: <<mark, label>>

printerVars == <<tty, mu, stop, closed, spinner, call, label, planned, line, printed>>

NoCall == [op |-> "none", arg |-> Nil, at |-> "return"]

PrinterTypeOK ==
    /\ tty \in BOOLEAN
    /\ mu \in {"caller", Nil} \cup Channel
    /\ stop \in Channel \cup {Nil}
    /\ closed \subseteq Channel
    /\ spinner \in [Channel -> {"gone", "select", "tick", "draw"}]
    /\ call \in [op : {"none", "start", "update", "finish", "skip"},
                 arg : Label \cup {"*", "x", Nil},
                 at : {"lock", "stop", "wait", "relock", "body", "return"}]
    /\ label \in Label \cup {Nil} /\ planned \in Label \cup {Nil}
    /\ line \in Label \cup {Nil}
    /\ printed \in ({"*", "x", ">", "-", Nil} \X (Label \cup {Nil}))

Silent == call.op = "none"

\* A method is called; the rest of the call is CallStep.
Invoke(op, arg) == call' = [op |-> op, arg |-> arg, at |-> "lock"]

At(step) == call.op # "none" /\ call.at = step

Goto(step) == call' = [call EXCEPT !.at = step]

LockMu ==
    /\ At("lock") \/ At("relock")
    /\ mu = Nil
    /\ mu' = "caller"
    /\ Goto(IF At("lock") /\ call.op # "update" THEN "stop" ELSE "body")
    /\ UNCHANGED <<tty, stop, closed, spinner, label, planned, line, printed>>

\* stopLocked: close the channel, then wait for the spinner without the mutex.
StopLocked ==
    /\ At("stop")
    /\ IF stop = Nil
       THEN Goto("body") /\ UNCHANGED <<mu, stop, closed>>
       ELSE /\ closed' = closed \cup {stop}
            /\ stop' = Nil
            /\ mu' = Nil
            /\ Goto("wait")
    /\ UNCHANGED <<tty, spinner, label, planned, line, printed>>

\* Mutant: the caller does not wait for the spinner to end.
NoWait == TRUE

\* The channel done is closed.
Ended == \A ch \in closed : spinner[ch] = "gone"

AwaitSpinner ==
    /\ At("wait")
    /\ Ended
    /\ Goto("relock")
    /\ UNCHANGED <<tty, mu, stop, closed, spinner, label, planned, line, printed>>

Return == call' = NoCall /\ mu' = Nil

\* Start: the line is drawn and a spinner started, or a plain line printed.
StartBody ==
    /\ At("body") /\ call.op = "start"
    /\ label' = call.arg /\ planned' = call.arg
    /\ IF tty
       THEN \E ch \in Channel :
                /\ spinner[ch] = "gone"
                /\ ch = "other" => spinner["one"] # "gone"
                /\ stop' = ch
                /\ closed' = closed \ {ch}
                /\ spinner' = [spinner EXCEPT ![ch] = "select"]
                /\ line' = call.arg
                /\ UNCHANGED printed
       ELSE /\ printed' = <<">", call.arg>>
            /\ UNCHANGED <<stop, closed, spinner, line>>
    /\ Return
    /\ UNCHANGED tty

\* Update: only while a spinner runs.
UpdateBody ==
    /\ At("body") /\ call.op = "update"
    /\ IF stop = Nil
       THEN UNCHANGED <<label, line>>
       ELSE label' = call.arg /\ line' = call.arg
    /\ Return
    /\ UNCHANGED <<tty, stop, closed, spinner, planned, printed>>

\* Mutant: the finished line keeps the label of the last update.
Shown == label

\* finish: the finished line has the label the step was started with.
Planned == planned

FinishBody ==
    /\ At("body") /\ call.op = "finish"
    /\ label' = Planned
    /\ printed' = <<call.arg, Planned>>
    /\ line' = Nil
    /\ Return
    /\ UNCHANGED <<tty, stop, closed, spinner, planned>>

SkipBody ==
    /\ At("body") /\ call.op = "skip"
    /\ label' = call.arg
    /\ printed' = <<"-", call.arg>>
    /\ Return
    /\ UNCHANGED <<tty, stop, closed, spinner, planned, line>>

CallStep ==
    \/ LockMu \/ StopLocked \/ AwaitSpinner
    \/ StartBody \/ UpdateBody \/ FinishBody \/ SkipBody

(***************************************************************************)
(* The goroutine of a spinner.                                             *)
(***************************************************************************)

Tick(ch) ==
    /\ spinner[ch] = "select"
    /\ spinner' = [spinner EXCEPT ![ch] = "tick"]
    /\ UNCHANGED <<tty, mu, stop, closed, call, label, planned, line, printed>>

SpinLock(ch) ==
    /\ spinner[ch] = "tick"
    /\ mu = Nil
    /\ mu' = ch
    /\ spinner' = [spinner EXCEPT ![ch] = "draw"]
    /\ UNCHANGED <<tty, stop, closed, call, label, planned, line, printed>>

\* A frame is drawn if the spinner is still the current one.
Draw(ch) ==
    /\ spinner[ch] = "draw"
    /\ line' = IF stop = ch THEN label ELSE line
    /\ mu' = Nil
    /\ spinner' = [spinner EXCEPT ![ch] = "select"]
    /\ UNCHANGED <<tty, stop, closed, call, label, planned, printed>>

\* Mutant: the spinner looks at the field, which no longer has its channel.
FieldClosed(ch) == stop \in closed

Told(ch) == ch \in closed

End(ch) ==
    /\ spinner[ch] = "select" /\ Told(ch)
    /\ spinner' = [spinner EXCEPT ![ch] = "gone"]
    /\ UNCHANGED <<tty, mu, stop, closed, call, label, planned, line, printed>>

Spin(ch) == Tick(ch) \/ SpinLock(ch) \/ Draw(ch) \/ End(ch)

PrinterInit ==
    /\ tty \in BOOLEAN
    /\ mu = Nil /\ stop = Nil /\ closed = {}
    /\ spinner = [ch \in Channel |-> "gone"]
    /\ call = NoCall
    /\ label = Nil /\ planned = Nil /\ line = Nil
    /\ printed = <<Nil, Nil>>
=============================================================================
